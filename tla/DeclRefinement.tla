--------------------------- MODULE DeclRefinement ---------------------------
(***************************************************************************)
(* The fixpoint that removes interface references from interface          *)
(* declarations: CategoriesSpecification._refine_interfaces and           *)
(* _refine_declaration (src/core/core/avtg/emg/interface_categories.py).  *)
(*                                                                         *)
(* Declarations are abstracted to the shapes the refiner tells apart:     *)
(*   <<"b", n>>       a primitive or structure type n,                     *)
(*   <<"p", d>>       a pointer to d,                                      *)
(*   <<"r", i, ptr>>  an InterfaceReference to interface i (ptr: "*%i%"),  *)
(*   <<"u">>          an UndefinedReference,                               *)
(*   <<"f", h>>       the Function object with handle h.                   *)
(* Function objects are the only declarations the refiner mutates in      *)
(* place, so they live in an arena fn[h] and are shared by handle; every  *)
(* other declaration is a value.  A callback's declaration is a pointer   *)
(* to a function, <<"p", <<"f", h>>>>.                                     *)
(***************************************************************************)
EXTENDS Naturals, Sequences, FiniteSets, TLC

CONSTANTS
  NI,      \* number of interfaces; 1..NI is their sorted identifier order
  Shapes   \* Shapes[i]: the declarations interface i may be imported with

Ifaces == 1..NI

Base(n)   == <<"b", n>>
Ptr(d)    == <<"p", d>>
Ref(i, p) == <<"r", i, p>>
Undef     == <<"u">>
FnPtr(h)  == Ptr(<<"f", h>>)
NULL      == <<"null">>     \* the None returned by _refine_declaration
NoFn      == [ret |-> <<"none">>, params |-> <<>>]   \* an unused arena slot

(* An imported callback signature is <<"cb", ret, params>>; every other     *)
(* shape is a declaration value.                                            *)
IsCallbackShape(s) == s[1] = "cb"

ASSUME NI \in Nat \ {0}

VARIABLES
  decl,    \* interface -> its declaration (interface.declaration)
  fn,      \* handle -> Function object [ret, params]
  types,   \* self.types: identifier -> handle of a Function object
  cursor,  \* position of the `for interface in ...` loop of one pass
  flag,    \* clean_flag of the current pass
  phase,   \* "loop" while `while clean_flag` runs, then "done"
  decl0,   \* the declarations as imported (history, never changes)
  fn0      \* the Function objects as imported (history, never changes)

vars == <<decl, fn, types, cursor, flag, phase, decl0, fn0>>

-----------------------------------------------------------------------------
(* clean_declaration: no InterfaceReference or UndefinedReference is      *)
(* reachable.                                                              *)
RECURSIVE Clean(_, _)
Clean(d, F) ==
  CASE d[1] = "b" -> TRUE
    [] d[1] = "p" -> Clean(d[2], F)
    [] d[1] = "f" -> /\ Clean(F[d[2]].ret, F)
                     /\ \A k \in DOMAIN F[d[2]].params : Clean(F[d[2]].params[k], F)
    [] OTHER      -> FALSE

(* Declaration.identifier: the canonical type string, as a structured value. *)
RECURSIVE Ident(_, _)
FnIdent(f, F) == <<"fn", Ident(f.ret, F), [k \in DOMAIN f.params |-> Ident(f.params[k], F)]>>
Ident(d, F) ==
  CASE d[1] = "p" -> <<"*", Ident(d[2], F)>>
    [] d[1] = "f" -> FnIdent(F[d[2]], F)
    [] OTHER      -> d

-----------------------------------------------------------------------------
(* _refine_declaration on an InterfaceReference or UndefinedReference:     *)
(* the referenced interface's declaration if that one is clean (wrapped in *)
(* a pointer for "*%i%"), NULL otherwise.                                  *)
RefineLeaf_NoPointer(d) ==   \* mutant: "*%i%" resolved without take_pointer
  IF d[1] = "r" /\ Clean(decl[d[2]], fn) THEN decl[d[2]] ELSE NULL

RefineLeaf(d) ==
  IF d[1] = "r" /\ Clean(decl[d[2]], fn)
  THEN IF d[3] THEN Ptr(decl[d[2]]) ELSE decl[d[2]]
  ELSE NULL

RefineChild_NoCheck(d) ==    \* mutant: the `if rv:` test dropped
  IF Clean(d, fn) THEN d ELSE RefineLeaf(d)

(* One child of the copied Function: kept if clean, replaced if refinable. *)
RefineChild(d) ==
  IF Clean(d, fn) \/ RefineLeaf(d) = NULL THEN d ELSE RefineLeaf(d)

(* cp_declaration after the return value and every parameter were refined. *)
RefinedCopy(h) ==
  [ret |-> RefineChild(fn[h].ret),
   params |-> [k \in DOMAIN fn[h].params |-> RefineChild(fn[h].params[k])]]

Children(f) == {f.ret} \cup {f.params[k] : k \in DOMAIN f.params}

(* `refinement`: some dirty child was replaced. *)
Refinement(h) == \E c \in Children(fn[h]) : ~Clean(c, fn) /\ RefineLeaf(c) # NULL

(* `ret`: every dirty child was replaced. *)
AllRefined(h) == \A c \in Children(fn[h]) : Clean(c, fn) \/ RefineLeaf(c) # NULL

(* The Function branch's effect on the arena and on self.types.          *)
(* copy.copy is shallow: the copy shares its parameter list with the      *)
(* object, so `cp_declaration.parameters[index] = pr` rewrites the        *)
(* object's parameters in place whatever follows, while the new return   *)
(* value stays in the copy.  When the refined identifier is already      *)
(* known, the known object is returned and only that in-place write      *)
(* remains; otherwise the object also takes the refined return value and *)
(* is registered under its new identifier.                                *)
RefineFunction(h) ==
  LET cp == RefinedCopy(h)
      id == FnIdent(cp, fn)
  IN  CASE Refinement(h) /\ id \notin DOMAIN types ->
             /\ fn' = [fn EXCEPT ![h] = cp]
             /\ types' = (id :> h) @@ types
        [] Refinement(h) ->
             /\ fn' = [fn EXCEPT ![h].params = cp.params]
             /\ UNCHANGED types
        [] OTHER -> UNCHANGED <<fn, types>>

-----------------------------------------------------------------------------
(* One iteration of the `for interface in ...` loop of _refine_interfaces. *)

VisitClean(i) ==
  /\ phase = "loop" /\ cursor = i
  /\ Clean(decl[i], fn)
  /\ cursor' = i + 1
  /\ UNCHANGED <<decl, fn, types, flag, phase, decl0, fn0>>

(* An UndefinedReference (or an unresolvable reference) is left alone. *)
VisitUnresolvable(i) ==
  /\ phase = "loop" /\ cursor = i
  /\ decl[i][1] \in {"r", "u"}
  /\ RefineLeaf(decl[i]) = NULL
  /\ cursor' = i + 1
  /\ UNCHANGED <<decl, fn, types, flag, phase, decl0, fn0>>

(* The refiner's test `type(declaration) is Pointer and type(declaration.points) *)
(* is Function`.                                                            *)
IsFnPtr(d) == d[1] = "p" /\ d[2][1] = "f"

RefineReference_NoFlag(i) ==   \* mutant: clean_flag not set on substitution
  /\ phase = "loop" /\ cursor = i
  /\ decl[i][1] = "r"
  /\ RefineLeaf(decl[i]) # NULL
  /\ ~IsFnPtr(RefineLeaf(decl[i]))
  /\ decl' = [decl EXCEPT ![i] = RefineLeaf(decl[i])]
  /\ cursor' = i + 1
  /\ UNCHANGED <<fn, types, flag, phase, decl0, fn0>>

(* `elif declaration: interface.declaration = declaration; clean_flag = True` *)
RefineReference(i) ==
  /\ phase = "loop" /\ cursor = i
  /\ decl[i][1] = "r"
  /\ RefineLeaf(decl[i]) # NULL
  /\ ~IsFnPtr(RefineLeaf(decl[i]))
  /\ decl' = [decl EXCEPT ![i] = RefineLeaf(decl[i])]
  /\ flag' = TRUE
  /\ cursor' = i + 1
  /\ UNCHANGED <<fn, types, phase, decl0, fn0>>

(* A reference that resolves to a pointer to a function takes the first    *)
(* branch: clean_flag is set but the interface keeps the reference.        *)
RefineReferenceToCallback(i) ==
  /\ phase = "loop" /\ cursor = i
  /\ decl[i][1] = "r"
  /\ RefineLeaf(decl[i]) # NULL
  /\ IsFnPtr(RefineLeaf(decl[i]))
  /\ flag' = TRUE
  /\ cursor' = i + 1
  /\ UNCHANGED <<decl, fn, types, phase, decl0, fn0>>

(* A dirty pointer to a function: the pointee is refined, and a non-None   *)
(* result only sets clean_flag; interface.declaration is not reassigned.   *)
RefineCallback(i) ==
  /\ phase = "loop" /\ cursor = i
  /\ IsFnPtr(decl[i])
  /\ ~Clean(decl[i], fn)
  /\ RefineFunction(decl[i][2][2])
  /\ flag' = (flag \/ AllRefined(decl[i][2][2]))
  /\ cursor' = i + 1
  /\ UNCHANGED <<decl, phase, decl0, fn0>>

(* `while clean_flag:` another pass, or the loop ends. *)
NextPass ==
  /\ phase = "loop" /\ cursor = NI + 1 /\ flag
  /\ cursor' = 1
  /\ flag' = FALSE
  /\ UNCHANGED <<decl, fn, types, phase, decl0, fn0>>

Finish ==
  /\ phase = "loop" /\ cursor = NI + 1 /\ ~flag
  /\ phase' = "done"
  /\ UNCHANGED <<decl, fn, types, cursor, flag, decl0, fn0>>

-----------------------------------------------------------------------------
(* Import: callbacks with the same signature share one Function object    *)
(* (the lowest interface using it owns the handle).                        *)
Owner(shape, i) == CHOOSE j \in Ifaces : shape[j] = shape[i] /\ \A k \in 1..j-1 : shape[k] # shape[i]

Imported(shape) ==
  [i \in Ifaces |-> IF IsCallbackShape(shape[i]) THEN FnPtr(Owner(shape, i)) ELSE shape[i]]

Arena(shape) ==
  [h \in Ifaces |-> IF IsCallbackShape(shape[h]) /\ Owner(shape, h) = h
                    THEN [ret |-> shape[h][2], params |-> shape[h][3]]
                    ELSE NoFn]

Init ==
  /\ \E shape \in [Ifaces -> UNION {Shapes[i] : i \in Ifaces}] :
        /\ \A i \in Ifaces : shape[i] \in Shapes[i]
        /\ decl0 = Imported(shape)
        /\ fn0 = Arena(shape)
  /\ decl = decl0
  /\ fn = fn0
  /\ types = <<>>
  /\ cursor = 1
  /\ flag = FALSE
  /\ phase = "loop"

Next ==
  \/ \E i \in Ifaces :
       \/ VisitClean(i)
       \/ VisitUnresolvable(i)
       \/ RefineReference(i)
       \/ RefineReferenceToCallback(i)
       \/ RefineCallback(i)
  \/ NextPass
  \/ Finish

(* The refiner is a sequential loop: it keeps taking steps while it can. *)
Spec == Init /\ [][Next]_vars /\ WF_vars(Next)

-----------------------------------------------------------------------------
(* Properties                                                              *)

RECURSIVE IsDecl(_)
IsDecl(d) ==
  CASE d[1] = "b" -> TRUE
    [] d[1] = "p" -> IsDecl(d[2])
    [] d[1] = "r" -> d[2] \in Ifaces /\ d[3] \in BOOLEAN
    [] d[1] = "u" -> TRUE
    [] d[1] = "f" -> d[2] \in Ifaces
    [] OTHER      -> FALSE

(* Every interface declaration and every child of every Function object is *)
(* a declaration (never None), the loop cursor stays within the interfaces. *)
TypeOK ==
  /\ \A i \in Ifaces : IsDecl(decl[i])
  /\ \A h \in Ifaces : fn[h] = NoFn \/ \A c \in Children(fn[h]) : IsDecl(c)
  /\ \A id \in DOMAIN types : types[id] \in Ifaces
  /\ cursor \in 1..NI + 1
  /\ flag \in BOOLEAN
  /\ phase \in {"loop", "done"}

(* The type a declaration denotes once every reference is expanded through *)
(* the declarations as imported; Bot when an UndefinedReference or a cycle *)
(* of references is reached.                                               *)
Bot == <<"bot">>
RECURSIVE Meaning(_, _, _)
Meaning(d, F, n) ==
  CASE d[1] = "b" -> d
    [] d[1] = "p" -> LET m == Meaning(d[2], F, n) IN IF m = Bot THEN Bot ELSE <<"*", m>>
    [] d[1] = "f" ->
         LET r  == Meaning(F[d[2]].ret, F, n)
             ps == [k \in DOMAIN F[d[2]].params |-> Meaning(F[d[2]].params[k], F, n)]
         IN  IF r = Bot \/ \E k \in DOMAIN ps : ps[k] = Bot THEN Bot ELSE <<"fn", r, ps>>
    [] d[1] = "r" /\ n > 0 ->
         LET m == Meaning(decl0[d[2]], fn0, n - 1)
         IN  IF m = Bot THEN Bot ELSE IF d[3] THEN <<"*", m>> ELSE m
    [] OTHER -> Bot

Resolvable(i) == Meaning(decl0[i], fn0, NI) # Bot

(* Refinement only replaces a reference by what it stands for: every       *)
(* interface declaration, including Function objects rewritten in place or *)
(* shared between callbacks, denotes the type it was imported with, with   *)
(* "*%i%" keeping its pointer.                                             *)
MeaningPreserved ==
  \A i \in Ifaces : Meaning(decl[i], fn, NI) = Meaning(decl0[i], fn0, NI)

(* When `while clean_flag` stops, every interface whose references can all *)
(* be resolved (no UndefinedReference, no cycle) has a clean declaration,  *)
(* forward references resolved over later passes included.                *)
FixpointComplete ==
  phase = "done" => \A i \in Ifaces : Resolvable(i) => Clean(decl[i], fn)

(* _refine_interfaces returns: the `while clean_flag` loop terminates. *)
Termination == <>(phase = "done")

=============================================================================
