--------------------------- MODULE CategoryImport ---------------------------
(***************************************************************************)
(* Import of an interface categories specification and the binding of     *)
(* callback return values and parameters to interfaces                     *)
(* (CategoriesSpecification in src/core/core/avtg/emg/                     *)
(* interface_categories.py), with the interface-resolution cache.          *)
(*                                                                         *)
(* import_specification imports the categories in sorted order; after     *)
(* each category it calls _fulfill_function_interfaces on that category's *)
(* callbacks, which resolve_interface(..., use_cache=False) their return  *)
(* value and parameters against the interfaces imported so far.  Every    *)
(* resolve_interface call writes self._interface_cache[identifier]; later *)
(* calls with use_cache=True read it.                                      *)
(*                                                                         *)
(* Interface <<c, k>> is the k-th interface of category c in sorted        *)
(* identifier order.  Slot k = CbSlot of each category is its callback,   *)
(* with one return value and one parameter; the other slots are           *)
(* containers or resources with a declaration "s" (a structure), "ps"     *)
(* (a pointer to it) or "t" (another structure).  A slot's type is "int" *)
(* (primitive), "s", "ps", "t" or Ref(i), the reference "%i%".          *)
(***************************************************************************)
EXTENDS Naturals, FiniteSets

CONSTANTS
  NC,       \* number of categories, 1..NC in sorted order
  CbSlot,   \* slots 1..CbSlot-1 are containers/resources, CbSlot the callback
  None

Cats   == 1..NC
NonCb  == Cats \X (1..(CbSlot - 1))
Cbs    == Cats \X {CbSlot}
Ifaces == NonCb \cup Cbs

Ref(i) == <<"ref", i>>

Done   == <<"done", 0>>    \* import_specification went on to refinement
Failed == <<"error", 0>>   \* it raised
IsRef(t) == t \in {Ref(i) : i \in Ifaces}

(* Declaration identifiers that resolve_interface may be asked about, and *)
(* the one a weak match tries: the pointee of a pointer, or take_pointer. *)
Ty(n) == <<"ty", n>>
Int == Ty("int")
Idents == {Ty("s"), Ty("ps"), Ty("t"), Ty("pt")}
Weak(t) == CASE t = Ty("ps") -> Ty("s") [] t = Ty("s") -> Ty("ps") [] t = Ty("t") -> Ty("pt")

SlotTypes == {Int, Ty("s"), Ty("ps"), Ty("t")} \cup {Ref(i) : i \in NonCb}

ASSUME NC \in Nat \ {0} /\ CbSlot \in Nat \ {0, 1}

VARIABLES
  declOf,   \* container/resource -> its declaration identifier
  ret,      \* callback -> the type of its return value
  prm,      \* callback -> the type of its parameter
  known,    \* the keys of self.interfaces
  rv,       \* callback -> rv_interface
  par,      \* callback -> param_interfaces[0]
  cache,    \* self._interface_cache: identifier -> list, or None
  phase,    \* <<"import", c>>, <<"fulfil", c>>, Done or Failed
  answer    \* the last resolve_interface(d, c) with use_cache=True

vars == <<declOf, ret, prm, known, rv, par, cache, phase, answer>>

-----------------------------------------------------------------------------
(* Interfaces in sorted identifier order. *)
Before(i, j) == i[1] < j[1] \/ (i[1] = j[1] /\ i[2] < j[2])
First(S) == CHOOSE i \in S : \A j \in S \ {i} : Before(i, j)

(* The list comprehension of resolve_interface over interfaces K. *)
Matching(t, c, K) == {i \in K \cap NonCb : declOf[i] = t /\ (c = None \/ i[1] = c)}

(* resolve_interface, then resolve_interface_weakly when nothing matched: *)
(* the interfaces found and the identifiers whose cache entry is written. *)
Resolve(t, K) ==
  IF Matching(t, None, K) # {}
  THEN [found |-> Matching(t, None, K), written |-> {t}]
  ELSE [found |-> Matching(Weak(t), None, K), written |-> {t, Weak(t)}]

(* What _fulfill_function_interfaces does with one slot of type t: bind  *)
(* the referenced interface, skip a primitive, raise KeyError for a       *)
(* reference to an interface not in self.interfaces, or resolve.          *)
SlotOutcome(t, K) ==
  CASE IsRef(t) /\ t[2] \in K -> [kind |-> "ref", found |-> {t[2]}, written |-> {}]
    [] t = Int              -> [kind |-> "skip", found |-> {}, written |-> {}]
    [] IsRef(t)               -> [kind |-> "keyerror", found |-> {}, written |-> {}]
    [] OTHER                  -> [kind |-> "resolved", found |-> Resolve(t, K).found,
                                  written |-> Resolve(t, K).written]

(* Mutant: the return value bound to the list of matches. *)
RvBinding_NoLenCheck(o) == IF o.found = {} THEN None ELSE o.found

(* rv_interface = rv_interface[-1] when exactly one interface matched. *)
RvBinding(o) == IF Cardinality(o.found) = 1 THEN First(o.found) ELSE None

(* The first of several matching parameters is taken (the todo at 421).  *)
ParBinding(o) == IF o.found = {} THEN None ELSE First(o.found)

(* Mutant: the loop over categories does not stop after the last one. *)
NextPhase_NoLast(c) == <<"import", c + 1>>

(* `for category in sorted(specification["categories"])`: the next one, *)
(* or the rest of import_specification.                                  *)
NextPhase(c) == IF c = NC THEN Done ELSE <<"import", c + 1>>

WriteCache(ids, K) == [x \in Idents |-> IF x \in ids THEN Matching(x, None, K) ELSE cache[x]]

-----------------------------------------------------------------------------
Init ==
  /\ declOf \in [NonCb -> {Ty("s"), Ty("ps"), Ty("t")}]
  /\ ret \in [Cbs -> SlotTypes]
  /\ prm \in [Cbs -> SlotTypes]
  /\ known = {}
  /\ rv = [i \in Cbs |-> None]
  /\ par = [i \in Cbs |-> None]
  /\ cache = [x \in Idents |-> None]
  /\ phase = <<"import", 1>>
  /\ answer = None

(* __import_category_interfaces, first part: the containers, resources *)
(* and callbacks of category c enter self.interfaces.                    *)
ImportCategory(c) ==
  /\ phase = <<"import", c>>
  /\ known' = known \cup {i \in Ifaces : i[1] = c}
  /\ phase' = <<"fulfil", c>>
  /\ UNCHANGED <<declOf, ret, prm, rv, par, cache, answer>>

(* _fulfill_function_interfaces(callback) for the callback of category c: *)
(* the return value (ValueError on two matches), then the parameter; the *)
(* next category is imported, or import_specification goes on.           *)
FulfilCallback(c) ==
  LET cb == <<c, CbSlot>>
      r  == SlotOutcome(ret[cb], known)
      p  == SlotOutcome(prm[cb], known)
  IN
  /\ phase = <<"fulfil", c>>
  /\ IF r.kind = "keyerror" \/ Cardinality(r.found) > 1
     THEN /\ phase' = Failed
          /\ cache' = WriteCache(r.written, known)
          /\ UNCHANGED <<rv, par>>
     ELSE /\ rv' = [rv EXCEPT ![cb] = RvBinding(r)]
          /\ IF p.kind = "keyerror"
             THEN phase' = Failed /\ UNCHANGED par
             ELSE /\ par' = [par EXCEPT ![cb] = ParBinding(p)]
                  /\ phase' = NextPhase(c)
          /\ cache' = WriteCache(r.written \cup p.written, known)
  /\ UNCHANGED <<declOf, ret, prm, known, answer>>

(* A later resolve_interface(d, c) with use_cache=True: a cache hit is   *)
(* returned whatever category it was computed for.                        *)
Query(d, c) ==
  /\ phase = Done
  /\ IF cache[d] # None
     THEN answer' = [d |-> d, c |-> c, res |-> cache[d]] /\ UNCHANGED cache
     ELSE /\ answer' = [d |-> d, c |-> c, res |-> Matching(d, c, known)]
          /\ cache' = [cache EXCEPT ![d] = Matching(d, c, known)]
  /\ UNCHANGED <<declOf, ret, prm, known, rv, par, phase>>

Next ==
  \/ \E c \in Cats : ImportCategory(c) \/ FulfilCallback(c)
  \/ \E d \in {Ty("s"), Ty("ps"), Ty("t")}, c \in Cats \cup {None} : Query(d, c)

Spec == Init /\ [][Next]_vars

-----------------------------------------------------------------------------
(* Bindings are single interfaces (or None) and cache entries are lists *)
(* of containers and resources.                                          *)
TypeOK ==
  /\ known \subseteq Ifaces
  /\ rv \in [Cbs -> NonCb \cup {None}]
  /\ par \in [Cbs -> NonCb \cup {None}]
  /\ cache \in [Idents -> SUBSET NonCb \cup {None}]
  /\ phase \in ({"import", "fulfil"} \X Cats) \cup {Done, Failed}
  /\ answer = None \/ answer.res \subseteq NonCb

(* Spec 4.1: import fails only on a specification error; here every      *)
(* reference names an interface of the specification, so the only error *)
(* is a return value two interfaces of the graph claim.                   *)
ImportFailsOnlySpecError ==
  phase = Failed =>
    \E cb \in Cbs : Cardinality(SlotOutcome(ret[cb], Ifaces).found) > 1

(* Spec 8: resolve_interface(d, c) answers from the cache exactly what it *)
(* computes without it.                                                   *)
CacheConsistent ==
  answer # None => answer.res = Matching(answer.d, answer.c, known)

=============================================================================
