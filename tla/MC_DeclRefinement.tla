------------------------- MODULE MC_DeclRefinement -------------------------
(* Model-checking instances of DeclRefinement.                             *)
EXTENDS DeclRefinement

(* Leaves of an imported callback signature: the return value is "int", an *)
(* UndefinedReference or a reference "%i%"; the parameter is "struct s *"  *)
(* or a reference "*%i%".                                                   *)
RetLeaves   == {Base("int"), Undef} \cup {Ref(j, FALSE) : j \in Ifaces}
ParamLeaves == {Ptr(Base("s"))} \cup {Ref(j, TRUE) : j \in Ifaces}
Callbacks   == {<<"cb", r, <<p>>>> : r \in RetLeaves, p \in ParamLeaves}

(* Containers/resources: "struct s", "struct s *", a reference, undefined. *)
Plain == {Base("s"), Ptr(Base("s")), Undef} \cup {Ref(j, p) : j \in Ifaces, p \in BOOLEAN}

(* Every interface may take every shape. *)
MCShapesAll == [i \in Ifaces |-> Plain \cup Callbacks]

(* Interface 1 is a callback int (*)(struct s *), interface 2 a resource *)
(* declared "%1%", a reference to it without '*'.                          *)
MCShapesRefToCallback ==
  [i \in Ifaces |-> IF i = 1 THEN {<<"cb", Base("int"), <<Ptr(Base("s"))>>>>} ELSE {Ref(1, FALSE)}]
=============================================================================
