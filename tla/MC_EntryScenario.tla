-------------------------- MODULE MC_EntryScenario --------------------------
EXTENDS EntryScenario

(* Four modules: 1 and 3 depend on 2, 4 is independent, so several load  *)
(* orders exist and two dependency edges can be checked.                  *)
MCModules == 1..4
MCDeps    == {<<1, 2>>, <<3, 2>>}
MCSignals == {1, 2}

(* Two categories and two event process templates: each selection        *)
(* enumerates every pair of label maps.                                   *)
MCCategories == {1, 2}
MCTemplates  == {1, 2}

(* Signal peering: two kernel functions, the first of which may have a   *)
(* model of its own; 'register' and one other signal.  'deregister' takes *)
(* the same path as 'register'.                                           *)
MCFunctions == {1, 2}
MCModelled  == {1}
MCSig       == {"register", "x"}

(* Label matching (LabelMatch) for category 1.  Category 1 has a         *)
(* container OPS with fields probe and release naming the callbacks      *)
(* PROBE and REL, a callback IRQ, all three taking the resource DEV;      *)
(* category 2 a container DOPS whose probe names DCB.  UNK is an          *)
(* interface of category 1 the analysis does not know.                    *)
OPS == <<1, 1>>
PROBE == <<1, 2>>
REL == <<1, 3>>
IRQ == <<1, 4>>
DEV == <<1, 5>>
UNK == <<1, 9>>
DOPS == <<2, 1>>
DCB == <<2, 2>>
MCKnown == {OPS, PROBE, REL, IRQ, DEV, DOPS, DCB}
MCKindOf == [i \in MCKnown |-> CASE i \in {OPS, DOPS} -> "container"
                                  [] i = DEV -> "resource"
                                  [] OTHER -> "callback"]
MCFieldsOf == [i \in MCKnown |-> CASE i = OPS -> [f \in {"probe", "release"} |-> IF f = "probe" THEN PROBE ELSE REL]
                                    [] i = DOPS -> [f \in {"probe"} |-> DCB]
                                    [] OTHER -> [f \in {} |-> i]]
MCParamsOf == [i \in MCKnown |-> IF i \in {PROBE, REL, IRQ} THEN <<DEV>> ELSE <<>>]

LM == INSTANCE LabelMatch WITH Category <- 1, Known <- MCKnown, KindOf <- MCKindOf,
        FieldsOf <- MCFieldsOf, ParamsOf <- MCParamsOf, Passes <- 4

(* Templates with a container label ops, a callback label cb and a       *)
(* resource label dev, each declaring no interface or one, and any        *)
(* subsequence of the calls ops.probe(dev), ops.release(dev), cb(dev)    *)
(* and cb(); any of the callbacks may be called already.                  *)
AllCalls ==
  << [cb |-> <<"ops", "probe">>, params |-> <<<<"dev", "">>>>],
     [cb |-> <<"ops", "release">>, params |-> <<<<"dev", "">>>>],
     [cb |-> <<"cb", "">>, params |-> <<<<"dev", "">>>>],
     [cb |-> <<"cb", "">>, params |-> <<>>] >>
CallSeqs == {[n \in 1..Cardinality(S) |-> AllCalls[SetToSortSeq(S, <)[n]]] : S \in SUBSET (1..4)}
Lab(kd, I) == [kind |-> kd, intfs |-> I, prior |-> FALSE]
MCProcesses ==
  {[lab |-> [l \in {"ops", "cb", "dev"} |-> CASE l = "ops" -> Lab("container", o)
                                            [] l = "cb" -> Lab("callback", c)
                                            [] OTHER -> Lab("resource", d)],
    calls |-> cs] : o \in {{}, {OPS}, {DOPS}, {UNK}}, c \in {{}, {IRQ}}, d \in {{}, {DEV}}, cs \in CallSeqs}
MCCalled == {[i \in MCKnown |-> i \in C] : C \in SUBSET {PROBE, REL, IRQ}}

(* The `while success_on_iteration` loop of __match_labels ends, within  *)
(* Passes passes, for every template of the family and every set of      *)
(* called callbacks: a pass stops adding matched callbacks and labels.   *)
(* Like signal peering it reads no variables and is checked once.        *)
MatchEnds ==
  PeeringStart =>
    \A tpl \in MCProcesses, called \in MCCalled :
       LET r == LM!MatchLabels(tpl, called) IN "none" \in DOMAIN r \/ ~r.over

(* Entity import (EntityImport).  Initializer nodes up to three levels   *)
(* deep: scalars with a non-null, a null or no value or with a list, an  *)
(* array given a string; structs with up to two of the fields "b", "a"   *)
(* and an unnamed one, arrays with up to two entries of one element kind,*)
(* and a struct or an array whose field or entry holds any of these;     *)
(* a second variable is a scalar or a struct with a string value.       *)
(* Variables are named "x", "y" or have no name.                          *)
StrRank == [s \in {"", "a", "b", "f", "x", "y"} |-> CASE s = "" -> 0 [] s = "a" -> 1 [] s = "b" -> 2
                                                       [] s = "f" -> 3 [] s = "x" -> 4 [] OTHER -> 5]
MCStrLess(s, t) == StrRank[s] < StrRank[t]
EI == INSTANCE EntityImport WITH NoRoot <- "noroot", StrLess <- MCStrLess
Nd(kd, v, nl, es) == [kind |-> kd, val |-> v, null |-> nl, entries |-> es]
Ent(ky, n) == [key |-> ky, node |-> n]
EL0 == {Nd("scalar", "str", FALSE, <<>>), Nd("scalar", "str", TRUE, <<>>), Nd("scalar", "none", FALSE, <<>>),
        Nd("scalar", "list", FALSE, <<>>), Nd("array", "str", FALSE, <<>>)}
EKeys == {<<>>, <<"b">>, <<"">>, <<"a">>, <<"b", "">>, <<"b", "a">>, <<"", "a">>}
ESeqs(ks, S) == {[i \in DOMAIN ks |-> Ent(ks[i], f[i])] : f \in [DOMAIN ks -> S]}
Uniform(es) == \A i, j \in DOMAIN es : es[i].node.kind = es[j].node.kind
EL1 == EL0 \cup UNION {{Nd(kd, "list", FALSE, es) : es \in ESeqs(ks, EL0)} : kd \in {"struct", "union"}, ks \in EKeys}
           \cup {Nd("array", "list", FALSE, es) : es \in {es \in UNION {ESeqs(ks, EL0) : ks \in {<<>>, <<0>>, <<0, 1>>}} : Uniform(es)}}
EL2 == {Nd("struct", "list", FALSE, <<Ent("f", n)>>) : n \in EL1} \cup {Nd("array", "list", FALSE, <<Ent(0, n)>>) : n \in EL1}
MCVariables ==
  {<<[name |-> "x", node |-> n]>> : n \in EL1 \cup EL2}
    \cup {<<[name |-> a, node |-> n], [name |-> b, node |-> m]>> :
             n \in EL1, m \in {Nd("scalar", "str", FALSE, <<>>), Nd("struct", "str", FALSE, <<>>)},
             a \in {"y", ""}, b \in {"x", ""}}

(* __extract_types imports every global-variable initializer as spec 4.3 *)
(* says: for every family of variables, the worklist loop of             *)
(* __import_entities fails exactly on a malformed initializer and        *)
(* otherwise records each container variable and each non-null leaf once *)
(* with its path as root sequence.  Checked once, like signal peering.    *)
EntitiesImported == PeeringStart => \A vs \in MCVariables : EI!ImportMatchesTrees(vs)
=============================================================================
