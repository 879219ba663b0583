--------------------------- MODULE EntryScenario ---------------------------
(***************************************************************************)
(* The artificial entry process "EMGentry" that calls the module init and *)
(* exit functions, and the scenario it describes when it runs.            *)
(*                                                                         *)
(*  - __import_inits_exits (src/core/core/avtg/emg/interfacespec/         *)
(*    analysis.py) puts init functions in load order and exit functions   *)
(*    in reverse load order;                                               *)
(*  - ProcessModel.__generate_entry and __finish_entry                    *)
(*    (src/core/core/avtg/emg/intermediate_model.py) turn the two lists   *)
(*    into the process                                                     *)
(*      [init_1].(<init_failed>.F.<stop> | <init_success>.                 *)
(*        [init_2].( ... | <init_success>.(D | <none>).X.<stop>))          *)
(*    where F is the exits called when an init fails, D the default      *)
(*    registration dispatches and X every exit call.                      *)
(*                                                                         *)
(* Between the two, __select_processes_and_models chooses, for every     *)
(* category in sorted order that has uncalled callbacks, the event        *)
(* process template that calls them (__choose_processes).  The label map  *)
(* __match_labels computes for a template is abstracted to its counts and *)
(* whether the process it yields calls the category's callbacks.          *)
(*                                                                         *)
(* A C file is abstracted to the module that owns it (one file each).     *)
(* The model executes that process: an init returns 0 or not, and the     *)
(* conditions <init_failed>/<init_success> test %ret%.                     *)
(***************************************************************************)
EXTENDS Naturals, Sequences, SequencesExt, FiniteSets

CONSTANTS
  Modules,   \* the modules of the verification object (avt['grps'])
  Deps,      \* <<a, b>> \in Deps: module a depends on module b (avt['deps'])
  Signals,   \* names of the Dispatch actions of EMGentry, as numbers
  Categories, \* interface categories, as numbers in sorted order
  Templates,  \* event process templates, as numbers in sorted name order
  None,
  Functions, Modelled, Sig, Fuel  \* the inputs of SignalPeers

ASSUME Deps \subseteq Modules \X Modules
ASSUME Signals \subseteq Nat /\ Categories \subseteq Nat /\ Templates \subseteq Nat

VARIABLES
  order,     \* calculate_load_order(deps)
  hasInit,   \* files with an entry in analysis["init"]
  hasExit,   \* files with an entry in analysis["exit"]
  pc,        \* where EMGentry is in its process
  k,         \* index of the current init call
  idx,       \* index in the list of exits or dispatches being called
  ret,       \* %ret%, the value the last init returned (0 or nonzero)
  trace,     \* the calls and dispatches EMGentry made, in order
  ignoreMissed, \* conf['ignore missed callbacks']
  uncalled,  \* category -> it has uncalled callbacks
  cat        \* index of the category being selected for

vars == <<order, hasInit, hasExit, pc, k, idx, ret, trace, ignoreMissed, uncalled, cat>>

-----------------------------------------------------------------------------
(* calculate_load_order (interfacespec/tarjan.py, outside src/): a         *)
(* dependency comes before the modules that depend on it.                  *)
LoadOrders ==
  {o \in SetToSeqs(Modules) :
     \A a, b \in Modules : <<a, b>> \in Deps =>
        \E i, j \in DOMAIN o : o[i] = b /\ o[j] = a /\ i < j}

(* Mutant: inits taken in the order of analysis["init"] (by file name). *)
Inits_ByName == SetToSortSeq(hasInit, <)

(* collection.inits: init functions of order_c_files in load order. *)
Inits == SelectSeq(order, LAMBDA m : m \in hasInit)

(* Mutant: exits in load order, reversed() forgotten. *)
Exits_NotReversed == SelectSeq(order, LAMBDA m : m \in hasExit)

(* collection.exits: exit functions of reversed(order_c_files). *)
Exits == SelectSeq(Reverse(order), LAMBDA m : m \in hasExit)

(* analysis.exits[:j-1:-1] with j = 1: the exits called after a failed     *)
(* init, the same list for every init.                                     *)
FailureExits == [t \in 1..(Len(Exits) - 1) |-> Exits[Len(Exits) - t + 1]]

(* names of the Dispatch actions, sorted and reversed. *)
Dispatches == Reverse(SetToSortSeq(Signals, <))

InitCall(m) == <<"init", m>>
ExitCall(m) == <<"exit", m>>
Dispatch(s) == <<"dispatch", s>>
Stop        == <<"stop">>

-----------------------------------------------------------------------------
(* analysis.categories and the template names, sorted. *)
CatSeq == SetToSortSeq(Categories, <)
TplSeq == SetToSortSeq(Templates, <)

(* The label map of a template for a category: numbers of native         *)
(* interfaces, matched calls, unmatched callbacks and unmatched labels,   *)
(* and whether the process calls the category's callbacks; None when the *)
(* template belongs to another category.                                  *)
Est == [native : 0..1, calls : 0..2, ucbs : 0..1, ulabels : 0..1, covers : BOOLEAN]

(* `estimations[name] and len(estimations[name]["matched calls"]) > 0` *)
Eligible(e) == e # None /\ e.calls > 0

(* Mutant: the native-interface gate tests the candidate, not the best. *)
Do_ChallengerGate(l, b) ==
  \/ l.native > b.native
  \/ /\ l.native = 0
     /\ \/ l.calls > b.calls /\ l.ucbs <= b.ucbs
        \/ l.calls >= b.calls /\ l.ucbs <= b.ucbs /\ l.ulabels < b.ulabels
        \/ l.ucbs < b.ucbs

(* `do`: label map l replaces the best one b. *)
Do(l, b) ==
  \/ l.native > b.native
  \/ /\ b.native = 0
     /\ \/ l.calls > b.calls /\ l.ucbs <= b.ucbs
        \/ l.calls >= b.calls /\ l.ucbs <= b.ucbs /\ l.ulabels < b.ulabels
        \/ l.ucbs < b.ucbs

(* __choose_processes: the first eligible template, replaced in sorted   *)
(* order by every eligible one without unmatched labels it prefers; None *)
(* when no template is eligible (the [0] raises IndexError).              *)
Chosen(e) ==
  LET first == SelectInSeq(TplSeq, LAMBDA t : Eligible(e[t]))
      Step(b, t) == IF Eligible(e[t]) /\ e[t].ulabels = 0 /\ Do(e[t], e[b]) THEN t ELSE b
  IN IF first = 0 THEN None ELSE FoldLeft(Step, TplSeq[first], TplSeq)

Estimations == [Templates -> Est \cup {None}]

-----------------------------------------------------------------------------
(* __import_inits_exits and __generate_entry raise when no init function  *)
(* was found, so EMGentry exists only with at least one; it starts with   *)
(* the first init call once the process model is complete.  The kernel    *)
(* models imported first may already call some categories' callbacks.    *)
(* The selection reads none of the inputs of __generate_entry, so the     *)
(* model picks them (EntryInputs) when EMGentry starts.                    *)
EntryInputs ==
  /\ order' \in LoadOrders
  /\ hasInit' \in SUBSET Modules \ {{}}
  /\ hasExit' \in SUBSET Modules

Init ==
  /\ order = <<>>
  /\ hasInit = {}
  /\ hasExit = {}
  /\ pc = "select"
  /\ k = 1
  /\ idx = 1
  /\ ret = 0
  /\ trace = <<>>
  /\ ignoreMissed \in BOOLEAN
  /\ uncalled \in [Categories -> BOOLEAN]
  /\ cat = 1

(* A category whose callbacks are all called is ignored. *)
SkipCategory ==
  /\ pc = "select" /\ cat <= Len(CatSeq) /\ ~uncalled[CatSeq[cat]]
  /\ cat' = cat + 1
  /\ UNCHANGED <<ignoreMissed, uncalled, order, hasInit, hasExit, pc, k, idx, ret, trace>>

(* __choose_processes on the label maps e of the templates, the chosen  *)
(* process added, and the sanity check: callbacks still uncalled raise    *)
(* RuntimeError unless 'ignore missed callbacks'.  No eligible template   *)
(* raises IndexError.                                                     *)
SelectProcess ==
  /\ pc = "select" /\ cat <= Len(CatSeq) /\ uncalled[CatSeq[cat]]
  /\ \E e \in Estimations :
       LET c == CatSeq[cat]
           w == Chosen(e)
       IN \/ w = None /\ pc' = "error" /\ UNCHANGED <<uncalled, cat>>
          \/ /\ w # None
             /\ uncalled' = [uncalled EXCEPT ![c] = ~e[w].covers]
             /\ IF ~e[w].covers /\ ~ignoreMissed
                THEN pc' = "error" /\ UNCHANGED cat
                ELSE cat' = cat + 1 /\ UNCHANGED pc
  /\ UNCHANGED <<ignoreMissed, order, hasInit, hasExit, k, idx, ret, trace>>

(* generate_event_model goes on to __finish_entry: EMGentry is complete. *)
FinishSelection ==
  /\ pc = "select" /\ cat > Len(CatSeq)
  /\ pc' = "init"
  /\ EntryInputs
  /\ UNCHANGED <<ignoreMissed, uncalled, cat, k, idx, ret, trace>>

(* [init_k]: %ret% = init(); the value is 0 or an error code. *)
CallInit ==
  /\ pc = "init"
  /\ trace' = Append(trace, InitCall(Inits[k]))
  /\ ret' \in {0, 1}
  /\ pc' = "check"
  /\ UNCHANGED <<ignoreMissed, uncalled, cat, order, hasInit, hasExit, k, idx>>

(* <init_failed>: %ret% != 0. *)
InitFailed ==
  /\ pc = "check" /\ ret # 0
  /\ pc' = "failed"
  /\ idx' = 1
  /\ UNCHANGED <<ignoreMissed, uncalled, cat, order, hasInit, hasExit, k, ret, trace>>

(* Mutant: the last <init_success> goes on to an init that is not there. *)
InitSucceeded_NoLast ==
  /\ pc = "check" /\ ret = 0
  /\ pc' = "init" /\ k' = k + 1
  /\ idx' = 1
  /\ UNCHANGED <<ignoreMissed, uncalled, cat, order, hasInit, hasExit, ret, trace>>

(* <init_success>: %ret% == 0, then the next init or the dispatches. *)
InitSucceeded ==
  /\ pc = "check" /\ ret = 0
  /\ IF k < Len(Inits)
     THEN pc' = "init" /\ k' = k + 1
     ELSE pc' = "dispatch" /\ k' = k
  /\ idx' = 1
  /\ UNCHANGED <<ignoreMissed, uncalled, cat, order, hasInit, hasExit, ret, trace>>

(* [exit_..] of the failure branch. *)
FailedExit ==
  /\ pc = "failed" /\ idx <= Len(FailureExits)
  /\ trace' = Append(trace, ExitCall(FailureExits[idx]))
  /\ idx' = idx + 1
  /\ UNCHANGED <<ignoreMissed, uncalled, cat, order, hasInit, hasExit, pc, k, ret>>

(* ([@d1].[@d2]...| <none>): either every dispatch in order, or none. *)
DispatchSignal ==
  /\ pc = "dispatch" /\ idx <= Len(Dispatches)
  /\ trace' = Append(trace, Dispatch(Dispatches[idx]))
  /\ IF idx = Len(Dispatches)
     THEN pc' = "exits" /\ idx' = 1
     ELSE pc' = pc /\ idx' = idx + 1
  /\ UNCHANGED <<ignoreMissed, uncalled, cat, order, hasInit, hasExit, k, ret>>

SkipDispatches ==
  /\ pc = "dispatch" /\ idx = 1
  /\ pc' = "exits"
  /\ UNCHANGED <<ignoreMissed, uncalled, cat, order, hasInit, hasExit, k, idx, ret, trace>>

(* [exit_..] for every exit of analysis.exits. *)
CallExit ==
  /\ pc = "exits" /\ idx <= Len(Exits)
  /\ trace' = Append(trace, ExitCall(Exits[idx]))
  /\ idx' = idx + 1
  /\ UNCHANGED <<ignoreMissed, uncalled, cat, order, hasInit, hasExit, pc, k, ret>>

(* <stop>: ldv_check_final_state(); ldv_stop(); *)
StopScenario ==
  /\ \/ pc = "failed" /\ idx > Len(FailureExits)
     \/ pc = "exits" /\ idx > Len(Exits)
  /\ trace' = Append(trace, Stop)
  /\ pc' = "stopped"
  /\ UNCHANGED <<ignoreMissed, uncalled, cat, order, hasInit, hasExit, k, idx, ret>>

Next ==
  \/ SkipCategory
  \/ SelectProcess
  \/ FinishSelection
  \/ CallInit
  \/ InitFailed
  \/ InitSucceeded
  \/ FailedExit
  \/ DispatchSignal
  \/ SkipDispatches
  \/ CallExit
  \/ StopScenario

Spec == Init /\ [][Next]_vars /\ WF_vars(Next)

(* Signal peering and default registration after each selection. *)
SP == INSTANCE SignalPeers

-----------------------------------------------------------------------------
Calls ==
  {InitCall(m) : m \in Modules} \cup {ExitCall(m) : m \in Modules}
    \cup {Dispatch(s) : s \in Signals} \cup {Stop}

Pos(s, x) == SelectInSeq(s, LAMBDA y : y = x)
InitPos(m) == Pos(trace, InitCall(m))
ExitPos(m) == Pos(trace, ExitCall(m))
ExitTrace == SelectSeq(trace, LAMBDA e : e[1] = "exit")

(* EMGentry is at one of its actions and calls only known functions; the  *)
(* init index stays inside the list of inits.                             *)
TypeOK ==
  /\ pc \notin {"select", "error"} => order \in LoadOrders /\ k \in 1..Len(Inits)
  /\ pc \in {"select", "error", "init", "check", "failed", "dispatch", "exits", "stopped"}
  /\ idx \in 1..(Cardinality(Modules) + Cardinality(Signals) + 1)
  /\ ret \in {0, 1}
  /\ trace \in Seq(Calls)
  /\ cat \in 1..(Len(CatSeq) + 1)

(* The init of a module is called only after the init of every module it *)
(* depends on was called and returned 0 (load order of the inits).        *)
InitAfterDependencies ==
  \A d \in Deps :
     InitPos(d[1]) > 0 /\ d[2] \in hasInit => 0 < InitPos(d[2]) /\ InitPos(d[2]) < InitPos(d[1])

(* When every init succeeded, a module is unloaded before the modules it *)
(* depends on, and at <stop> every exit function was called exactly once. *)
SuccessfulUnload ==
  ret = 0 =>
    /\ \A d \in Deps : ExitPos(d[1]) > 0 /\ ExitPos(d[2]) > 0 => ExitPos(d[1]) < ExitPos(d[2])
    /\ pc = "stopped" =>
         /\ {m \in Modules : ExitPos(m) > 0} = hasExit
         /\ Len(ExitTrace) = Cardinality(hasExit)

(* When an init fails, the failure branch unloads exactly the modules     *)
(* loaded before the failing one, in reverse load order, as a kernel     *)
(* unloads modules after a failed insmod.                                 *)
LoadedBeforeFailure ==
  SelectSeq(Reverse(order),
            LAMBDA m : m \in hasExit /\ Pos(order, m) < Pos(order, Inits[k]))

FailedInitUnloadsLoaded ==
  pc = "stopped" /\ ret # 0 =>
    ExitTrace = [i \in DOMAIN LoadedBeforeFailure |-> ExitCall(LoadedBeforeFailure[i])]

(* Spec 4.4, template selection monotonicity: whatever label maps the    *)
(* templates have when __choose_processes runs for a category, had any   *)
(* one of them one more native interface the same template, or that one, *)
(* would be chosen: a template never loses by it, and it never hands the *)
(* category to a third template.                                          *)
Monotone(e) ==
  Chosen(e) # None =>
    \A t \in Templates :
       e[t] # None => Chosen([e EXCEPT ![t].native = @ + 1]) \in {Chosen(e), t}

SelectionMonotone ==
  pc = "select" /\ cat <= Len(CatSeq) /\ uncalled[CatSeq[cat]] =>
    \A e \in Estimations : Monotone(e)

(* Signal peering reads none of the variables, so it is checked once, in *)
(* the initial state with every category uncalled and missed callbacks   *)
(* fatal.                                                                  *)
PeeringStart ==
  pc = "select" /\ cat = 1 /\ ~ignoreMissed /\ \A c \in Categories : uncalled[c]

(* When the selection starts, for every input the synthesis may get, the *)
(* recursion of __establish_signal_peers ends (SignalPeers).             *)
PeeringEnds == PeeringStart => SP!SynthesisEnds(SP!Input)

(* When the selection starts, for every input, every event process's     *)
(* 'register' receive ends up with a peer (SignalPeers).                 *)
RegistrationContract == PeeringStart => SP!RegistrationSatisfiable(SP!Input)

=============================================================================
