----------------------------- MODULE SignalPeers -----------------------------
(***************************************************************************)
(* Signal peering and default registration in the intermediate process   *)
(* model (ProcessModel in src/core/core/avtg/emg/intermediate_model.py). *)
(*                                                                         *)
(* After __choose_processes added a category's event process, a process  *)
(* with unmatched signals goes to __establish_signal_peers: every event   *)
(* process template (in sorted name order) that can exchange a signal     *)
(* with it and is not peered with it yet is added (__add_process, which   *)
(* peers it and normalises the model), recursively; then each unmatched  *)
(* 'register' receive gets the model processes of the kernel functions   *)
(* __predict_dispatcher finds, or else a default dispatch of EMGentry     *)
(* (__add_default_dispatch).                                              *)
(*                                                                         *)
(* A process is its kind, its name (a template or a kernel function, as  *)
(* a number), and the names of its dispatches and receives; a renamed    *)
(* receive (register_<name>_<id>) is kept apart.  Peer links are triples *)
(* <<i, s, j>>: dispatch s of process i is a peer of receive s of j, with *)
(* 0 standing for EMGentry.  Labels are abstracted to whether a template's *)
(* interfaces are all known and whether a receive's parameters all have  *)
(* labels; find_relevant_function with the name filters is abstracted to  *)
(* the list of kernel functions it yields.                                *)
(***************************************************************************)
EXTENDS Naturals, Sequences, SequencesExt, FiniteSets

CONSTANTS
  Templates,  \* event process templates, as numbers in sorted name order
  Functions,  \* kernel functions, as numbers in sorted name order
  Modelled,   \* kernel functions that may have a model of their own
  Sig,        \* signal names
  Fuel        \* bound on the depth of __establish_signal_peers

Register == "register"

ASSUME Register \in Sig /\ Modelled \subseteq Functions /\ Fuel \in Nat

(* The inputs of one synthesis: each template's dispatches and receives  *)
(* and whether its interfaces are all known; whether the parameters of a *)
(* receive have labels; the functions found for 'register'; the kernel   *)
(* models imported (their dispatches, or {"none"} for no model); the     *)
(* templates chosen for the categories.                                   *)
Input ==
  [D : [Templates -> SUBSET Sig], R : [Templates -> SUBSET Sig],
   ok : [Templates -> BOOLEAN], params : BOOLEAN,
   suits : {s \in BoundedSeq(Functions, Cardinality(Functions)) : IsInjective(s)},
   kern : [Modelled -> (SUBSET Sig) \cup {{"none"}}],
   chosen : [1..2 -> Templates]]

TplSeq == SetToSortSeq(Templates, <)
FnSeq  == SetToSortSeq(Modelled, <)

(* The empty model: model and event processes in the order they were     *)
(* added (their identifiers), peer links, EMGentry's default dispatches,  *)
(* and whether the recursion went deeper than Fuel.                       *)
NoModel == [procs |-> <<>>, links |-> {}, entry |-> {}, over |-> FALSE]

Proc(kind, name, d, r) == [kind |-> kind, name |-> name, d |-> d, r |-> r, rn |-> {}]
Instance(in, t) == Proc("event", t, in.D[t], in.R[t])

(* Process.unmatched_receives and unmatched_dispatches: signals of a    *)
(* process without a peer.                                                *)
UnmatchedReceives(M, j) ==
  {s \in M.procs[j].r : ~\E i \in 0..Len(M.procs) : <<i, s, j>> \in M.links}
UnmatchedDispatches(M, i) ==
  {s \in M.procs[i].d : ~\E j \in DOMAIN M.procs : <<i, s, j>> \in M.links}
Unmatched(M, i) == UnmatchedReceives(M, i) \cup UnmatchedDispatches(M, i) # {}

(* Process.establish_peers: same-named dispatch and receive of the two    *)
(* processes are linked both ways.                                        *)
EstablishPeers(P, L, i, j) ==
  L \cup {<<i, s, j>> : s \in P[i].d \cap P[j].r} \cup {<<j, s, i>> : s \in P[j].d \cap P[i].r}

(* __normalize_model: every model with every event process, and every    *)
(* two event processes.  Callback resolution is abstracted.               *)
NormalizeModel(M) ==
  LET P == M.procs
  IN [M EXCEPT !.links =
        @ \cup {l \in (DOMAIN P) \X Sig \X (DOMAIN P) :
                  /\ l[1] # l[3] /\ "event" \in {P[l[1]].kind, P[l[3]].kind}
                  /\ l[2] \in P[l[1]].d \cap P[l[3]].r}]

(* __add_process: None (0) when a label of the template refers to an     *)
(* interface the analysis does not know; otherwise the process is added, *)
(* peered with peer (0: none) and the model normalised.                  *)
AddProcess(M, p, known, peer) ==
  IF ~known THEN [m |-> M, new |-> 0]
  ELSE LET P == Append(M.procs, p)
           n == Len(P)
           L == IF peer = 0 THEN M.links ELSE EstablishPeers(P, M.links, n, peer)
       IN [m |-> NormalizeModel([M EXCEPT !.procs = P, !.links = L]), new |-> n]

(* Process.get_available_peers: the two can exchange some signal. *)
AvailablePeers(M, j, in, t) ==
  (M.procs[j].d \cap in.R[t]) \cup (M.procs[j].r \cap in.D[t]) # {}

(* peered_processes: an action of process j has a peer that is an        *)
(* instance of template t.                                                 *)
IsInstance(M, i, t) == i # 0 /\ M.procs[i].kind = "event" /\ M.procs[i].name = t
(* Mutant: the peers compared with the process's own template name. *)
PeeredWith_OwnName(M, j, t) ==
  LET own == M.procs[j].name
  IN \E l \in M.links : (l[1] = j /\ IsInstance(M, l[3], own)) \/ (l[3] = j /\ IsInstance(M, l[1], own))

PeeredWith(M, j, t) ==
  \E l \in M.links : (l[1] = j /\ IsInstance(M, l[3], t)) \/ (l[3] = j /\ IsInstance(M, l[1], t))

HasModel(M, f) == \E q \in DOMAIN M.procs : M.procs[q].kind = "model" /\ M.procs[q].name = f

(* The loop over the functions found: a function that already has a    *)
(* model ends it with False, the models added before kept; each other    *)
(* gets a model process dispatching the signal, peered with j.           *)
RECURSIVE PredictLoop(_, _, _, _, _)

(* Mutant: `len(suits) >= 0`, success even when nothing was found. *)
PredictLoop_EmptyTrue(in, M, j, s, i) ==
  IF i > Len(in.suits) THEN [m |-> M, ok |-> Len(in.suits) >= 0]
  ELSE IF HasModel(M, in.suits[i]) THEN [m |-> M, ok |-> FALSE]
  ELSE PredictLoop(in, AddProcess(M, Proc("model", in.suits[i], {s}, {}), TRUE, j).m, j, s, i + 1)

PredictLoop(in, M, j, s, i) ==
  IF i > Len(in.suits) THEN [m |-> M, ok |-> Len(in.suits) > 0]
  ELSE IF HasModel(M, in.suits[i]) THEN [m |-> M, ok |-> FALSE]
  ELSE PredictLoop(in, AddProcess(M, Proc("model", in.suits[i], {s}, {}), TRUE, j).m, j, s, i + 1)

(* __predict_dispatcher: False at once when a parameter has no label. *)
PredictDispatcher(in, M, j, s) ==
  IF ~in.params THEN [m |-> M, ok |-> FALSE] ELSE PredictLoop(in, M, j, s, 1)

(* __add_default_dispatch: the receive is renamed and EMGentry gets a    *)
(* dispatch of the new name peered with it.                               *)
AddDefaultDispatch(M, j, s) ==
  [M EXCEPT !.procs[j].r = @ \ {s}, !.procs[j].rn = @ \cup {s},
            !.links = @ \cup {<<0, s, j>>}, !.entry = @ \cup {<<s, j>>}]

(* The unmatched 'register' receive of process j, if any; other receives *)
(* are only warned about.                                                 *)
DefaultRegistration(in, M, j) ==
  IF Register \notin UnmatchedReceives(M, j) THEN M
  ELSE LET pr == PredictDispatcher(in, M, j, Register)
       IN IF pr.ok THEN pr.m ELSE AddDefaultDispatch(pr.m, j, Register)

(* __establish_signal_peers(process j): the loop over the templates from *)
(* the k-th on, then the default registration.                           *)
RECURSIVE EstablishSignalPeers(_, _, _, _, _)
EstablishSignalPeers(in, M, j, k, fuel) ==
  IF fuel = 0 THEN [M EXCEPT !.over = TRUE]
  ELSE IF k > Len(TplSeq) THEN DefaultRegistration(in, M, j)
  ELSE LET t == TplSeq[k]
           a == AddProcess(M, Instance(in, t), in.ok[t], j)
           M1 == IF ~AvailablePeers(M, j, in, t) \/ PeeredWith(M, j, t) THEN M
                 ELSE IF a.new # 0 /\ Unmatched(a.m, a.new)
                 THEN EstablishSignalPeers(in, a.m, a.new, 1, fuel - 1)
                 ELSE a.m
       IN EstablishSignalPeers(in, M1, j, k + 1, fuel)

(* __import_kernel_models: a model for every kernel function that has   *)
(* one, in sorted order.                                                  *)
KernelModels(in) ==
  FoldLeft(LAMBDA M, f : IF in.kern[f] = {"none"} THEN M
                         ELSE AddProcess(M, Proc("model", f, in.kern[f], {}), TRUE, 0).m,
           NoModel, FnSeq)

(* One category: the chosen template is added with its label map (which *)
(* always binds) and, with unmatched signals, peered.                    *)
SelectStep(in, M, t) ==
  LET a == AddProcess(M, Instance(in, t), TRUE, 0)
  IN IF Unmatched(a.m, a.new) THEN EstablishSignalPeers(in, a.m, a.new, 1, Fuel) ELSE a.m

(* __select_processes_and_models after the kernel models. *)
Synthesis(in) == FoldLeft(LAMBDA M, t : SelectStep(in, M, t), KernelModels(in), in.chosen)

-----------------------------------------------------------------------------
(* For every input in S (templates, kernel functions, models), the       *)
(* recursion of __establish_signal_peers ends within Fuel levels: the    *)
(* test that no action is peered with an instance of the candidate yet   *)
(* is what stops a process whose signals nobody can match from adding    *)
(* instances of the same templates forever.                               *)
SynthesisEnds(S) == \A in \in S : ~Synthesis(in).over

(* Spec 4.4, for every input in S: default registrar synthesis           *)
(* guarantees that every event process's registration contract is        *)
(* satisfiable: after the synthesis no event process has a 'register'    *)
(* receive without a peer, whether a kernel model or EMGentry dispatches *)
(* it.                                                                     *)
Registered(M) ==
  \A j \in DOMAIN M.procs : M.procs[j].kind = "event" => Register \notin UnmatchedReceives(M, j)
RegistrationSatisfiable(S) == \A in \in S : Registered(Synthesis(in))

=============================================================================
