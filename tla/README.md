# TLA+ models of Klever's environment-model generator and job orchestration

This directory holds TLA+ specifications of parts of the Klever sources under
`src/`, the TLC configurations that check them, and `PROJECT.json`, which maps
every definition to the lines it models and lists the runs, mutants,
findings and hazards.

## 1. The system and its parts

| Part | Source | State | Operations | Hard behaviour |
|---|---|---|---|---|
| Interface graph builder | `core/avtg/emg/interface_categories.py` | interfaces (id → declaration), `self.types`, three caches, locked categories | `import_specification`, `_refine_interfaces`/`_refine_declaration`, `resolve_containers`, `resolve_interface(_weakly)`, `implementations`, `_fulfill_function_interfaces` | a fixpoint over cyclic and forward references; Function objects shared and mutated in place; caches keyed by identifiers that refinement changes |
| Source-analysis importer | `core/avtg/emg/interfacespec/analysis.py` | `collection.inits`, `exits`, implementations, kernel functions | `__import_inits_exits`, `__extract_types`, `__import_entities` | init/exit order from the module dependency graph; one worklist over the initializer trees of all global variables |
| Process-model synthesis | `core/avtg/emg/intermediate_model.py` | entry process, model and event processes | `__generate_entry`, `__finish_entry`, label matching (`__match_labels`), template choice, label binding, signal peers, default dispatchers, access resolution | the entry scenario's init-failure branches; heuristic tie-breaks; a partial return in `__predict_dispatcher` |
| Job decision | `core/job.py` | queue `sub-job indexes`, solver processes, the Manager dict `data`, `data_lock`, per-sub-job `verification statuses` queue | `decide`, `decide_sub_job`, `__decide_sub_job`, `launch_sub_job_components`, `report_results` | a process pool with sentinels; a lock around merge, copy and report; blocking gets; exit codes and termination |
| Scheduler | `scheduler/schedulers/__init__.py` | `jbs`, `tks`, the message channel | `launch` callback (job start `1`, cancel `6`), `terminate`, `__add_missing_restrictions` | auto-acknowledged messages; an exception outside the try; a loop after a blocking `start_consuming` |
| Others | coverage strategy, BusyBox fragmentation, Zephyr generator, LKVOG registry, Bridge URLs, deployment script | | | pure algorithms or I/O (see `PROJECT.json` components) |

The EMG parts interact in one direction: the graph builder refines
declarations, the importer binds source facts to it, and the synthesis engine
matches templates against the result and builds the entry process from the
importer's init and exit lists. Job decision runs one process per sub-job
solver; each sub-job's components feed its statuses queue.

## 2. Modules

### DeclRefinement (interface_categories.py 293-368)
- **Declarations.** Values `<<"b",n>>` (plain), `<<"p",d>>` (pointer),
  `<<"r",i,ptr>>` (InterfaceReference, `ptr` for `*%i%`) and `<<"u">>`
  (UndefinedReference).
- **Function objects.** These live in an arena `fn[h]` because
  `_refine_declaration` rewrites them in place. Callbacks with the same
  imported signature share one object, as the signature importer shares
  them. `types` is `self.types`.
- **Loop.** `cursor` and `flag` are the `for` loop and `clean_flag` of one
  pass of `_refine_interfaces`. `phase` records whether the `while` loop
  has ended.
- **Actions.** One per branch of a loop iteration: `VisitClean`,
  `VisitUnresolvable`, `RefineReference`, `RefineReferenceToCallback` and
  `RefineCallback`. The whole Function branch of `_refine_declaration` is
  the operator `RefineFunction`. `copy.copy` is shallow, so the copy's
  parameter list is the object's own: writing a refined parameter into the
  copy (line 327) rewrites the shared object in place. When the refined
  identifier is already in `self.types` the known object is returned and
  only that in-place write remains; otherwise the object also takes the
  new return value and is registered under its new identifier. `NextPass` and `Finish` end a pass.
- **History.** `decl0`/`fn0` hold the imported declarations for the
  properties.

### EntryScenario (analysis.py 44-67, intermediate_model.py 31-41, 47-287)
- **Template selection.** `generate_event_model` runs
  `__select_processes_and_models` between the two halves of the entry
  generation. The model runs it first, over `Categories` in sorted order
  (`categories` sorts them).
  - `SkipCategory` ignores a category whose callbacks are all called.
  - `SelectProcess` chooses the label maps `e` that `__match_labels`
    would compute, one per template or `None`. It is abstracted to the
    counts `__choose_processes` compares, plus whether the chosen process
    calls the category's callbacks. `Chosen` is `__choose_processes`: the
    first eligible template, then a fold in sorted order with `Do`. No
    eligible template is the IndexError of line 242. Callbacks still
    uncalled raise the RuntimeError unless `ignore missed callbacks`.
  - `FinishSelection` goes on to `__finish_entry`.
- **Setup.** The load order (any topological order of `Deps`, which
  `calculate_load_order` outside `src/` computes) and the modules that have
  init and exit functions are chosen by `FinishSelection` (`EntryInputs`).
  Selection reads none of them, so choosing them there rather than in
  `Init` changes no behaviour and keeps the product of the two small.
- **Lists.** `Inits`, `Exits` and `FailureExits` are the lists the code
  builds. `FailureExits` is `analysis.exits[:j-1:-1]` with `j = 1`.
- **Execution.** The model executes the process text `__finish_entry`
  writes: `CallInit` (an init returns 0 or not), `InitFailed`/`InitSucceeded`
  (the conditions on `%ret%`), `FailedExit`, `DispatchSignal`/`SkipDispatches`
  (`(dispatches | <none>)`), `CallExit`, `StopScenario`.
- **Trace.** `trace` is the sequence of calls.

### SignalPeers (intermediate_model.py 161-231, 295-392, 599-782)
Signal peering and default registration, as pure operators over one input
of the synthesis. `EntryScenario` instantiates it (`SP`) and checks its two
properties in the selection state.
- **Model.** `procs` is the model and event processes in the order
  `__add_process` adds them. `links` holds peer triples `<<i, s, j>>`:
  dispatch `s` of `i` is a peer of receive `s` of `j`, and `0` is EMGentry.
  `entry` is EMGentry's default dispatches. `over` records that the
  recursion went deeper than `Fuel`.
- **Operations.**
  - `KernelModels` is `__import_kernel_models`.
  - `AddProcess` is `__add_process`, with `None` for a template whose
    interfaces are not all known.
  - `NormalizeModel` is `__normalize_model`; callback resolution is
    abstracted.
  - `EstablishSignalPeers` is `__establish_signal_peers`: the template loop
    in sorted order, the `peered_processes` test (`PeeredWith`), the
    recursion into a new process with unmatched signals, then
    `DefaultRegistration`.
  - `PredictDispatcher` and `PredictLoop` are `__predict_dispatcher`. It
    returns False early when a parameter has no label, and in the middle of
    its loop when a found function already has a model, keeping the models
    added before. `AddDefaultDispatch` is `__add_default_dispatch`.
  - `Synthesis` is `__select_processes_and_models`: kernel models, then
    one `SelectStep` per chosen template.
- **Abstraction.** Labels are reduced to two facts: whether a template's
  interfaces are known, and whether the receive's parameters have labels.
  `find_relevant_function` with the name filters becomes the list `suits`.
  Only `register` is modelled. `deregister` takes the same path.
  `Process` is outside `src/`, so `Proc`, `EstablishPeers`,
  `AvailablePeers` and the `Unmatched*` operators follow the spec.

### LabelMatch (intermediate_model.py 394-579, 784-870)
`__match_labels` over concrete interfaces, labels and calls, as pure
operators. `MC_EntryScenario` instantiates it (`LM`) for one analysis and
checks it in the selection state, like SignalPeers.
- **Data.** An interface is `<<category, number>>`. `KindOf`, `FieldsOf` and
  `ParamsOf` are the analysis. A template (`T`) has labels (kind, declared
  interfaces, prior signature) and calls: an access `<<label, tail>>` and
  parameter accesses. The label map `M` holds `ml`/`keys` ("matched
  labels"), `mcb`, `ucb`, `mcalls`, `ulabels`, `native`.
- **Operations.** `Start` and `Natives` are the native-interface loop.
  `MatchLabels` returns `[none |-> TRUE]` for a template of another
  category. `Pass` is one iteration of `while success_on_iteration`:
  `CallStep` per call (`ContainerMatch`, `Callees`, `MatchParameters`), then
  `RestCallbacks`, the unmatched labels, the reset of both callback lists
  and `CountCall` per call. `Iterate` repeats it while `Size` grows, up to
  `Passes`, and sets `over` beyond. `Discard` is the loop after it.
  `AddMatch` is `__add_label_match`.
- **Abstraction.** `Resolve` is `__resolve_interface` for a tail of one
  field, matched by field name. The role map and the declaration filters
  are left out. The test `action.callback not in label_map["matched
  callbacks"]` compares an access with identifiers and never holds, so
  `CountCall` appends a container call's callback on every call.

### EntityImport (analysis.py 70-99, 162-231)
The global-variable part of `__extract_types` and `__import_entities`, as
pure operators. `MC_EntryScenario` instantiates it (`EI`) and checks it in
the selection state.
- **Data.** An initializer is a tree of nodes: the kind of the node's
  declaration, the shape of its `value` (string, list or missing),
  whether a string is a null pointer (`check_null`), and its entries with
  their keys. An implementation records the variable (its root value),
  the root sequence, the root type and whether its value is the
  variable's own name.
- **Operations.** `ExtractTypes` sorts the variables, raises ValueError
  for one without a name, records each struct, array or union variable
  under its own name, and makes it an `Entity`. `ImportEntities` is the
  `while` loop: it pops the last entity and branches on `Outcome`.
  `Children` is the two loops that push entries: array entries in the
  given order, fields sorted and unnamed ones skipped.
- **Abstraction.** Declarations (`import_declaration`, `add_parent`,
  `bt.fields[field] = e_bt`) and `check_null` are outside `src/`. They
  become the node kind and the null flag. `sorted` on declaration strings
  is the constant order `StrLess`.

### JobDecision (job.py 50-115, 117-230, 344-430, 442-561)
- **Queue.** `queue` starts with the sorted indexes and one `None` per
  solver.
- **Solvers.** Each solver goes through `Get`, then `FailEarly` or `Launch`,
  then `Collect`, `Update`, `Copy`, `Report` and `SubJobFailed`.
  - `Launch` covers the components, which are outside `src/`. They end
    normally (None put), the uploading of reports fails (the `except`
    branch puts None and re-raises). A component that dies is not
    modelled: `job.py` raises nothing for it, and what the component
    class (outside `src/`) does then is not in the spec either.
  - `Update`/`Copy`/`Report` are the three steps of the `with data_lock:`
    block, with `lock` its holder.
- **Parent.** `ParentFail` (a nonzero exit code: `exit(1)` and terminate the
  live solvers) and `ParentDone`.
- **Results.** Each sub-job has a commit (`Commit`: the hash and whether it
  ends in `~`) and a list of ideal verdicts (`ideals`). `Launch` chooses
  the statuses its VTG puts (`sts`).
  - `Update` merges `MatchResults` into `data`, a function from result
    names to `[iv, st]`. `MatchResults` is
    `__match_verification_statuses_and_ideal_verdicts` as the code runs
    it: `MatchAll` folds `MatchOne` over the statuses.
    - The exact loop (`InLoop(1, ...)`) runs for every status and
      overwrites.
    - The object-only, rule-only and catch-all loops (`MatchFrom(2, ...)`)
      run only for a name not yet in the results.
    - A status nothing matches is the ValueError: the solver goes to
      `failing`.
  - `NameOf` is the name: the prefix, with object and rule when both are
    set. `Statuses` adds the default `unknown` status.
  - `Report` puts the copy together with `ProcessValidation` of it
    (`process_validation_results`, with the pairing `Paired`).
- **Assumptions.**
  - `ideal verdicts` is configured, the only case where `report_results`
    does anything.
  - The job is a validation job, so a sub-job's name prefix is its commit.
    External modules are abstracted away.

### JobSpec (abstract; job.py 69-115, 406-430)
What `Job.decide` promises, with the solvers, queues and lock abstracted
away. Its variables are:
- `data`: the shared results;
- `pending`: the sub-job whose merge is not reported yet;
- `reports`: the data reports put so far;
- `decided`, `stop` and `parent`.

Its actions are:
- `Merge(j)` adds the results of a sub-job not yet merged or decided. It
  keeps every earlier result, and waits while another merge is pending.
- `Publish` reports exactly the current `data`, and may decide the
  pending sub-job.
- `Fail(j)` decides a sub-job, and stops the job unless failures are
  ignored.
- `Abort` ends the job after a stop. It may lose a pending report.
- `Done` ends the job when all sub-jobs are decided and nothing failed.

Its `Spec` has weak fairness on `Publish` and on ending the job.

JobDecision implements it through `Abs == INSTANCE JobSpec WITH ...`:
- the sub-job of the solver holding `data_lock` in its copy or report
  step is `pending` (`Holding`);
- a report is its raw copy;
- `stop` holds once a solver exited with 1;
- a result name belongs to the sub-job of its commit (`OwnerOf`).

`JobRefinesSpec == Abs!Spec` is checked as a property of `job_safety`.

### CategoryImport (interface_categories.py 26-38, 167-212, 379-429, 470-499)
- **Specification.** `NC` categories, imported in sorted order. Each has
  `CbSlot-1` containers or resources and one callback, with one return
  value and one parameter. `Init` chooses every declaration (`s`, `ps`, `t`)
  and every slot type: primitive, `s`, `ps`, `t`, or a reference `%i%` to
  any container of any category.
- **Import.** `ImportCategory(c)` is the first part of
  `__import_category_interfaces`. `FulfilCallback(c)` is
  `_fulfill_function_interfaces` on the category's callback. It covers
  the ValueError on two return-value matches, the KeyError on a reference
  not yet imported, and the first-of-several parameter. `NextPhase` is the
  loop over categories.
- **Resolution.** `Matching`, `Resolve` and `WriteCache` are
  `resolve_interface` and `resolve_interface_weakly`, including the cache
  write that happens even with `use_cache=False`. After import, `Query(d, c)`
  is a later `resolve_interface(d, c)` that uses the cache.

### Scheduler (scheduler/schedulers/__init__.py 67-197, 531-555)
- **Queue.** `mq` is the durable queue the Bridge publishes on.
  `Publish` is the environment. Messages are records: a kind (`job`,
  `task`, or `none` for a body the regular expression does not match), a
  job, a status, and the set of resource-limit collections that are
  incomplete.
- **Callback.** `Callback` is pika delivering the head of the queue. The
  message is acknowledged on delivery (`auto_ack=True`), then the callback
  runs. `Handler` is the branch it takes.
  - `OnStart` is status `1`: `pull_job_conf` may raise. Otherwise the job
    is recorded, the for ... else checks both collections (`Valid` is
    `__add_missing_restrictions`), and the job is prepared and solved.
    `solve_job` may raise, and the exception is caught.
  - Status `6` only changes `last`.
  - Any other status raises, which stops the process (`sch = "stopped"`).
- **Runner.** The runner is outside `src/`. `runs[j]` counts the running
  solutions of job `j`, and `RunnerFinish` ends one.
- **Not included.** The scheduling iteration after `start_consuming` is not
  modelled: `start_consuming` never returns, so that code is never reached.

## 3. Runs

| Run | Checks | Result |
|---|---|---|
| `refine_safety` | `TypeOK`, `MeaningPreserved`, `FixpointComplete` | pass (≈132k states) |
| `refine_terminates` | `Termination` | violation: finding 1 (a resource declared `%1%`, interface 1 a callback) |
| `entry_safety` | `TypeOK`, `InitAfterDependencies`, `SuccessfulUnload`, `SelectionMonotone`, `PeeringEnds`, `RegistrationContract`, `MatchEnds`, `EntitiesImported` | pass (≈220k states, 1.5 min) |
| `entry_failed_init` | `FailedInitUnloadsLoaded` | violation: finding 2 |
| `job_safety` | `TypeOK`, `ReportsOrdered`, `AllSubJobsDecided`, `Termination`, `ResultsFollowIdeal`, `JobRefinesSpec` | pass (≈243k states, 1 min) |
| `import_safety` | `TypeOK` | pass (≈239k states) |
| `import_forward_ref` | `ImportFailsOnlySpecError` | violation: finding 3 |
| `import_cache` | `CacheConsistent` | violation: finding 4 |
| `sched_all` | `TypeOK` | pass (≈11k states) |
| `sched_cancel` | `RecordMatchesRunner` | violation: finding 5 |
| `sched_crash` | `StartEventuallyRecorded` | violation: finding 6 |

`import_safety` and `sched_all` check only the type invariant. They run
every action of CategoryImport and Scheduler, including those that the
violation runs stop before reaching. The interface binding of
`_fulfill_function_interfaces` and the `for ... else` of the scheduler
callback are each a single filter or guard. A property of either would
restate it, so neither has one.

- **`MeaningPreserved`.** Every declaration still denotes the type it was
  imported with, once references are expanded. This covers shared Function
  objects rewritten in place.
- **`FixpointComplete`.** When the loop ends, every declaration whose
  references can all be resolved is clean.
- **`InitAfterDependencies`.** An init is called only after the inits of
  the modules it depends on returned 0.
- **`SuccessfulUnload`.** On the success path every exit is called once,
  dependents before their dependencies.
- **`SelectionMonotone`.** Spec 4.4. Take any label maps
  `__choose_processes` may be given, and one more native interface for any
  template. The choice is then the same, or that template. The choice is
  the result of a non-transitive preference folded in name order, so this
  is checked for all 2,401 pairs of label maps.
- **`PeeringEnds`.** For every input of two chosen templates, the
  recursion of `__establish_signal_peers` ends within `Fuel` levels. Only
  the `peered_processes` test stops a process whose signals nobody matches
  from adding instances of the same templates forever.
- **`RegistrationContract`.** Spec 4.4. After synthesis, no event process
  has a `register` receive without a peer, whether a kernel model or
  EMGentry dispatches it.
- **`MatchEnds`.** For every template of the family and every set of
  called callbacks, the loop of `__match_labels` stops within `Passes`
  passes. It stops only when a pass adds nothing to matched callbacks plus
  matched labels. A container call adds its callback to the list again on
  every call, so the count is stable only because the list is rebuilt
  each pass.
- **`EntitiesImported`.** Spec 4.3, contract (2). `TreeLeaves` and
  `Malformed` are a recursive reference definition of the leaves of an
  initializer tree. Over every family of variables, the worklist loop
  fails exactly when a reachable node is malformed. Otherwise it records
  each container variable and each non-null leaf exactly once, with its
  path as root sequence. The one worklist holds the subtrees of every
  variable at once, so each entry must carry its own root value and a
  copy of its root sequence.
- **`ReportsOrdered`.** The data reports of concurrent solvers reach the
  report queue in snapshot order, and the last one holds all data.
- **`AllSubJobsDecided`.** Every sub-job was decided when the job ends
  normally.
- **`Termination`.** The parent's loop ends.
- **`ResultsFollowIdeal`.** Every result in `data` carries its status and
  the ideal verdict a reference definition picks. The reference applies
  the most specific verdict whose keys all equal the status's (object and
  rule, then object, then rule, then neither), the earliest among equals.
- **`JobRefinesSpec`.** Refinement. Every step of the solvers and the
  parent is a step of JobSpec, or leaves its mapped state unchanged, and
  JobSpec's fairness holds. So each sub-job's results join `data` once,
  and never replace another sub-job's. Each report is `data` as it was
  when the report was put. A sub-job is decided once, and only after its
  report or its failure.

Every property of a passing run has a mutant in `PROJECT.json` that TLC
catches: a dropped `take_pointer`, a dropped `if rv:`, a missing
`clean_flag = True`, inits in file-name order, a forgotten `reversed`, a
missing last-init test, sentinels first, one sentinel short, no lock, a
missing `None` test, the rule-only loop before the object-only one, a sub-job decided although its
components raised, the peered test made against the process's own template,
a dispatcher predicted from an empty function list, a pass that keeps the last pass's matched callbacks, a field without a name pushed onto the worklist, a native-interface gate on the
candidate instead of the best, a category loop that does not stop, and the
Bridge status stored as the job record.

## 4. Findings

1. **`_refine_interfaces` may not terminate** (interface_categories.py:364).
   - A pointer-to-function result only sets `clean_flag`; it is never
     assigned to `interface.declaration`.
   - An interface declared as a reference to a callback (`%cb%`) resolves
     to the callback's clean function pointer. It stays a reference, so
     every pass resolves it again and sets the flag again.
   - Spec §4.2 says passes repeat until one makes no substitution.
2. **The init-failure branch ignores which init failed**
   (intermediate_model.py:148).
   - `j = 1` overwrites the index just computed, so every `<init_failed>`
     branch calls all exits but the first, in load order.
   - Modules never initialised are unloaded, and dependencies are unloaded
     before their dependents. With one exit function, nothing is unloaded.
3. **A cross-category reference raises KeyError**
   (interface_categories.py:180, reached from 395 and 413).
   - A return value or parameter `%c2.x%` of a category-1 callback is not
     yet in `self.interfaces`.
   - The reference branch is skipped, `resolve_interface` raises, and the
     import of a well-formed specification fails.
   - More generally, callbacks are fulfilled right after their own
     category is imported. A slot whose match lives in a later category
     stays unbound, or binds to a different interface than the full graph
     gives (spec §4.3).
4. **The interface cache ignores the category** (interface_categories.py:191).
   - Fulfilment writes `_interface_cache[identifier]` during import, even
     with `use_cache=False`.
   - Those entries are computed before refinement, for category `None` and
     for a partial graph.
   - A later `resolve_interface(d, c)` returns them, not the interfaces of
     `c`. Spec §3, §5 and §8 require caches keyed by category, filled after
     refinement, and consistent.

5. **A cancel message leaves the job running** (__init__.py:186).
   - `job X: 6` only calls `server.cancel_job`.
   - `jbs` keeps the job PENDING, and the runner keeps solving it.
   - `terminate` (line 566) shows how the code cancels elsewhere:
     `runner.cancel_job`, plus deleting the record.
6. **An exception in the callback stops the scheduler and loses the message**
   (__init__.py:197).
   - The callback runs inside `start_consuming`, before the `try` at
     line 199.
   - These exceptions stop the process: a failing `pull_job_conf`, a
     missing `tasks`, or an unknown status.
   - The production restart at line 517 never sees them.
   - The start message was acknowledged on delivery and is gone.

## 5. Bounds and fairness

- **DeclRefinement.**
  - The safety run imports three interfaces with every shape: plain types,
    pointers, references with and without `*`, undefined references, and
    callbacks with one return and one parameter leaf. It covers forward
    references, reference chains, cycles and shared callbacks.
  - The termination run uses two interfaces: a callback and a resource
    declared as a reference to it, the smallest import that shows the
    loop of finding 1.
  - `self.types` starts empty. The registry of signatures outside `src/`
    could hold more identifiers, which only makes the hit at line 332 more
    likely.
- **EntryScenario.**
  - Four modules, with 1 and 3 depending on 2, give several load orders and
    two edges.
  - Every subset of modules may have an init or an exit function.
  - There are two dispatch signals.
  - Two categories, each with or without uncalled callbacks, and two
    templates. Each label map has 0-1 native interfaces, 0-2 matched
    calls, 0-1 unmatched callbacks and 0-1 unmatched labels, and covers
    the callbacks or not, or is None: 49 per template. That is enough for
    every branch of `do`, for ties, and for a first eligible template with
    unmatched labels.
  - SignalPeers: two templates, two kernel functions (one may have a
    model), signals `register` and one other. Every template's dispatches
    and receives, every model's dispatches and every list of found
    functions are enumerated: 204,800 inputs. With two templates that each
    dispatch `register` and receive both signals, the recursion reaches
    depth 3. `Fuel = 4` is the smallest bound that lets every input end,
    so a deeper recursion shows up as a violation.
  - LabelMatch: category 1 has a container `OPS` (fields `probe`,
    `release`), three callbacks taking the resource `DEV`, and an unknown
    interface `UNK`; category 2 a container with one callback. Templates
    have labels `ops`, `cb`, `dev`, each declaring no interface or one
    (native, of category 2, unknown), and any subsequence of four calls:
    2,048 templates, times 8 sets of called callbacks. The longest loop
    takes 3 passes; `Passes = 4`.
  - EntityImport: 2,305 families of one or two variables. Trees are up to
    three levels deep, with structs of up to two of the fields `b`, `a`
    and an unnamed one, arrays of up to two entries of one element kind,
    null and non-null strings, missing values and lists on scalars. Two
    variables interleave on the worklist, and names may be missing.
- **JobDecision.**
  - Two solvers and two sub-jobs, commits `h~` and `h` of one bug fix, so
    both solvers contend for the lock.
  - A VTG puts no status (the default `unknown` applies) or one status of
    object `o1` and rule `r1`.
  - The ideal verdicts of sub-job `h~` are any list of one or two
    distinct entries from an exact, an object-only, a rule-only and a
    catch-all verdict, with alternating verdicts. This covers an
    unmatched status, every precedence between two passes, and a
    catch-all listed before an exact match. Sub-job `h` has any one of the
    four. That is enough for it to be unmatched, safe or unsafe, and it
    keeps the run, with the refinement check, under two minutes.
  - `ignore failed sub-jobs` is chosen in `Init`.
- **CategoryImport.**
  - Two categories, each with one container and one callback. This is the
    smallest setting where a slot can refer forward, two interfaces can
    claim one return value, and a cache entry can cover two categories.
  - Every declaration and slot type is enumerated in `Init` (≈11k
    specifications).
  - Deadlock checking is off because import ends, in `Done` or `Failed`.
- **Scheduler.**
  - Two jobs and three published messages.
    - `sched_all` enumerates every kind of message, so one job can be
      started twice or started and cancelled while the other runs.
    - `sched_cancel` needs only a start and a cancel.
    - `sched_crash` needs a failing start, or an unknown status before a
      start.
  - Weak fairness on `Callback`: pika delivers queued messages while it
    consumes.
  - Deadlock checking is off: the scheduler idles on an empty queue, or
    its process has stopped.
- **Fairness.**
  - Weak fairness for the single-threaded refiner and the entry process:
    they run to completion.
  - Weak fairness per solver process and for the parent's polling loop:
    these are operating-system processes, and the parent polls every
    second.
- **Deadlock checking.**
  - It is off where the program stops (the refiner returns, the entry
    scenario ends in `ldv_stop`, the job ends).
  - In JobDecision every stuck state before the end is caught by
    `Termination`.

## 6. Not modelled yet, and the plan

In order of importance:

1. **Remaining caches.** `resolve_containers` and `implementations` with
   their caches, and kernel-function fulfilment.
2. **Selection failures.** Spec 4.4 makes a category with no matching
   template fatal only without the relaxation flag. The code raises
   IndexError (line 242) whatever the flag is. `SelectProcess` models
   this, but no run checks the claim yet. `SelectProcess` abstracts the
   label maps to counts; LabelMatch computes real ones but is not yet
   connected to the selection.
3. **Name collisions in job results.** Verification sub-jobs share the
   prefix of their external modules. Their default `unknown` results then
   overwrite each other in `data` (job.py:300, 507).
4. **Double dispatchers.** When `__predict_dispatcher` returns False in
   the middle of its loop (line 738), the models it already added keep
   their peer. The receive then also gets EMGentry's default dispatch.
   Spec 4.4 adds the default only when no kernel function qualifies.
   SignalPeers reproduces this, but it needs a run of its own. So does the
   AttributeError of `__import_kernel_models` (line 202) for a kernel
   model with an unknown interface.
5. **Stale matched calls.** The discard after the matching loop (line
   579) removes interfaces from callback labels but keeps the calls
   counted as matched. In LabelMatch, a template calling `ops.probe(dev)`
   and `cb()` with only `probe` uncalled ends with `cb` matched to nothing
   and `cb` among the matched calls. Showing this needs a run of its own.
   A fixpoint property (another pass changes nothing) would need three
   nested passes, which exceed TLC's evaluation stack.
6. **Root types of entities.** `__import_entities` sets a root type only
   on entering an array. A leaf of a struct variable has none, and a leaf
   under an array inside a struct takes that inner array. Spec 4.3
   describes the root as the container literal. `EntityImport` computes
   the root types, but no property checks them. The kernel-function and
   module-function part of `__extract_types` (lines 101-158) only gathers
   sets keyed by name and is not modelled.
7. **Coverage strategy.** Greedy aggregation as a pure operator.
8. **DeclRefinement extensions.** The restore of container field
   declarations (lines 370-377).

The BusyBox fragmentation, the Zephyr C-text generator, the LKVOG registry,
the Bridge URL table and the deployment script are I/O, formatting or
constant data, with nothing for TLC to check.
