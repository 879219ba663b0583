---------------------------- MODULE JobDecision ----------------------------
(***************************************************************************)
(* Parallel decision of sub-jobs (src/core/core/job.py).                  *)
(*                                                                         *)
(* Job.decide fills the queue 'sub-job indexes' with every sub-job index *)
(* followed by one None per solver, starts the solver processes and       *)
(* polls them: a solver that exited with a nonzero code makes the parent *)
(* exit(1) and terminate the others.  Every solver (decide_sub_job) takes *)
(* indexes until it gets None and decides each sub-job: it launches the   *)
(* sub-job's components, collects the verification statuses they put on  *)
(* 'verification statuses' until None, and under data_lock merges its    *)
(* results into the shared dict data, copies it and reports the copy.     *)
(* A failing sub-job exits the solver unless 'ignore failed sub-jobs'.    *)
(*                                                                         *)
(* The components of a sub-job (outside src/) are one step whose outcome *)
(* is chosen: they end normally (VTG put the final None), the uploading   *)
(* of reports fails (RuntimeError: the except branch puts None and the    *)
(* sub-job fails).                                                         *)
(*                                                                         *)
(* Results (the job has 'ideal verdicts'): the statuses a sub-job's VTG   *)
(* puts are matched against the sub-job's ideal verdicts and merged into  *)
(* data under names <commit>/<object>/<rule> (get_sub_jobs gives the name *)
(* prefix); the copy is reported after process_validation_results pairs  *)
(* results before a bug fix (commit "h~") with those after it ("h").      *)
(* A verification object or rule is a model value or the string "o1"/    *)
(* "r1"; Absent stands for a key an ideal verdict does not have.          *)
(***************************************************************************)
EXTENDS Naturals, Sequences, SequencesExt, FiniteSets

CONSTANTS
  SubJobs,          \* sub-job indexes
  Workers,          \* the sub-job solver processes
  None,             \* the queue terminator, and Python's None
  Commit,           \* sub-job -> [hash, tilde]: its Linux kernel commit
  StatusChoices,    \* the lists of verification statuses a VTG may put
  IdealChoices(_),  \* sub-job -> the 'ideal verdicts' lists it may have
  Absent            \* a key missing from an ideal verdict

ASSUME None \notin SubJobs

VARIABLES
  ignore,    \* components_common_conf['ignore failed sub-jobs']
  ideals,    \* each sub-job's components_common_conf['ideal verdicts']
  sts,       \* the verification statuses each sub-job's VTG put
  queue,     \* mqs['sub-job indexes']
  wpc,       \* where each solver is
  cur,       \* the sub-job each solver decides
  raised,    \* launch_sub_job_components re-raises after report_results
  ended,     \* None was put on the sub-job's 'verification statuses'
  data,      \* the Manager dict self.data: result name -> result
  lock,      \* the holder of data_lock, or None
  snap,      \* results = self.data.copy(), per solver
  reports,   \* the 'data' reports in the order they were put: the copy
             \* of data and what process_validation_results made of it
  decided,   \* sub-jobs whose decision finished, successfully or not
  parent     \* the parent's polling loop

vars == <<ignore, ideals, sts, queue, wpc, cur, raised, ended, data, lock, snap,
          reports, decided, parent>>

Alive == {"get", "launch", "collect", "update", "copy", "report", "failing"}

(* get_sub_jobs: the name prefix of a validation sub-job is its commit   *)
(* (external modules are none), so result names are <commit>/<o>/<r>.   *)
NameOf(j, st) ==
  IF st.vo # None /\ st.rs # None
  THEN [p |-> Commit[j], vo |-> st.vo, rs |-> st.rs]
  ELSE [p |-> Commit[j], vo |-> None, rs |-> None]

(* report_results: no status at all (a component failed before VTG got  *)
(* a task) stands for one 'unknown' status of neither object nor rule.  *)
Statuses(j) ==
  IF sts[j] = <<>> THEN <<[vo |-> None, rs |-> None, st |-> "unknown"]>> ELSE sts[j]

(* Mutant: the match by rule specification tried before the one by       *)
(* verification object.                                                   *)
InPass_Swapped(k, st, e) ==
  CASE k = 1 -> e.vo # Absent /\ e.rs # Absent /\ e.vo = st.vo /\ e.rs = st.rs
    [] k = 3 -> e.vo # Absent /\ e.rs = Absent /\ e.vo = st.vo
    [] k = 2 -> e.vo = Absent /\ e.rs # Absent /\ e.rs = st.rs
    [] k = 4 -> e.vo = Absent /\ e.rs = Absent

(* The four loops of __match_verification_statuses_and_ideal_verdicts:   *)
(* by object and rule, by object only, by rule only, by neither.         *)
InPass(k, st, e) ==
  CASE k = 1 -> e.vo # Absent /\ e.rs # Absent /\ e.vo = st.vo /\ e.rs = st.rs
    [] k = 2 -> e.vo # Absent /\ e.rs = Absent /\ e.vo = st.vo
    [] k = 3 -> e.vo = Absent /\ e.rs # Absent /\ e.rs = st.rs
    [] k = 4 -> e.vo = Absent /\ e.rs = Absent

(* One of those loops: the first ideal verdict it breaks on, or None.   *)
InLoop(k, st, ivs) ==
  LET i == SelectInSeq(ivs, LAMBDA e : InPass(k, st, e)) IN IF i > 0 THEN ivs[i] ELSE None

(* The first ideal verdict of the first loop from k on that has one.     *)
RECURSIVE MatchFrom(_, _, _)
MatchFrom(k, st, ivs) ==
  CASE k > 4                     -> None
    [] InLoop(k, st, ivs) # None  -> InLoop(k, st, ivs)
    [] OTHER                      -> MatchFrom(k + 1, st, ivs)

(* A dict with no entries. *)
NoResults == [n \in {} |-> None]

Result(st, e) == [iv |-> e.iv, st |-> st.st]

(* One iteration of the loop over the statuses: the exact loop runs      *)
(* always and overwrites; the other three only for a name not yet in the *)
(* results; None stands for the ValueError.                               *)
MatchOne(j, st, res) ==
  LET n == NameOf(j, st)
      exact == InLoop(1, st, ideals[j])
      other == MatchFrom(2, st, ideals[j])
  IN CASE exact # None        -> (n :> Result(st, exact)) @@ res
       [] n \in DOMAIN res    -> res
       [] other # None        -> (n :> Result(st, other)) @@ res
       [] OTHER               -> None

RECURSIVE MatchAll(_, _, _)
MatchAll(j, S, res) ==
  IF S = <<>> \/ res = None THEN res ELSE MatchAll(j, Tail(S), MatchOne(j, Head(S), res))

(* __match_verification_statuses_and_ideal_verdicts on the statuses of  *)
(* sub-job j, and whether it raised.                                      *)
MatchResults(j) == MatchAll(j, Statuses(j), NoResults)

Unmatched(j) == MatchResults(j) = None

(* bug_id[:12] == bug_fix_id[:12] and the rest of the names equal once   *)
(* the "~" of one of them is skipped.                                     *)
Paired(b, f) == b.p.hash = f.p.hash /\ b.vo = f.vo /\ b.rs = f.rs

(* process_validation_results: every result with ideal verdict unsafe   *)
(* (before the fix) with the first safe one (after the fix) it pairs with. *)
ProcessValidation(res) ==
  LET Bugs  == {n \in DOMAIN res : res[n].iv = "unsafe"}
      Fixes == {n \in DOMAIN res : res[n].iv = "safe"}
  IN [b \in Bugs |->
        [before |-> res[b],
         after  |-> IF \E f \in Fixes : Paired(b, f)
                    THEN res[CHOOSE f \in Fixes : Paired(b, f)] ELSE None]]

-----------------------------------------------------------------------------
(* Mutant: sentinels put before the indexes. *)
Sentinels_First(seq) == [i \in 1..Cardinality(Workers) |-> None] \o seq

(* Mutant: one sentinel fewer than solvers. *)
Sentinels_OneShort(seq) == seq \o [i \in 1..(Cardinality(Workers) - 1) |-> None]

(* The indexes, then one None per solver. *)
Sentinels(seq) == seq \o [i \in 1..Cardinality(Workers) |-> None]

Init ==
  /\ ignore \in BOOLEAN
  /\ ideals \in [SubJobs -> UNION {IdealChoices(j) : j \in SubJobs}]
  /\ \A j \in SubJobs : ideals[j] \in IdealChoices(j)
  /\ sts = [j \in SubJobs |-> <<>>]
  /\ queue = Sentinels(SetToSortSeq(SubJobs, <))
  /\ wpc = [w \in Workers |-> "get"]
  /\ cur = [w \in Workers |-> None]
  /\ raised = [w \in Workers |-> FALSE]
  /\ ended = [j \in SubJobs |-> FALSE]
  /\ data = NoResults
  /\ lock = None
  /\ snap = [w \in Workers |-> NoResults]
  /\ reports = <<>>
  /\ decided = {}
  /\ parent = "wait"

(* Mutant: the `if sub_job_index is None` test dropped. *)
Get_NoSentinelCheck(w) ==
  /\ wpc[w] = "get" /\ queue # <<>>
  /\ queue' = Tail(queue)
  /\ wpc' = [wpc EXCEPT ![w] = "launch"] /\ cur' = [cur EXCEPT ![w] = Head(queue)]
  /\ UNCHANGED <<ignore, ideals, sts, raised, ended, data, lock, snap, reports, decided, parent>>

(* sub_job_index = mqs['sub-job indexes'].get(); None ends the solver.   *)
Get(w) ==
  /\ wpc[w] = "get" /\ queue # <<>>
  /\ queue' = Tail(queue)
  /\ IF Head(queue) = None
     THEN wpc' = [wpc EXCEPT ![w] = "done"] /\ UNCHANGED cur
     ELSE wpc' = [wpc EXCEPT ![w] = "launch"] /\ cur' = [cur EXCEPT ![w] = Head(queue)]
  /\ UNCHANGED <<ignore, ideals, sts, raised, ended, data, lock, snap, reports, decided, parent>>

(* __decide_sub_job raises before launch_sub_job_components (start       *)
(* report, callbacks, get_sub_job_components): sys.exit(1), no results.   *)
FailEarly(w) ==
  /\ wpc[w] = "launch"
  /\ wpc' = [wpc EXCEPT ![w] = "failing"]
  /\ UNCHANGED <<ignore, ideals, sts, queue, cur, raised, ended, data, lock, snap, reports, decided, parent>>

(* launch_sub_job_components: the components run until none is alive;   *)
(* an uploading failure raises, the except branch puts None; then the     *)
(* finally branch calls report_results.  VTG's callbacks put the         *)
(* sub-job's verification statuses.                                       *)
Launch(w) ==
  /\ wpc[w] = "launch"
  /\ ended' = [ended EXCEPT ![cur[w]] = TRUE]
  /\ \E failed \in BOOLEAN : raised' = [raised EXCEPT ![w] = failed]
  /\ \E l \in StatusChoices : sts' = [sts EXCEPT ![cur[w]] = l]
  /\ wpc' = [wpc EXCEPT ![w] = "collect"]
  /\ UNCHANGED <<ignore, ideals, queue, cur, data, lock, snap, reports, decided, parent>>

(* report_results: get() verification statuses until None. *)
Collect(w) ==
  /\ wpc[w] = "collect" /\ ended[cur[w]]
  /\ wpc' = [wpc EXCEPT ![w] = "update"]
  /\ UNCHANGED <<ignore, ideals, sts, queue, cur, raised, ended, data, lock, snap, reports, decided, parent>>

(* Mutant: data updated without taking data_lock. *)
Update_NoLock(w) ==
  /\ wpc[w] = "update"
  /\ IF Unmatched(cur[w])
     THEN wpc' = [wpc EXCEPT ![w] = "failing"] /\ UNCHANGED data
     ELSE /\ data' = MatchResults(cur[w]) @@ data
          /\ wpc' = [wpc EXCEPT ![w] = "copy"]
  /\ UNCHANGED <<ignore, ideals, sts, queue, cur, raised, ended, lock, snap, reports, decided, parent>>

(* with self.data_lock: self.data.update(self.__match_...(...)); the     *)
(* ValueError of a status no ideal verdict matches leaves the with (the  *)
(* lock is released) and report_results: the sub-job fails.              *)
Update(w) ==
  /\ wpc[w] = "update" /\ lock = None
  /\ IF Unmatched(cur[w])
     THEN wpc' = [wpc EXCEPT ![w] = "failing"] /\ UNCHANGED <<data, lock>>
     ELSE /\ lock' = w
          /\ data' = MatchResults(cur[w]) @@ data
          /\ wpc' = [wpc EXCEPT ![w] = "copy"]
  /\ UNCHANGED <<ignore, ideals, sts, queue, cur, raised, ended, snap, reports, decided, parent>>

(* results = self.data.copy() *)
Copy(w) ==
  /\ wpc[w] = "copy"
  /\ snap' = [snap EXCEPT ![w] = data]
  /\ wpc' = [wpc EXCEPT ![w] = "report"]
  /\ UNCHANGED <<ignore, ideals, sts, queue, cur, raised, ended, data, lock, reports, decided, parent>>

(* Mutant: the sub-job counted as decided even when its components      *)
(* raised, as if decided in the finally branch.                           *)
Report_DecidedOnRaise(w) ==
  /\ wpc[w] = "report"
  /\ reports' = Append(reports, [raw |-> snap[w], out |-> ProcessValidation(snap[w])])
  /\ lock' = IF lock = w THEN None ELSE lock
  /\ decided' = decided \cup {cur[w]}
  /\ wpc' = [wpc EXCEPT ![w] = IF raised[w] THEN "failing" ELSE "get"]
  /\ UNCHANGED <<ignore, ideals, sts, queue, cur, raised, ended, data, snap, parent>>

(* process_validation_results(results) and core.utils.report(..., 'data', *)
(* ...); leaving the with releases data_lock; an exception raised before *)
(* report_results then makes the sub-job fail.                            *)
Report(w) ==
  /\ wpc[w] = "report"
  /\ reports' = Append(reports, [raw |-> snap[w], out |-> ProcessValidation(snap[w])])
  /\ lock' = IF lock = w THEN None ELSE lock
  /\ IF raised[w]
     THEN wpc' = [wpc EXCEPT ![w] = "failing"] /\ UNCHANGED decided
     ELSE wpc' = [wpc EXCEPT ![w] = "get"] /\ decided' = decided \cup {cur[w]}
  /\ UNCHANGED <<ignore, ideals, sts, queue, cur, raised, ended, data, snap, parent>>

(* except SystemExit: sys.exit(1) unless 'ignore failed sub-jobs'. *)
SubJobFailed(w) ==
  /\ wpc[w] = "failing"
  /\ decided' = decided \cup {cur[w]}
  /\ wpc' = [wpc EXCEPT ![w] = IF ignore THEN "get" ELSE "failed"]
  /\ UNCHANGED <<ignore, ideals, sts, queue, cur, raised, ended, data, lock, snap, reports, parent>>

(* The polling loop sees a nonzero exit code: exit(1), and the finally  *)
(* branch terminates every solver still alive.                            *)
ParentFail ==
  /\ parent = "wait"
  /\ \E w \in Workers : wpc[w] = "failed"
  /\ parent' = "failed"
  /\ wpc' = [w \in Workers |-> IF wpc[w] \in Alive THEN "killed" ELSE wpc[w]]
  /\ UNCHANGED <<ignore, ideals, sts, queue, cur, raised, ended, data, lock, snap, reports, decided>>

(* No solver is alive and none failed: the loop breaks. *)
ParentDone ==
  /\ parent = "wait"
  /\ \A w \in Workers : wpc[w] = "done"
  /\ parent' = "done"
  /\ UNCHANGED <<ignore, ideals, sts, queue, wpc, cur, raised, ended, data, lock, snap, reports, decided>>

Solver(w) ==
  Get(w) \/ FailEarly(w) \/ Launch(w) \/ Collect(w) \/ Update(w) \/ Copy(w)
    \/ Report(w) \/ SubJobFailed(w)

Next ==
  \/ \E w \in Workers : Solver(w)
  \/ ParentFail
  \/ ParentDone

(* Solvers are operating-system processes and the parent polls them     *)
(* every second: each makes progress when it can.                         *)
Spec ==
  Init /\ [][Next]_vars
       /\ \A w \in Workers : WF_vars(Solver(w))
       /\ WF_vars(ParentFail \/ ParentDone)

-----------------------------------------------------------------------------
(* Every variable has its type, and a solver busy with a sub-job holds a  *)
(* sub-job index, never the None that should have stopped it.            *)
TypeOK ==
  /\ ignore \in BOOLEAN
  /\ queue \in Seq(SubJobs \cup {None})
  /\ wpc \in [Workers -> Alive \cup {"done", "failed", "killed"}]
  /\ cur \in [Workers -> SubJobs \cup {None}]
  /\ \A w \in Workers : wpc[w] \in Alive \ {"get"} => cur[w] \in SubJobs
  /\ raised \in [Workers -> BOOLEAN]
  /\ ended \in [SubJobs -> BOOLEAN]
  /\ decided \subseteq SubJobs
  /\ lock \in Workers \cup {None}
  /\ \A d \in {data} \cup Range(snap) \cup {r.raw : r \in Range(reports)} :
       \A n \in DOMAIN d : n.p \in Range(Commit) /\ d[n].iv \in {"safe", "unsafe"}
  /\ parent \in {"wait", "done", "failed"}

(* Dict f is contained in dict g. *)
Included(f, g) == DOMAIN f \subseteq DOMAIN g /\ \A n \in DOMAIN f : f[n] = g[n]

(* The 'data' reports of concurrent solvers reach the report queue in the *)
(* order of their copies: each report contains every earlier one, and    *)
(* when the job ends normally the last report holds all results in data. *)
ReportsOrdered ==
  /\ \A i, j \in DOMAIN reports : i < j => Included(reports[i].raw, reports[j].raw)
  /\ parent = "done" /\ reports # <<>> => Last(reports).raw = data

(* Reference for the matching: an ideal verdict applies to a status when *)
(* every key it has equals the status's; the most specific one applies   *)
(* (object and rule, then object, then rule, then neither), the earliest *)
(* in the list among equally specific ones.                              *)
Applies(e, st) == (e.vo = Absent \/ e.vo = st.vo) /\ (e.rs = Absent \/ e.rs = st.rs)
Rank(e) == (IF e.vo = Absent THEN 2 ELSE 0) + (IF e.rs = Absent THEN 1 ELSE 0)
BestIdeal(st, ivs) ==
  LET A == {i \in DOMAIN ivs : Applies(ivs[i], st)}
      Better(i, k) == Rank(ivs[i]) < Rank(ivs[k]) \/ (Rank(ivs[i]) = Rank(ivs[k]) /\ i <= k)
  IN IF A = {} THEN None ELSE ivs[CHOOSE i \in A : \A k \in A : Better(i, k)]

(* Every result report_results merged into data carries the verification *)
(* status of its sub-job and the ideal verdict the reference picks.      *)
ResultsFollowIdeal ==
  \A n \in DOMAIN data :
    LET j  == CHOOSE j \in SubJobs : Commit[j] = n.p
        S  == Statuses(j)
        st == S[SelectInSeq(S, LAMBDA s : NameOf(j, s) = n)]
    IN data[n] = [iv |-> BestIdeal(st, ideals[j]).iv, st |-> st.st]

(* When the parent's loop ends normally every sub-job index was taken by *)
(* a solver and its decision finished.                                    *)
AllSubJobsDecided ==
  parent = "done" => decided = SubJobs

(* The parent's polling loop ends: every solver reaches None or fails.   *)
Termination == <>(parent # "wait")

-----------------------------------------------------------------------------
(* The refinement mapping onto the promise of JobSpec: the sub-job whose  *)
(* solver holds data_lock between the update and the report is the one   *)
(* whose results are merged but not reported; a solver killed while      *)
(* holding it loses its report; a result name belongs to the sub-job of  *)
(* its commit; the job stops once a solver exited with 1.                *)
Holding == IF lock # None /\ wpc[lock] \in {"copy", "report"} THEN cur[lock] ELSE None
OwnerOf(n) == CHOOSE j \in SubJobs : Commit[j] = n.p

Abs == INSTANCE JobSpec
         WITH pending <- Holding,
              reports <- [i \in DOMAIN reports |-> reports[i].raw],
              stop    <- parent = "failed" \/ \E w \in Workers : wpc[w] = "failed",
              SubJobOf <- OwnerOf

(* The solvers, the queues and data_lock implement JobSpec: each sub-job's *)
(* results join data once, beside the others, and are reported before the *)
(* next merge; a sub-job is decided once, after its report or failure,   *)
(* and the job ends, normally only when all are decided.                 *)
JobRefinesSpec == Abs!Spec

=============================================================================
