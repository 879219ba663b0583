------------------------------- MODULE JobSpec -------------------------------
(***************************************************************************)
(* What Job.decide promises of the parallel decision of its sub-jobs     *)
(* (src/core/core/job.py), with the solvers, the queues and the lock      *)
(* abstracted away.                                                        *)
(*                                                                         *)
(* The results of one sub-job join the shared results all at once, only  *)
(* once, and beside those of the other sub-jobs; every 'data' report is  *)
(* the shared results as they were when it was put, and the next merge   *)
(* waits for it.  A sub-job is decided when its report was put, or when  *)
(* it failed; a failure that is not ignored stops the job, which may      *)
(* lose a report not yet put.  The job ends normally only when every     *)
(* sub-job was decided and nothing failed.                                *)
(***************************************************************************)
EXTENDS Naturals, Sequences

CONSTANTS
  SubJobs,      \* the sub-jobs of the job
  None,         \* no sub-job
  SubJobOf(_)   \* the sub-job a result name belongs to

VARIABLES
  ignore,   \* 'ignore failed sub-jobs'
  data,     \* the shared results: result name -> result
  pending,  \* the sub-job whose merged results are not reported yet
  reports,  \* the 'data' reports put, in order
  decided,  \* the sub-jobs whose decision finished
  stop,     \* a sub-job failure that is not ignored happened
  parent    \* "wait" while the job runs, then "done" or "failed"

vars == <<ignore, data, pending, reports, decided, stop, parent>>

Init ==
  /\ ignore \in BOOLEAN
  /\ data = [n \in {} |-> None]
  /\ pending = None
  /\ reports = <<>>
  /\ decided = {}
  /\ stop = FALSE
  /\ parent = "wait"

Merged(j) == \E n \in DOMAIN data : SubJobOf(n) = j

(* report_results, the update under data_lock: the results of sub-job j  *)
(* are added; no earlier result changes.                                  *)
Merge(j) ==
  /\ parent = "wait" /\ pending = None
  /\ j \in SubJobs \ decided /\ ~Merged(j)
  /\ DOMAIN data \subseteq DOMAIN data'
  /\ \A n \in DOMAIN data : data'[n] = data[n]
  /\ \A n \in DOMAIN data' \ DOMAIN data : SubJobOf(n) = j
  /\ DOMAIN data' # DOMAIN data
  /\ pending' = j
  /\ UNCHANGED <<ignore, reports, decided, stop, parent>>

(* The copy is reported before data_lock is released; the sub-job is    *)
(* decided unless its components raised.                                  *)
Publish ==
  /\ parent = "wait" /\ pending # None
  /\ reports' = Append(reports, data)
  /\ pending' = None
  /\ decided' \in {decided, decided \cup {pending}}
  /\ UNCHANGED <<ignore, data, stop, parent>>

(* decide_sub_job catches the SystemExit of a failed sub-job. *)
Fail(j) ==
  /\ parent = "wait" /\ j \in SubJobs \ decided /\ j # pending
  /\ decided' = decided \cup {j}
  /\ stop' = (stop \/ ~ignore)
  /\ UNCHANGED <<ignore, data, pending, reports, parent>>

(* Job.decide exits and terminates the solvers. *)
Abort ==
  /\ parent = "wait" /\ stop
  /\ parent' = "failed"
  /\ pending' = None
  /\ UNCHANGED <<ignore, data, reports, decided, stop>>

(* Job.decide returns. *)
Done ==
  /\ parent = "wait" /\ ~stop /\ pending = None /\ decided = SubJobs
  /\ parent' = "done"
  /\ UNCHANGED <<ignore, data, pending, reports, decided, stop>>

Next ==
  \/ \E j \in SubJobs : Merge(j) \/ Fail(j)
  \/ Publish
  \/ Abort
  \/ Done

(* A merge is always reported, and the job ends once it may. *)
Spec ==
  Init /\ [][Next]_vars /\ WF_vars(Publish) /\ WF_vars(Abort \/ Done)

=============================================================================
