----------------------------- MODULE Scheduler -----------------------------
(***************************************************************************)
(* The message loop of the verification scheduler                        *)
(* (Scheduler.launch in src/scheduler/schedulers/__init__.py).             *)
(*                                                                         *)
(* launch() registers `callback` on the durable jobs-and-tasks queue with *)
(* auto_ack=True and calls start_consuming(), which blocks: every message *)
(* is acknowledged when it is delivered, before the callback runs.  The   *)
(* callback parses "<kind> <identifier>: <status>"; "job X: 1" pulls the  *)
(* job configuration, records the job PENDING in jbs, checks its two      *)
(* resource-limit collections (a for ... else: an incomplete one records  *)
(* the job ERROR and breaks) and otherwise prepares and solves the job;  *)
(* "job X: 6" calls server.cancel_job(X); any other job status raises     *)
(* NotImplementedError.  An exception of the callback leaves              *)
(* start_consuming, outside the try of the loop body: the scheduler       *)
(* process stops.                                                          *)
(*                                                                         *)
(* The Bridge publishes messages; the runner (outside src/) solves jobs:  *)
(* runs[j] counts the solutions of job j it is running.  solve_job may    *)
(* raise (caught: 'Job terminated') without starting a solution.          *)
(***************************************************************************)
EXTENDS Naturals, Sequences

CONSTANTS
  Jobs,          \* job identifiers
  MaxMsgs,       \* messages the Bridge publishes in a behaviour
  AllowCancel,   \* the Bridge may publish "job X: 6"
  AllowUnknown,  \* the Bridge may publish a job status other than 1 and 6
  StartOnce,     \* the Bridge publishes at most one "job X: 1" per job
  PullMayFail    \* pull_job_conf or job_conf['tasks'] may raise

ASSUME MaxMsgs \in Nat
ASSUME {AllowCancel, AllowUnknown, StartOnce, PullMayFail} \subseteq BOOLEAN

(* The two collections __add_missing_restrictions checks: 'resource      *)
(* limits' and 'task resource limits'.  A message carries the set of      *)
(* those that are empty or cannot be converted.                           *)
Limits == {"rl", "trl"}

(* kind "none" is a body the regular expression does not match. *)
Msg(kinds, statuses, bads) == [kind : kinds, job : Jobs, status : statuses, bad : bads]
StartMsgs  == Msg({"job"}, {"1"}, SUBSET Limits)
OtherMsgs  == Msg({"task", "none"}, {"1"}, {{}})
CancelMsgs == Msg({"job"}, {"6"}, {{}})
UnknownMsgs == Msg({"job"}, {"5"}, {{}})
Published ==
  StartMsgs \cup OtherMsgs \cup (IF AllowCancel THEN CancelMsgs ELSE {})
    \cup (IF AllowUnknown THEN UnknownMsgs ELSE {})

VARIABLES
  mq,        \* the queue 'Klever jobs and tasks queue'
  sent,      \* messages published so far
  pubStart,  \* jobs a "job X: 1" was published for
  jbs,       \* self.__jobs: "absent", "PENDING" or "ERROR" per job
  conf,      \* the incomplete collections of the recorded configuration
  runs,      \* solutions of each job the runner is running
  last,      \* status of the last message about each job the callback got
  sch        \* "consuming", or "stopped" after an exception

vars == <<mq, sent, pubStart, jbs, conf, runs, last, sch>>

-----------------------------------------------------------------------------
(* Which branch of the callback a parsed message takes. *)
Handler(m) ==
  CASE m.kind # "job"   -> "ignore"
    [] m.status = "1"   -> "start"
    [] m.status = "6"   -> "cancel"
    [] OTHER            -> "unknown"

(* The for ... else over both collections completes without break. *)
Valid(m) == m.bad = {}

(* Mutant: the job record is the Bridge status of the message. *)
OnStart_StatusAsRecord(m) ==
  /\ jbs' = [jbs EXCEPT ![m.job] = m.status]
  /\ conf' = [conf EXCEPT ![m.job] = m.bad]
  /\ runs' \in {runs, [runs EXCEPT ![m.job] = @ + 1]}
  /\ UNCHANGED sch

(* status '1': pull the configuration (may raise), record the job, check *)
(* the restrictions, then prepare_job and solve_job (may raise, caught).  *)
OnStart(m) ==
  \/ PullMayFail /\ sch' = "stopped" /\ UNCHANGED <<jbs, conf, runs>>
  \/ /\ jbs' = [jbs EXCEPT ![m.job] = IF Valid(m) THEN "PENDING" ELSE "ERROR"]
     /\ conf' = [conf EXCEPT ![m.job] = m.bad]
     /\ runs' \in IF Valid(m) THEN {runs, [runs EXCEPT ![m.job] = @ + 1]} ELSE {runs}
     /\ UNCHANGED sch

Init ==
  /\ mq = <<>>
  /\ sent = 0
  /\ pubStart = {}
  /\ jbs = [j \in Jobs |-> "absent"]
  /\ conf = [j \in Jobs |-> {}]
  /\ runs = [j \in Jobs |-> 0]
  /\ last = [j \in Jobs |-> "none"]
  /\ sch = "consuming"

(* The Bridge publishes a message on the durable queue. *)
Publish(m) ==
  /\ sent < MaxMsgs
  /\ StartOnce /\ m \in StartMsgs => m.job \notin pubStart
  /\ mq' = Append(mq, m)
  /\ sent' = sent + 1
  /\ pubStart' = IF m \in StartMsgs THEN pubStart \cup {m.job} ELSE pubStart
  /\ UNCHANGED <<jbs, conf, runs, last, sch>>

(* pika delivers the head of the queue, acknowledged on delivery, and     *)
(* runs the callback on it.                                               *)
Callback ==
  LET m == Head(mq) IN
  /\ sch = "consuming" /\ mq # <<>>
  /\ mq' = Tail(mq)
  /\ \/ Handler(m) = "ignore" /\ UNCHANGED <<jbs, conf, runs, last, sch>>
     \/ Handler(m) = "start" /\ last' = [last EXCEPT ![m.job] = "1"] /\ OnStart(m)
     \/ Handler(m) = "cancel" /\ last' = [last EXCEPT ![m.job] = "6"]
          /\ UNCHANGED <<jbs, conf, runs, sch>>
     \/ Handler(m) = "unknown" /\ sch' = "stopped" /\ UNCHANGED <<jbs, conf, runs, last>>
  /\ UNCHANGED <<sent, pubStart>>

(* A solution of job j the runner is running ends. *)
RunnerFinish(j) ==
  /\ runs[j] > 0
  /\ runs' = [runs EXCEPT ![j] = @ - 1]
  /\ UNCHANGED <<mq, sent, pubStart, jbs, conf, last, sch>>

Next ==
  \/ \E m \in Published : Publish(m)
  \/ Callback
  \/ \E j \in Jobs : RunnerFinish(j)

(* While consuming, pika keeps delivering queued messages. *)
Spec == Init /\ [][Next]_vars /\ WF_vars(Callback)

-----------------------------------------------------------------------------
(* The scheduler's records and the runner's solutions have their types. *)
TypeOK ==
  /\ mq \in Seq(Published) /\ sent \in 0..MaxMsgs /\ pubStart \subseteq Jobs
  /\ jbs \in [Jobs -> {"absent", "PENDING", "ERROR"}]
  /\ conf \in [Jobs -> SUBSET Limits]
  /\ runs \in [Jobs -> Nat]
  /\ last \in [Jobs -> {"none", "1", "6"}]
  /\ sch \in {"consuming", "stopped"}

(* The runner runs a job only while the scheduler's record agrees: one   *)
(* solution, of a job recorded PENDING with complete restrictions, whose *)
(* last message was a start.                                              *)
RecordMatchesRunner ==
  \A j \in Jobs :
    runs[j] > 0 => /\ runs[j] = 1 /\ jbs[j] = "PENDING" /\ conf[j] = {}
                   /\ last[j] = "1"

(* Every job the Bridge asks to start is eventually recorded by the      *)
(* scheduler, PENDING or ERROR.                                           *)
StartEventuallyRecorded ==
  \A j \in Jobs : (j \in pubStart) ~> (jbs[j] # "absent")

=============================================================================
