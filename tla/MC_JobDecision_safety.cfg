CONSTANTS
  SubJobs <- MCSubJobs
  Commit <- MCCommit
  StatusChoices <- MCStatusChoices
  IdealChoices <- MCIdealChoices
  Absent = Absent
  w1 = w1
  w2 = w2
  Workers <- MCWorkers
  None = None
SPECIFICATION Spec
INVARIANTS
  TypeOK
  ResultsFollowIdeal
  ReportsOrdered
  AllSubJobsDecided
PROPERTIES
  Termination
  JobRefinesSpec
\* The job ends; a solver or the parent stuck before the end is caught by
\* Termination.
CHECK_DEADLOCK FALSE
