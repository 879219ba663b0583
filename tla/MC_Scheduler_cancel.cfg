\* Starts and cancels, each job started at most once.
CONSTANTS
  j1 = j1
  j2 = j2
  Jobs <- MCJobs
  MaxMsgs = 3
  AllowCancel = TRUE
  AllowUnknown = FALSE
  StartOnce = TRUE
  PullMayFail = FALSE
SPECIFICATION Spec
INVARIANT RecordMatchesRunner
\* The scheduler waits on the queue for ever, or its process has stopped.
CHECK_DEADLOCK FALSE
