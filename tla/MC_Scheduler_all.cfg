\* Every kind of message the Bridge may publish, repeated starts, failing pulls.
CONSTANTS
  j1 = j1
  j2 = j2
  Jobs <- MCJobs
  MaxMsgs = 3
  AllowCancel = TRUE
  AllowUnknown = TRUE
  StartOnce = FALSE
  PullMayFail = TRUE
SPECIFICATION Spec
INVARIANT TypeOK
\* The scheduler waits on the queue for ever, or its process has stopped.
CHECK_DEADLOCK FALSE
