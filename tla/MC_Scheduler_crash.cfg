\* Failing pulls and unknown job statuses.
CONSTANTS
  j1 = j1
  j2 = j2
  Jobs <- MCJobs
  MaxMsgs = 3
  AllowCancel = FALSE
  AllowUnknown = TRUE
  StartOnce = TRUE
  PullMayFail = TRUE
SPECIFICATION Spec
PROPERTY StartEventuallyRecorded
\* The scheduler waits on the queue for ever, or its process has stopped.
CHECK_DEADLOCK FALSE
