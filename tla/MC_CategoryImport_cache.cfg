\* Two categories, each with a container or resource and a callback.
CONSTANTS
  NC = 2
  CbSlot = 2
  None = None
SPECIFICATION Spec
INVARIANT CacheConsistent
\* import_specification stops at its first error.
CHECK_DEADLOCK FALSE
