CONSTANTS
  Modules <- MCModules
  Deps <- MCDeps
  Signals <- MCSignals
  Categories <- MCCategories
  Templates <- MCTemplates
  None = None
  Functions <- MCFunctions
  Modelled <- MCModelled
  Sig <- MCSig
  Fuel = 4
SPECIFICATION Spec
INVARIANT FailedInitUnloadsLoaded
\* EMGentry ends with <stop>: ldv_stop() ends the scenario.
CHECK_DEADLOCK FALSE
