\* A resource declared as a reference to a clean callback.
CONSTANTS
  NI = 2
  Shapes <- MCShapesRefToCallback
SPECIFICATION Spec
PROPERTY Termination
CHECK_DEADLOCK FALSE
