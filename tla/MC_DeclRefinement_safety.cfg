\* All imports of three interfaces; the refiner stops when the loop ends.
CONSTANTS
  NI = 3
  Shapes <- MCShapesAll
SPECIFICATION Spec
INVARIANT TypeOK
INVARIANT MeaningPreserved
INVARIANT FixpointComplete
\* _refine_interfaces returns after the last pass: the final state has no successor.
CHECK_DEADLOCK FALSE
