SPECIFICATION Spec
CONSTANTS
  Err = Err
  Panic = Panic
CHECK_DEADLOCK FALSE
INVARIANTS
  StepwiseIsReplaceAny
