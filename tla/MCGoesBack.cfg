SPECIFICATION Spec
CONSTANTS
  FirstDocs <- MCFirstDocs
  IsRegistered <- MCIsRegistered
CHECK_DEADLOCK FALSE
INVARIANTS
  GoesBack
