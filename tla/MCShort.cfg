SPECIFICATION Spec
CONSTANTS
  Commands <- MCCommands
  Disks <- MCDisks
  ToLower <- MCToLower
  Stdin = "stdin"
  Unreadable = Unreadable
  Parses <- MCParses
  Extraneous <- MCExtraneous
  Converts <- MCConverts
  Marshals <- MCMarshals
CHECK_DEADLOCK FALSE
INVARIANTS
  TypeOK
  AllOrNothing
  FailsWithCause
PROPERTY
  Termination
