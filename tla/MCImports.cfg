SPECIFICATION Spec
CONSTANTS
  NotFound = NotFound
  OutOfRange = OutOfRange
  NoDefault = NoDefault
  Unreadable = Unreadable
  NoName = ""
  MaxDepth = 8
  Path <- MCPath
  ImportPath <- MCImportPath
  Name <- MCName
  FileSystems <- MCFileSystems
  Filenames <- MCFilenames
  ResolveImportPath <- ResolveImportLocalPath
  RawToTyped <- MCRawToTyped
  HolesOf <- MCHoles
  FillWith <- MCFill
  FitsHole <- MCFits
  AtPath <- MCAtPathIn
CHECK_DEADLOCK FALSE
INVARIANTS
  TypeOK
  OwnedOnce
  Isolated
  OverflowOnlyOnCycle
  MatchesReference
  FailsOnlyWithCause
PROPERTIES
  EvaluatedIsFinal
  LoadsInOrder
  Termination
