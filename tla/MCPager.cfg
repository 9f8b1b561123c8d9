SPECIFICATION Spec
CONSTANTS
  Texts <- MCTexts
  Heights = {0, 1, 2, 5}
  PageSize = 2
  Letters <- MCLetters
  Contains <- MCContains
  MaxToken = 2
CHECK_DEADLOCK FALSE
INVARIANTS
  TypeOK
  NeverPanics
  ViewIsFull
PROPERTIES
  IsWindow
  FindsNext
  FoundIsShown
  SearchEnds
