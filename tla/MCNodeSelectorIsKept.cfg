SPECIFICATION Spec
CONSTANTS
  Nil = Nil
  EmptyValue = 0
  Joined <- MCJoined
  Key <- MCKey
  Value <- MCValue
  FirstDocs <- MCFirstDocs
CHECK_DEADLOCK FALSE
INVARIANT NodeSelectorIsKept
