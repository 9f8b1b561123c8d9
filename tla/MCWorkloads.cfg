SPECIFICATION Spec
CONSTANTS
  Nil = Nil
  EmptyValue = ""
  Joined <- MCJoined
  Key <- MCKey
  Value <- MCValue
  FirstDocs <- MCFirstDocs
CHECK_DEADLOCK FALSE
INVARIANTS KeepsMeaning Settles FailsAtOnce
