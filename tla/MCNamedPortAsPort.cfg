SPECIFICATION Spec
CONSTANTS
  Nil = Nil
  Empty = ""
  Zero = "0"
  Addr6 = "::"
  Number <- MCNumber
  Addr <- MCAddr
  FirstDocs <- MCFirstDocs
CHECK_DEADLOCK FALSE
INVARIANTS NamedPortAsPort
