SPECIFICATION ApplySpec
CONSTANTS
  Appliers = {a1, a2}
  p = p
  q = q
  t1 = t1
  t2 = t2
  t3 = t3
  v1 = v1
  v2 = v2
  Paths <- MCPaths
  Tags <- MCTags
  Elsewhere = Elsewhere
  Versions <- MCVersions
  NoVersion = NoVersion
  Unchecked = Unchecked
  NoOptions = NoOptions
  Nothing = Nothing
  Directory = Directory
  Remnant = Remnant
  Payloads <- MCPayloads
  Foreign = Foreign
  UriOrder <- MCUriOrder
SYMMETRY Interchangeable
INVARIANT ApplyTypeOK
INVARIANT EditsWhole
PROPERTY AppliedAsAsked
PROPERTY FailedAtPrefix
CHECK_DEADLOCK FALSE
