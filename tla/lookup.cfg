SPECIFICATION LookupSpec
CONSTANTS
  Callers = {c1, c2}
  Uris = {u1}
  Tools = {"diagnostics"}
  Advertisements <- Offers
  MaxEdits = 1
  MaxVersion = 2
  MaxAsked = 1
  MaxLosses = 1
  MaxSeq = 2
SYMMETRY Interchangeable
INVARIANT LookupTypeOK
INVARIANT FreshIfCalm
INVARIANT ChangeAnswered
