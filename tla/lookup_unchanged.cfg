SPECIFICATION LookupSpec
CONSTANTS
  Callers = {c1}
  Uris = {u1}
  Tools = {"diagnostics"}
  Advertisements <- Offers
  MaxEdits = 1
  MaxVersion = 3
  MaxAsked = 2
  MaxLosses = 0
  MaxSeq = 3
INVARIANT LookupAnswered
