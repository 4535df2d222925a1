SPECIFICATION SyncSpec
CONSTANTS
  Callers = {c1, c2}
  Uris = {u1}
  Tools = {"codeAction", "workspaceSymbol"}
  Advertisements <- Offers
  MaxEdits = 1
  MaxVersion = 3
  MaxAsked = 1
  MaxLosses = 1
SYMMETRY Interchangeable
INVARIANT SyncTypeOK
INVARIANT ServerFollows
INVARIANT AnswerSinceSync
INVARIANT WireLegal
