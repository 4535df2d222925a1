SPECIFICATION Spec
CONSTANTS
  Callers = {c1, c2}
  Closers = {k1, k2}
  Sessions = {s1, s2}
  Names = {"py", "python", "go"}
  Languages <- MCLanguages
  Canonical <- MCCanonical
  Configured = {"python", "go"}
  NoSession = NoSession
  NoLanguage = NoLanguage
  Habits = {"normal"}
SYMMETRY Interchangeable
INVARIANT TypeOK
INVARIANT OneInService
INVARIANT FailedStartReaped
INVARIANT StoreFollowsLanguage
INVARIANT CloseLeavesNothing
INVARIANT OwnedUnlessLost
INVARIANT StartAttended
PROPERTY SpawnOnce
PROPERTY ServiceSpec
