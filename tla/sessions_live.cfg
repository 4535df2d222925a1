SPECIFICATION FairSpec
CONSTANTS
  Callers = {c1, c2}
  Closers = {k1}
  Sessions = {s1}
  Names = {"py", "python"}
  Languages <- MCLanguages
  Canonical <- MCCanonical
  Configured = {"python"}
  NoSession = NoSession
  NoLanguage = NoLanguage
  Habits = {"normal", "mute", "helper"}
PROPERTY CallReturns
PROPERTY CloseReturns
