SPECIFICATION StoreFairSpec
CONSTANTS
  Waiters = {w1, w2}
  Uris = {u1}
  Contents = {d1, d2}
  MaxSeq = 2
INVARIANT StoreTypeOK
INVARIANT NoLostWakeup
PROPERTY ImplementsCache
PROPERTY PublishedReturns
PROPERTY CanceledReturns
