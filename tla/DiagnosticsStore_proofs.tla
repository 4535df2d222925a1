----------------------- MODULE DiagnosticsStore_proofs -----------------------
(***************************************************************************)
(* The condition variable of DiagnosticsStore loses no wakeup, and the     *)
(* store implements DiagnosticsCache, for any number of waiters, documents *)
(* and publishes.                                                          *)
(***************************************************************************)
EXTENDS DiagnosticsStore, TLAPS

\* The broadcast of a context is pending until the context is done and it ran.
ContextWatched ==
  \A w \in Waiters : wpc[w] \in {"check", "parked"} /\ ~canceled[w] => afterFunc[w]

WInv == StoreTypeOK /\ ContextWatched /\ NoLostWakeup

USE DEF docVars, waiterVars, deathVars, storeVars

\* After a broadcast nobody is parked, so nothing can be lost.
LEMMA BroadcastKeeps ==
  ASSUME StoreTypeOK, ContextWatched, Broadcast,
         \A w \in Waiters : afterFunc'[w] = afterFunc[w] \/ canceled'[w],
         canceled' = canceled
  PROVE  ContextWatched' /\ NoLostWakeup'
BY DEF StoreTypeOK, ContextWatched, NoLostWakeup, Broadcast

LEMMA BroadcastType ==
  ASSUME StoreTypeOK, Broadcast
  PROVE  wpc' \in [Waiters -> {"idle", "based", "check", "parked"}]
BY DEF StoreTypeOK, Broadcast

LEMMA StoreTypeStep == StoreTypeOK /\ [StoreNext]_storeVars => StoreTypeOK'
<1> SUFFICES ASSUME StoreTypeOK, [StoreNext]_storeVars PROVE StoreTypeOK'
  OBVIOUS
<1> USE MaxSeqAssumption DEF StoreTypeOK
<1>1. ASSUME NEW u \in Uris, Settle(u) PROVE StoreTypeOK'
  BY <1>1 DEF Settle
<1>2. ASSUME NEW u \in Uris, NEW d \in Contents, Publish(u, d) PROVE StoreTypeOK'
  <2>1. seq' \in [Uris -> 0..MaxSeq]
    BY <1>2 DEF Publish
  <2> QED BY <1>2, <2>1 DEF Publish, Broadcast
<1>3. ASSUME NEW w \in Waiters, NEW u \in Uris, TakeBaseline(w, u) PROVE StoreTypeOK'
  <2>1. NoResult \in Results
    BY DEF Results
  <2> QED BY <1>3, <2>1 DEF TakeBaseline
<1>4. ASSUME NEW w \in Waiters, WaitStep(w) PROVE StoreTypeOK'
  <2>1. CASE BeginWait(w) BY <2>1 DEF BeginWait
  <2>2. CASE CheckCanceled(w)
    <3>1. Error \in Results
      BY DEF Results
    <3> QED BY <2>2, <3>1 DEF CheckCanceled, Return
  <2>3. CASE CheckSettled(w)
    <3> DEFINE r == Diags(seq[wuri[w]], diags[wuri[w]])
    <3>1. r \in Results
      <4>1. seq[wuri[w]] \in 1..MaxSeq
        BY <2>3 DEF CheckSettled, Newer
      <4>2. r \in {Diags(n, d) : n \in 1..MaxSeq, d \in Contents}
        BY <4>1
      <4> QED BY <4>2 DEF Results
    <3>2. Return(w, r) /\ UNCHANGED <<docVars, deathVars>>
      BY <2>3 DEF CheckSettled
    <3> HIDE DEF r
    <3> QED BY <3>1, <3>2 DEF Return
  <2>4. CASE CheckUnsettled(w) BY <2>4 DEF CheckUnsettled
  <2>5. CASE CheckNothing(w) BY <2>5 DEF CheckNothing
  <2>6. CASE Snapshot(w)
    <3> DEFINE r == Cached(seq[wuri[w]], diags[wuri[w]])
    <3>1. r \in Results
      <4>1. r \in {Cached(n, d) : n \in 0..MaxSeq, d \in Contents}
        OBVIOUS
      <4> QED BY <4>1 DEF Results
    <3>2. result' = [result EXCEPT ![w] = r]
      BY <2>6 DEF Snapshot
    <3> HIDE DEF r
    <3> QED BY <2>6, <3>1, <3>2 DEF Snapshot
  <2>7. CASE Forgo(w) BY <2>7 DEF Forgo
  <2> QED BY <1>4, <2>1, <2>2, <2>3, <2>4, <2>5, <2>6, <2>7 DEF WaitStep
<1>5. ASSUME NEW w \in Waiters, TimerFires(w) \/ ContextFires(w) PROVE StoreTypeOK'
  <2>1. CASE TimerFires(w)
    <3>1. Broadcast /\ UNCHANGED <<docVars, wuri, base, canceled, afterFunc, tseq, result, deathVars>> /\ timer' \in [Waiters -> BOOLEAN]
      BY <2>1 DEF TimerFires
    <3>2. wpc' \in [Waiters -> {"idle", "based", "check", "parked"}]
      BY <3>1, BroadcastType
    <3> QED BY <3>1, <3>2
  <2>2. CASE ContextFires(w)
    <3>1. Broadcast /\ UNCHANGED <<docVars, wuri, base, canceled, timer, tseq, result, deathVars>> /\ afterFunc' \in [Waiters -> BOOLEAN]
      BY <2>2 DEF ContextFires
    <3>2. wpc' \in [Waiters -> {"idle", "based", "check", "parked"}]
      BY <3>1, BroadcastType
    <3> QED BY <3>1, <3>2
  <2> QED BY <1>5, <2>1, <2>2
<1>6. ASSUME NEW w \in Waiters, ContextDone(w) PROVE StoreTypeOK'
  BY <1>6 DEF ContextDone
<1>7. CASE Die \/ WatchBroadcasts
  <2>1. CASE Die BY <2>1 DEF Die
  <2>2. CASE WatchBroadcasts
    <3>1. Broadcast /\ UNCHANGED <<docVars, wuri, base, canceled, afterFunc, timer, tseq, result, connDead>> /\ watching' \in BOOLEAN
      BY <2>2 DEF WatchBroadcasts
    <3>2. wpc' \in [Waiters -> {"idle", "based", "check", "parked"}]
      BY <3>1, BroadcastType
    <3> QED BY <3>1, <3>2
  <2> QED BY <1>7, <2>1, <2>2
<1>8. CASE UNCHANGED storeVars
  BY <1>8
<1> QED
  BY <1>1, <1>2, <1>3, <1>4, <1>5, <1>6, <1>7, <1>8 DEF StoreNext

LEMMA WakeupStep == WInv /\ [StoreNext]_storeVars => (ContextWatched /\ NoLostWakeup)'
<1> SUFFICES ASSUME StoreTypeOK, ContextWatched, NoLostWakeup, [StoreNext]_storeVars
             PROVE  ContextWatched' /\ NoLostWakeup'
  BY DEF WInv
<1> USE DEF StoreTypeOK, ContextWatched, NoLostWakeup, Newer
<1>1. ASSUME NEW u \in Uris, Settle(u) PROVE ContextWatched' /\ NoLostWakeup'
  BY <1>1 DEF Settle
<1>2. ASSUME NEW u \in Uris, NEW d \in Contents, Publish(u, d) PROVE ContextWatched' /\ NoLostWakeup'
  BY <1>2, BroadcastKeeps DEF Publish
<1>3. ASSUME NEW w \in Waiters, NEW u \in Uris, TakeBaseline(w, u) PROVE ContextWatched' /\ NoLostWakeup'
  BY <1>3 DEF TakeBaseline
<1>4. ASSUME NEW w \in Waiters, WaitStep(w) PROVE ContextWatched' /\ NoLostWakeup'
  <2>1. CASE BeginWait(w) BY <2>1 DEF BeginWait
  <2>2. CASE CheckCanceled(w) BY <2>2 DEF CheckCanceled, Return
  <2>3. CASE CheckSettled(w) BY <2>3 DEF CheckSettled, Return
  <2>4. CASE CheckUnsettled(w) BY <2>4 DEF CheckUnsettled
  <2>5. CASE CheckNothing(w) BY <2>5 DEF CheckNothing
  <2>6. CASE Snapshot(w) BY <2>6 DEF Snapshot
  <2>7. CASE Forgo(w) BY <2>7 DEF Forgo
  <2> QED BY <1>4, <2>1, <2>2, <2>3, <2>4, <2>5, <2>6, <2>7 DEF WaitStep
<1>5. ASSUME NEW w \in Waiters, TimerFires(w) \/ ContextFires(w) PROVE ContextWatched' /\ NoLostWakeup'
  BY <1>5, BroadcastKeeps DEF TimerFires, ContextFires
<1>6. ASSUME NEW w \in Waiters, ContextDone(w) PROVE ContextWatched' /\ NoLostWakeup'
  BY <1>6 DEF ContextDone
<1>7. CASE Die
  BY <1>7 DEF Die
<1>8. CASE WatchBroadcasts
  BY <1>8, BroadcastKeeps DEF WatchBroadcasts
<1>9. CASE UNCHANGED storeVars
  BY <1>9
<1> QED
  BY <1>1, <1>2, <1>3, <1>4, <1>5, <1>6, <1>7, <1>8, <1>9 DEF StoreNext

LEMMA WakeupInvariance == StoreSpec => []WInv
<1>1. StoreInit => WInv
  <2> SUFFICES ASSUME StoreInit PROVE WInv
    OBVIOUS
  <2>1. StoreTypeOK
    <3>1. 0 \in 0..MaxSeq
      BY MaxSeqAssumption
    <3>2. result \in [Waiters -> Results]
      BY DEF StoreInit, Results
    <3>3. seq \in [Uris -> 0..MaxSeq] /\ base \in [Waiters -> 0..MaxSeq] /\ tseq \in [Waiters -> 0..MaxSeq]
      BY <3>1 DEF StoreInit
    <3>4. /\ wpc \in [Waiters -> {"idle", "based", "check", "parked"}]
          /\ quiet \in [Uris -> BOOLEAN] /\ timer \in [Waiters -> BOOLEAN]
          /\ canceled \in [Waiters -> BOOLEAN] /\ afterFunc \in [Waiters -> BOOLEAN]
          /\ diags \in [Uris -> Contents] /\ wuri \in [Waiters -> Uris]
          /\ connDead \in BOOLEAN /\ watching \in BOOLEAN
      BY DEF StoreInit
    <3> QED BY <3>2, <3>3, <3>4 DEF StoreTypeOK
  <2>2. ContextWatched /\ NoLostWakeup
    BY DEF StoreInit, ContextWatched, NoLostWakeup
  <2> QED BY <2>1, <2>2 DEF WInv
<1>2. WInv /\ [StoreNext]_storeVars => WInv'
  BY StoreTypeStep, WakeupStep DEF WInv
<1> QED BY <1>1, <1>2, PTL DEF StoreSpec

\* Every variable of the store stays in its type.
THEOREM StoreTypeOKHolds == StoreSpec => []StoreTypeOK
<1>1. WInv => StoreTypeOK
  BY DEF WInv
<1> QED BY <1>1, WakeupInvariance, PTL

\* Whoever is parked although it could go on has a broadcast coming, for any
\* number of waiters, documents and publishes.
THEOREM NoLostWakeupHolds == StoreSpec => []NoLostWakeup
<1>1. WInv => NoLostWakeup
  BY DEF WInv
<1> QED BY <1>1, WakeupInvariance, PTL

-----------------------------------------------------------------------------
phase == [w \in Waiters |-> IF wpc[w] \in {"check", "parked"} THEN "waiting" ELSE wpc[w]]

\* A broadcast is invisible above the store.
LEMMA BroadcastInvisible ==
  ASSUME StoreTypeOK, Broadcast PROVE phase' = phase
BY DEF StoreTypeOK, Broadcast, phase

\* A step of one waiter moves its phase.
LEMMA PhaseMoves ==
  ASSUME StoreTypeOK, NEW w \in Waiters,
         NEW pc \in {"idle", "based", "check"}, wpc' = [wpc EXCEPT ![w] = pc]
  PROVE  phase' = [phase EXCEPT ![w] = IF pc = "check" THEN "waiting" ELSE pc]
<1>1. DOMAIN phase = Waiters /\ DOMAIN wpc = Waiters
  BY DEF StoreTypeOK, phase
<1>2. phase' = [x \in Waiters |-> IF x = w THEN IF pc = "check" THEN "waiting" ELSE pc ELSE phase[x]]
  BY <1>1 DEF StoreTypeOK, phase
<1> QED BY <1>1, <1>2 DEF phase

USE DEF Cache!cacheVars, Cache!docVars

LEMMA CacheStep == StoreTypeOK /\ [StoreNext]_storeVars => [Cache!CacheNext]_(Cache!cacheVars)
<1> DEFINE Invisible == UNCHANGED <<seq, diags, quiet, phase, wuri, base, result>>
<1> SUFFICES ASSUME StoreTypeOK, [StoreNext]_storeVars
             PROVE  Cache!CacheNext \/ Invisible
  BY DEF phase
<1>1. ASSUME NEW u \in Uris, Settle(u) PROVE Cache!CacheNext
  <2>1. Cache!Settle(u)
    BY <1>1 DEF Settle, Cache!Settle
  <2> QED BY <2>1 DEF Cache!CacheNext
<1>2. ASSUME NEW u \in Uris, NEW d \in Contents, Publish(u, d) PROVE Cache!CacheNext
  <2>1. phase' = phase
    BY <1>2, BroadcastInvisible DEF Publish
  <2>2. Cache!Publish(u, d)
    BY <1>2, <2>1 DEF Publish, Cache!Publish, phase
  <2> QED BY <2>2 DEF Cache!CacheNext
<1>3. ASSUME NEW w \in Waiters, NEW u \in Uris, TakeBaseline(w, u) PROVE Cache!CacheNext
  <2>1. phase[w] = "idle" /\ phase' = [phase EXCEPT ![w] = "based"]
    BY <1>3, PhaseMoves DEF TakeBaseline, phase
  <2>2. Cache!TakeBaseline(w, u)
    BY <1>3, <2>1 DEF TakeBaseline, Cache!TakeBaseline, NoResult, Cache!NoResult, phase
  <2> QED BY <2>2 DEF Cache!CacheNext
<1>4. ASSUME NEW w \in Waiters, WaitStep(w) PROVE Cache!CacheNext \/ Invisible
  <2>1. CASE BeginWait(w)
    <3>1. phase[w] = "based" /\ phase' = [phase EXCEPT ![w] = "waiting"]
      BY <2>1, PhaseMoves DEF BeginWait, phase
    <3>2. Cache!BeginWait(w)
      BY <2>1, <3>1 DEF BeginWait, Cache!BeginWait, phase
    <3> QED BY <3>2 DEF Cache!CacheNext
  <2>2. CASE CheckCanceled(w)
    <3>1. phase[w] = "waiting" /\ phase' = [phase EXCEPT ![w] = "idle"]
      BY <2>2, PhaseMoves DEF CheckCanceled, Return, phase
    <3>2. Cache!WaitFails(w)
      BY <2>2, <3>1 DEF CheckCanceled, Cache!WaitFails, Return, Error, Cache!Error, phase
    <3> QED BY <3>2 DEF Cache!CacheNext
  <2>3. CASE CheckSettled(w)
    <3>1. phase[w] = "waiting" /\ phase' = [phase EXCEPT ![w] = "idle"]
      BY <2>3, PhaseMoves DEF CheckSettled, Return, phase
    <3>2. Cache!WaitReturns(w)
      BY <2>3, <3>1 DEF CheckSettled, Cache!WaitReturns, Newer, Return, Diags, Cache!Diags, phase
    <3> QED BY <3>2 DEF Cache!CacheNext
  <2>4. CASE CheckUnsettled(w)
    BY <2>4 DEF StoreTypeOK, CheckUnsettled, phase
  <2>5. CASE CheckNothing(w)
    BY <2>5 DEF StoreTypeOK, CheckNothing, phase
  <2>6. CASE Snapshot(w)
    <3>1. phase[w] = "based" /\ phase' = [phase EXCEPT ![w] = "idle"]
      BY <2>6, PhaseMoves DEF Snapshot, phase
    <3>2. Cache!Snapshot(w)
      BY <2>6, <3>1 DEF Snapshot, Cache!Snapshot, Cached, Cache!Cached, phase
    <3> QED BY <3>2 DEF Cache!CacheNext
  <2>7. CASE Forgo(w)
    <3>1. phase[w] = "based" /\ phase' = [phase EXCEPT ![w] = "idle"]
      BY <2>7, PhaseMoves DEF Forgo, phase
    <3>2. Cache!Forgo(w)
      BY <2>7, <3>1 DEF Forgo, Cache!Forgo, phase
    <3> QED BY <3>2 DEF Cache!CacheNext
  <2> QED BY <1>4, <2>1, <2>2, <2>3, <2>4, <2>5, <2>6, <2>7 DEF WaitStep
<1>5. ASSUME NEW w \in Waiters, TimerFires(w) PROVE Invisible
  BY <1>5, BroadcastInvisible DEF TimerFires
<1>6. ASSUME NEW w \in Waiters, ContextFires(w) PROVE Invisible
  BY <1>6, BroadcastInvisible DEF ContextFires
<1>7. ASSUME NEW w \in Waiters, ContextDone(w) PROVE Invisible
  BY <1>7 DEF ContextDone, phase
<1>8. CASE Die
  BY <1>8 DEF Die, phase
<1>9. CASE WatchBroadcasts
  BY <1>9, BroadcastInvisible DEF WatchBroadcasts
<1>10. CASE UNCHANGED storeVars
  BY <1>10 DEF phase
<1> QED
  BY <1>1, <1>2, <1>3, <1>4, <1>5, <1>6, <1>7, <1>8, <1>9, <1>10 DEF StoreNext

\* The store with its lock, its condition variable and its timers implements
\* the abstract cache the lookups are built on.
THEOREM ImplementsCacheHolds == StoreSpec => ImplementsCache
<1>1. StoreInit => Cache!CacheInit
  BY DEF StoreInit, Cache!CacheInit, NoResult, Cache!NoResult
<1>2. WInv /\ [StoreNext]_storeVars => [Cache!CacheNext]_(Cache!cacheVars)
  BY CacheStep DEF WInv
<1> QED
  BY <1>1, <1>2, WakeupInvariance, PTL DEF StoreSpec, ImplementsCache, Cache!CacheSpec
=============================================================================
