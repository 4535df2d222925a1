-------------------------- MODULE DiagnosticsStore --------------------------
(***************************************************************************)
(* The diagnostics cache, pkg/lsp/store.go: publish on the dispatch        *)
(* goroutine, readers that wait on a condition variable for a publish      *)
(* newer than their baseline to settle, and the three broadcasts that wake *)
(* them (context, settle timer, death of the connection).                  *)
(*                                                                         *)
(* Every section under store.mu is one action.  A parked waiter is one     *)
(* inside cond.Wait; a broadcast makes it "check", it then competes for    *)
(* the lock.  Time is abstracted to quiet[u]: the settle window has passed *)
(* since the last publish for u.                                           *)
(***************************************************************************)
EXTENDS Naturals

CONSTANTS
  Waiters,   \* goroutines that read diagnostics
  Uris,
  Contents,  \* what a publish carries
  MaxSeq     \* bound: publishes per uri

ASSUME MaxSeqAssumption == MaxSeq \in Nat

VARIABLES
  seq,       \* docState.seq; 0 while store.docs has no entry
  diags,     \* docState.diags; meaningless while seq is 0
  quiet,     \* at least the settle window has passed since docState.lastPub
  wpc,       \* where a waiter stands
  wuri,      \* what it waits for
  base,      \* its baselineSeq
  canceled,  \* its context is done
  afterFunc, \* the context.AfterFunc that broadcasts is still to run
  timer,     \* the settle watchdog is armed
  tseq,      \* the publish the watchdog was armed for
  result,    \* what the last waitSettledAfter of the waiter returned
  connDead,  \* the read loop has ended
  watching   \* watch has still to broadcast

docVars    == <<seq, diags, quiet>>
waiterVars == <<wpc, wuri, base, canceled, afterFunc, timer, tseq, result>>
deathVars  == <<connDead, watching>>
storeVars  == <<docVars, waiterVars, deathVars>>

NoResult == [kind |-> "none"]
Error == [kind |-> "error"]
Diags(n, d) == [kind |-> "diags", seq |-> n, diags |-> d]
Cached(n, d) == [kind |-> "cached", seq |-> n, diags |-> d]
Results == {NoResult, Error} \cup {Diags(n, d) : n \in 1..MaxSeq, d \in Contents}
                             \cup {Cached(n, d) : n \in 0..MaxSeq, d \in Contents}

StoreTypeOK ==
  /\ seq \in [Uris -> 0..MaxSeq]
  /\ diags \in [Uris -> Contents]
  /\ quiet \in [Uris -> BOOLEAN]
  /\ wpc \in [Waiters -> {"idle", "based", "check", "parked"}]
  /\ wuri \in [Waiters -> Uris]
  /\ base \in [Waiters -> 0..MaxSeq]
  /\ canceled \in [Waiters -> BOOLEAN]
  /\ afterFunc \in [Waiters -> BOOLEAN]
  /\ timer \in [Waiters -> BOOLEAN]
  /\ tseq \in [Waiters -> 0..MaxSeq]
  /\ result \in [Waiters -> Results]
  /\ connDead \in BOOLEAN
  /\ watching \in BOOLEAN

StoreInit ==
  /\ seq = [u \in Uris |-> 0]
  /\ diags \in [Uris -> Contents]
  /\ quiet = [u \in Uris |-> TRUE]
  /\ wpc = [w \in Waiters |-> "idle"]
  /\ wuri \in [Waiters -> Uris]
  /\ base = [w \in Waiters |-> 0]
  /\ canceled = [w \in Waiters |-> FALSE]
  /\ afterFunc = [w \in Waiters |-> FALSE]
  /\ timer = [w \in Waiters |-> FALSE]
  /\ tseq = [w \in Waiters |-> 0]
  /\ result = [w \in Waiters |-> NoResult]
  /\ connDead = FALSE
  /\ watching = TRUE

-----------------------------------------------------------------------------
\* (mutant) Signal instead of Broadcast: one waiter runs again.
SignalOne ==
  IF \A w \in Waiters : wpc[w] # "parked" THEN wpc' = wpc
  ELSE \E w \in Waiters : wpc[w] = "parked" /\ wpc' = [wpc EXCEPT ![w] = "check"]

\* cond.Broadcast: every parked waiter runs again.
Broadcast == wpc' = [w \in Waiters |-> IF wpc[w] = "parked" THEN "check" ELSE wpc[w]]

\* (mutant) publish bumps the sequence without waking anybody.
PublishSilently(u, d) ==
  /\ seq[u] < MaxSeq
  /\ seq' = [seq EXCEPT ![u] = @ + 1]
  /\ diags' = [diags EXCEPT ![u] = d]
  /\ quiet' = [quiet EXCEPT ![u] = FALSE]
  /\ UNCHANGED <<waiterVars, deathVars>>

\* publish: swap the slice, stamp the time, bump the sequence, broadcast.  The
\* store outlives a connection: the session that replaces a dead one uses it too.
Publish(u, d) ==
  /\ seq[u] < MaxSeq
  /\ seq' = [seq EXCEPT ![u] = @ + 1]
  /\ diags' = [diags EXCEPT ![u] = d]
  /\ quiet' = [quiet EXCEPT ![u] = FALSE]
  /\ Broadcast
  /\ UNCHANGED <<wuri, base, canceled, afterFunc, timer, tseq, result, deathVars>>

\* The settle window passes without another publish.
Settle(u) ==
  /\ ~quiet[u]
  /\ quiet' = [quiet EXCEPT ![u] = TRUE]
  /\ UNCHANGED <<seq, diags, waiterVars, deathVars>>

\* (mutant) The baseline is the publish expected next, not the last one seen.
TakeBaselineNext(w, u) ==
  /\ wpc[w] = "idle"
  /\ wpc' = [wpc EXCEPT ![w] = "based"]
  /\ wuri' = [wuri EXCEPT ![w] = u]
  /\ base' = [base EXCEPT ![w] = seq[u] + 1]
  /\ result' = [result EXCEPT ![w] = NoResult]
  /\ UNCHANGED <<docVars, canceled, afterFunc, timer, tseq, deathVars>>

\* publishSeq: the baseline a caller takes before it touches the document.
TakeBaseline(w, u) ==
  /\ wpc[w] = "idle"
  /\ wpc' = [wpc EXCEPT ![w] = "based"]
  /\ wuri' = [wuri EXCEPT ![w] = u]
  /\ base' = [base EXCEPT ![w] = seq[u]]
  /\ result' = [result EXCEPT ![w] = NoResult]
  /\ UNCHANGED <<docVars, canceled, afterFunc, timer, tseq, deathVars>>

\* (mutant) The context is looked at between iterations only.
BeginWaitNoAfterFunc(w) ==
  /\ wpc[w] = "based"
  /\ wpc' = [wpc EXCEPT ![w] = "check"]
  /\ UNCHANGED <<docVars, wuri, base, canceled, afterFunc, timer, tseq, result, deathVars>>

\* waitSettledAfter registers the AfterFunc and asks for the lock.
BeginWait(w) ==
  /\ wpc[w] = "based"
  /\ wpc' = [wpc EXCEPT ![w] = "check"]
  /\ afterFunc' = [afterFunc EXCEPT ![w] = TRUE]
  /\ UNCHANGED <<docVars, wuri, base, canceled, timer, tseq, result, deathVars>>

\* snapshot: a copy of what is cached, without waiting (seq 0: nothing).
Snapshot(w) ==
  LET u == wuri[w] IN
  /\ wpc[w] = "based"
  /\ wpc' = [wpc EXCEPT ![w] = "idle"]
  /\ result' = [result EXCEPT ![w] = Cached(seq[u], diags[u])]
  /\ UNCHANGED <<docVars, wuri, base, canceled, afterFunc, timer, tseq, deathVars>>

\* The lookup fails, or is answered without the store, before it waits.
Forgo(w) ==
  /\ wpc[w] = "based"
  /\ wpc' = [wpc EXCEPT ![w] = "idle"]
  /\ UNCHANGED <<docVars, wuri, base, canceled, afterFunc, timer, tseq, result, deathVars>>

\* The waiter returns r: the deferred stopCtx and the timer's Stop have run.
Return(w, r) ==
  /\ wpc' = [wpc EXCEPT ![w] = "idle"]
  /\ result' = [result EXCEPT ![w] = r]
  /\ canceled' = [canceled EXCEPT ![w] = FALSE]
  /\ afterFunc' = [afterFunc EXCEPT ![w] = FALSE]
  /\ timer' = [timer EXCEPT ![w] = FALSE]
  /\ UNCHANGED <<wuri, base, tseq>>

Newer(w) == seq[wuri[w]] > base[w]

\* One iteration of the loop under the lock.  The context comes first ...
CheckCanceled(w) ==
  /\ wpc[w] = "check"
  /\ canceled[w]
  /\ Return(w, Error)
  /\ UNCHANGED <<docVars, deathVars>>

\* (mutant) Whatever is cached and quiet is returned.
CheckSettledAny(w) ==
  /\ wpc[w] = "check"
  /\ ~canceled[w]
  /\ seq[wuri[w]] > 0
  /\ quiet[wuri[w]]
  /\ Return(w, Diags(seq[wuri[w]], diags[wuri[w]]))
  /\ UNCHANGED <<docVars, deathVars>>

\* (mutant) The first publish is returned, whether or not more are coming.
CheckSettledEarly(w) ==
  /\ wpc[w] = "check"
  /\ ~canceled[w]
  /\ Newer(w)
  /\ Return(w, Diags(seq[wuri[w]], diags[wuri[w]]))
  /\ UNCHANGED <<docVars, deathVars>>

\* ... then a publish after the baseline that has settled ...
CheckSettled(w) ==
  /\ wpc[w] = "check"
  /\ ~canceled[w]
  /\ Newer(w)
  /\ quiet[wuri[w]]
  /\ Return(w, Diags(seq[wuri[w]], diags[wuri[w]]))
  /\ UNCHANGED <<docVars, deathVars>>

\* ... one that has not: park until the watchdog armed for the rest of the window ...
CheckUnsettled(w) ==
  /\ wpc[w] = "check"
  /\ ~canceled[w]
  /\ Newer(w)
  /\ ~quiet[wuri[w]]
  /\ wpc' = [wpc EXCEPT ![w] = "parked"]
  /\ timer' = [timer EXCEPT ![w] = TRUE]
  /\ tseq' = [tseq EXCEPT ![w] = seq[wuri[w]]]
  /\ UNCHANGED <<docVars, wuri, base, canceled, afterFunc, result, deathVars>>

\* ... or none at all: park.  A watchdog of the previous iteration is stopped.
CheckNothing(w) ==
  /\ wpc[w] = "check"
  /\ ~canceled[w]
  /\ ~Newer(w)
  /\ wpc' = [wpc EXCEPT ![w] = "parked"]
  /\ timer' = [timer EXCEPT ![w] = FALSE]
  /\ UNCHANGED <<docVars, wuri, base, canceled, afterFunc, tseq, result, deathVars>>

\* The watchdog goes off, when the window of the publish it was armed for is over.
TimerFires(w) ==
  /\ timer[w]
  /\ quiet[wuri[w]] \/ seq[wuri[w]] # tseq[w]
  /\ timer' = [timer EXCEPT ![w] = FALSE]
  /\ Broadcast
  /\ UNCHANGED <<docVars, wuri, base, canceled, afterFunc, tseq, result, deathVars>>

\* The deadline passes or the tool call is canceled.
ContextDone(w) ==
  /\ wpc[w] \in {"check", "parked"}
  /\ ~canceled[w]
  /\ canceled' = [canceled EXCEPT ![w] = TRUE]
  /\ UNCHANGED <<docVars, wpc, wuri, base, afterFunc, timer, tseq, result, deathVars>>

\* context.AfterFunc runs broadcastAll in a goroutine of its own.
ContextFires(w) ==
  /\ canceled[w]
  /\ afterFunc[w]
  /\ afterFunc' = [afterFunc EXCEPT ![w] = FALSE]
  /\ Broadcast
  /\ UNCHANGED <<docVars, wuri, base, canceled, timer, tseq, result, deathVars>>

\* The connection's read loop ends ...
Die ==
  /\ ~connDead
  /\ connDead' = TRUE
  /\ UNCHANGED <<docVars, waiterVars, watching>>

\* ... and watch broadcasts, once.
WatchBroadcasts ==
  /\ connDead
  /\ watching
  /\ watching' = FALSE
  /\ Broadcast
  /\ UNCHANGED <<docVars, wuri, base, canceled, afterFunc, timer, tseq, result, connDead>>

-----------------------------------------------------------------------------
WaitStep(w) ==
  \/ BeginWait(w) \/ Snapshot(w) \/ Forgo(w)
  \/ CheckCanceled(w) \/ CheckSettled(w) \/ CheckUnsettled(w) \/ CheckNothing(w)

StoreNext ==
  \/ \E u \in Uris : Settle(u) \/ \E d \in Contents : Publish(u, d)
  \/ \E w \in Waiters : \/ \E u \in Uris : TakeBaseline(w, u)
                        \/ WaitStep(w) \/ TimerFires(w)
                        \/ ContextDone(w) \/ ContextFires(w)
  \/ Die \/ WatchBroadcasts

StoreSpec == StoreInit /\ [][StoreNext]_storeVars

\* Goroutines run, timers go off and time passes; nothing makes a server
\* publish or die, a context end or anybody look diagnostics up.
StoreFairness ==
  /\ \A u \in Uris : WF_storeVars(Settle(u))
  /\ \A w \in Waiters : WF_storeVars(WaitStep(w)) /\ WF_storeVars(TimerFires(w)) /\ WF_storeVars(ContextFires(w))
  /\ WF_storeVars(WatchBroadcasts)

StoreFairSpec == StoreSpec /\ StoreFairness

-----------------------------------------------------------------------------
\* What the lookups above the store see of a waiter.
Cache == INSTANCE DiagnosticsCache WITH
  phase <- [w \in Waiters |-> IF wpc[w] \in {"check", "parked"} THEN "waiting" ELSE wpc[w]]

\* Locks, timers and broadcasts add nothing to what the store promises: every
\* step is a step of the abstract cache or invisible to it (store.go:70-165).
ImplementsCache == Cache!CacheSpec

\* No wakeup is lost between the condition and cond.Wait: whoever is parked
\* although it could go on has a broadcast coming, from the watchdog armed for
\* the very last publish or from its context (store.go:133-160).
NoLostWakeup ==
  \A w \in Waiters : wpc[w] = "parked" =>
    /\ Newer(w) => timer[w] /\ tseq[w] = seq[wuri[w]]
    /\ canceled[w] => afterFunc[w]

\* Diagnostics returned to a waiter are newer than its baseline, and unless a
\* later publish came in the cache holds exactly what it was given: no torn or
\* outdated slice (store.go:129-132).
ResultFromCache ==
  \A w \in Waiters : result[w].kind = "diags" =>
    /\ result[w].seq > base[w]
    /\ result[w].seq = seq[wuri[w]] => result[w].diags = diags[wuri[w]]

\* A waiter for which something new was published returns, once the stream
\* goes quiet, without any help from its context (store.go:125-132).
PublishedReturns ==
  \A w \in Waiters : (wpc[w] \in {"check", "parked"} /\ Newer(w)) ~> wpc[w] = "idle"

\* A waiter whose context is done returns (store.go:117-118).
CanceledReturns ==
  \A w \in Waiters : (wpc[w] # "idle" /\ canceled[w]) ~> wpc[w] = "idle"
=============================================================================
