-------------------------- MODULE DiagnosticsCache --------------------------
(***************************************************************************)
(* What the diagnostics store promises the lookups above it, without       *)
(* goroutines, locks, timers or broadcasts: a wait returns the newest      *)
(* publish of its document once one is newer than the baseline and the     *)
(* stream has been quiet, or it fails.  DiagnosticsStore implements this;  *)
(* DiagnosticsLookup is built on it.                                       *)
(***************************************************************************)
EXTENDS Naturals

CONSTANTS
  Waiters,
  Uris,
  Contents,  \* what a publish carries
  MaxSeq     \* bound: publishes per uri

VARIABLES
  seq,     \* publishes seen for a document
  diags,   \* the newest one
  quiet,   \* none came for the settle window
  phase,   \* "idle", "based": the baseline is taken, "waiting"
  wuri,    \* the document a waiter asks about
  base,    \* its baseline
  result   \* what its last wait returned

docVars   == <<seq, diags, quiet>>
cacheVars == <<docVars, phase, wuri, base, result>>

NoResult == [kind |-> "none"]
Error == [kind |-> "error"]
Diags(n, d) == [kind |-> "diags", seq |-> n, diags |-> d]
Cached(n, d) == [kind |-> "cached", seq |-> n, diags |-> d]

CacheInit ==
  /\ seq = [u \in Uris |-> 0]
  /\ diags \in [Uris -> Contents]
  /\ quiet = [u \in Uris |-> TRUE]
  /\ phase = [w \in Waiters |-> "idle"]
  /\ wuri \in [Waiters -> Uris]
  /\ base = [w \in Waiters |-> 0]
  /\ result = [w \in Waiters |-> NoResult]

Publish(u, d) ==
  /\ seq[u] < MaxSeq
  /\ seq' = [seq EXCEPT ![u] = @ + 1]
  /\ diags' = [diags EXCEPT ![u] = d]
  /\ quiet' = [quiet EXCEPT ![u] = FALSE]
  /\ UNCHANGED <<phase, wuri, base, result>>

Settle(u) ==
  /\ ~quiet[u]
  /\ quiet' = [quiet EXCEPT ![u] = TRUE]
  /\ UNCHANGED <<seq, diags, phase, wuri, base, result>>

TakeBaseline(w, u) ==
  /\ phase[w] = "idle"
  /\ phase' = [phase EXCEPT ![w] = "based"]
  /\ wuri' = [wuri EXCEPT ![w] = u]
  /\ base' = [base EXCEPT ![w] = seq[u]]
  /\ result' = [result EXCEPT ![w] = NoResult]
  /\ UNCHANGED docVars

\* The caller waits for what follows its baseline ...
BeginWait(w) ==
  /\ phase[w] = "based"
  /\ phase' = [phase EXCEPT ![w] = "waiting"]
  /\ UNCHANGED <<docVars, wuri, base, result>>

\* ... takes what is cached, if anything (seq 0: nothing) ...
Snapshot(w) ==
  LET u == wuri[w] IN
  /\ phase[w] = "based"
  /\ phase' = [phase EXCEPT ![w] = "idle"]
  /\ result' = [result EXCEPT ![w] = Cached(seq[u], diags[u])]
  /\ UNCHANGED <<docVars, wuri, base>>

\* ... or goes another way, without the store.
Forgo(w) ==
  /\ phase[w] = "based"
  /\ phase' = [phase EXCEPT ![w] = "idle"]
  /\ UNCHANGED <<docVars, wuri, base, result>>

WaitReturns(w) ==
  LET u == wuri[w] IN
  /\ phase[w] = "waiting"
  /\ seq[u] > base[w]
  /\ quiet[u]
  /\ phase' = [phase EXCEPT ![w] = "idle"]
  /\ result' = [result EXCEPT ![w] = Diags(seq[u], diags[u])]
  /\ UNCHANGED <<docVars, wuri, base>>

WaitFails(w) ==
  /\ phase[w] = "waiting"
  /\ phase' = [phase EXCEPT ![w] = "idle"]
  /\ result' = [result EXCEPT ![w] = Error]
  /\ UNCHANGED <<docVars, wuri, base>>

CacheNext ==
  \/ \E u \in Uris : Settle(u) \/ \E d \in Contents : Publish(u, d)
  \/ \E w \in Waiters : \/ \E u \in Uris : TakeBaseline(w, u)
                        \/ BeginWait(w) \/ Snapshot(w) \/ Forgo(w)
                        \/ WaitReturns(w) \/ WaitFails(w)

CacheSpec == CacheInit /\ [][CacheNext]_cacheVars
=============================================================================
