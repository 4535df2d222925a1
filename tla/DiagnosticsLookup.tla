-------------------------- MODULE DiagnosticsLookup --------------------------
(***************************************************************************)
(* Diagnostics.Lookup (pkg/lsp/diagnostics.go): the baseline is taken from *)
(* the store, the text synchronized, then diagnostics are waited for       *)
(* (push) or asked for (pull).  Documents are those of DocumentSync, the   *)
(* store is the abstract cache, which DiagnosticsStore implements.  The    *)
(* server analyses a document when it is synchronized, or again when       *)
(* another one changed, and publishes what it found, or nothing of a       *)
(* version it has found something newer for.  The store takes publishes as *)
(* they are dispatched and compares no versions (store.publish), so they   *)
(* arrive here in any order, and those of a lost connection late or never. *)
(* The session that replaces a lost one writes to the same store.          *)
(*                                                                         *)
(* What a publish carries is a stamp: the version of the document it is    *)
(* about, counted on from one session to the next.  The shutdown of the    *)
(* session is left to DocumentSync: it is not started.                     *)
(***************************************************************************)
EXTENDS DocumentSync
LOCAL INSTANCE Functions

CONSTANTS
  MaxSeq      \* bound: publishes of one document, over all sessions

ASSUME LookupAssumption == MaxSeq \in Nat /\ "diagnostics" \in Tools

VARIABLES
  seq, diags, quiet, phase, wuri, base, result,  \* the cache, see DiagnosticsCache
  due,        \* versions of a document the server has still to publish for
  published,  \* publishes sent and not yet dispatched: how many of each stamp
  wanted,     \* stamp of the text the call's own sync established
  calm,       \* nothing else was under way for the document from baseline to sync
  wrote,      \* the call's own sync wrote a notification
  hurried     \* its deadline passed while something was still on its way to it

MaxStamp == (MaxLosses + 1) * MaxVersion
Stamp(v) == losses * MaxVersion + v

Cache == INSTANCE DiagnosticsCache WITH Waiters <- Callers, Contents <- 0..MaxStamp

cacheVars  == <<seq, diags, quiet, phase, wuri, base, result>>
ghostVars  == <<wanted, calm, wrote, hurried>>
lookupVars == <<syncVars, cacheVars, due, published, ghostVars>>

LookupTypeOK ==
  /\ SyncTypeOK
  /\ seq \in [Uris -> 0..MaxSeq]
  /\ diags \in [Uris -> 0..MaxStamp]
  /\ phase \in [Callers -> {"idle", "based", "waiting"}]
  /\ due \in [Uris -> SUBSET (1..MaxVersion)]
  /\ published \in [Uris -> [1..MaxStamp -> Nat]]
  /\ \A c \in Callers : phase[c] # "idle" => wuri[c] = curi[c] /\ pc[c] \notin {"idle", "read"}
  /\ \A c \in Callers : phase[c] = "waiting" => pc[c] \in {"synced", "stranded"}
  /\ wanted \in [Callers -> 0..MaxStamp]

LookupInit ==
  /\ SyncInit
  /\ Cache!CacheInit
  /\ diags = [u \in Uris |-> 0]
  /\ wuri = curi
  /\ due = [u \in Uris |-> {}]
  /\ published = [u \in Uris |-> [s \in 1..MaxStamp |-> 0]]
  /\ wanted = [c \in Callers |-> 0]
  /\ calm = [c \in Callers |-> TRUE]
  /\ wrote = [c \in Callers |-> FALSE]
  /\ hurried = [c \in Callers |-> FALSE]

-----------------------------------------------------------------------------
\* The handler reads the file and asks the manager for the session.
Start(c) ==
  /\ (\E u \in Uris : Read(c, u, "diagnostics")) \/ Bind(c) \/ Refused(c)
  /\ UNCHANGED <<cacheVars, due, published, ghostVars>>

\* A publish for u is still to come.
UnderWay(u) ==
  \/ due[u] # {}
  \/ \E s \in 1..MaxStamp : published[u][s] > 0
  \/ About(u) # {}

\* What no property asks about the call or its result any more is forgotten.
ForgetText(c, quietly) ==
  wanted' = [wanted EXCEPT ![c] = 0] /\ calm' = [calm EXCEPT ![c] = quietly]
ForgetWrite(c) == wrote' = [wrote EXCEPT ![c] = FALSE]

NewCall(c) ==
  /\ pc[c] \in {"bound", "stranded"}
  /\ ForgetText(c, ~UnderWay(curi[c]))
  /\ ForgetWrite(c)
  /\ hurried' = [hurried EXCEPT ![c] = FALSE]
  /\ UNCHANGED <<syncVars, due, published>>

\* (mutant) The baseline is always the beginning.
BaselineZero(c) ==
  /\ phase[c] = "idle"
  /\ phase' = [phase EXCEPT ![c] = "based"]
  /\ wuri' = [wuri EXCEPT ![c] = curi[c]]
  /\ base' = [base EXCEPT ![c] = 0]
  /\ result' = [result EXCEPT ![c] = Cache!NoResult]
  /\ UNCHANGED <<seq, diags, quiet>>
  /\ NewCall(c)

\* store.publishSeq, before the sync.
Baseline(c) == Cache!TakeBaseline(c, curi[c]) /\ NewCall(c)

\* syncTextDocument; when it fails the lookup does.
LookupSync(c) ==
  /\ phase[c] = "based"
  /\ \/ /\ SyncOpen(c) \/ SyncChange(c)
        /\ wrote' = [wrote EXCEPT ![c] = TRUE]
        /\ wanted' = [wanted EXCEPT ![c] = Stamp(cver'[c])]
        /\ calm' = [d \in Callers |-> calm[d] /\ (d = c \/ pc[d] # "bound" \/ curi[d] # curi[c])]
        /\ UNCHANGED cacheVars
     \/ /\ SyncUnchanged(c)
        /\ wanted' = [wanted EXCEPT ![c] = Stamp(cver'[c])]
        /\ UNCHANGED <<cacheVars, wrote, calm>>
     \/ /\ SyncFails(c)
        /\ Cache!Forgo(c)
        /\ ForgetText(c, TRUE) /\ ForgetWrite(c)
  /\ UNCHANGED <<due, published, hurried>>

Pushes(c) == pc[c] = "stranded" \/ (pc[c] = "synced" /\ "pullDiagnostics" \notin caps)

\* (mutant) The baseline is taken after the sync.
AcquirePushRebased(c) ==
  /\ Pushes(c)
  /\ phase[c] = "based"
  /\ phase' = [phase EXCEPT ![c] = "waiting"]
  /\ base' = [base EXCEPT ![c] = seq[curi[c]]]
  /\ UNCHANGED <<seq, diags, quiet, wuri, result, syncVars, due, published, ghostVars>>

\* acquire without pull support: wait for the stream to settle ...
AcquirePush(c) ==
  /\ Pushes(c)
  /\ Cache!BeginWait(c)
  /\ UNCHANGED <<syncVars, due, published, ghostVars>>

\* ... and return it ...
PushAnswers(c) ==
  /\ Cache!WaitReturns(c)
  /\ AskFails(c)
  /\ ForgetWrite(c)
  /\ UNCHANGED <<due, published, wanted, calm, hurried>>

\* Whatever could still come for the call has come, and was not enough.
Stuck(c) == ~UnderWay(curi[c]) /\ quiet[curi[c]] /\ seq[curi[c]] <= base[c]

\* (mutant) The handler returns and leaves its wait behind.
PushTimesOutLeaves(c) ==
  /\ phase[c] = "waiting"
  /\ result' = [result EXCEPT ![c] = Cache!Error]
  /\ AskFails(c)
  /\ UNCHANGED <<seq, diags, quiet, phase, wuri, base, due, published, ghostVars>>

\* ... or run into the deadline withTimeout has set; after the loss of its session
\* nothing may ever come for it.
PushTimesOut(c) ==
  /\ hurried' = [hurried EXCEPT ![c] = ~Stuck(c) \/ pc[c] = "stranded"]
  /\ Cache!WaitFails(c)
  /\ AskFails(c)
  /\ ForgetText(c, TRUE)
  /\ UNCHANGED <<due, published, wrote>>

\* acquire with pull support: textDocument/diagnostic, under the caller's context.
AcquirePull(c) ==
  /\ phase[c] = "based"
  /\ Ask(c)
  /\ UNCHANGED <<cacheVars, due, published, ghostVars>>

\* The request fails, the caller's own context ends, or the session is lost.
LookupFails(c) ==
  /\ ~Pushes(c)
  /\ AskFails(c)
  /\ \/ Cache!Forgo(c) /\ ForgetText(c, TRUE) /\ ForgetWrite(c)
     \/ phase[c] = "idle" /\ UNCHANGED <<cacheVars, wanted, calm, wrote>>
  /\ UNCHANGED <<due, published, hurried>>

\* A full report is returned as it is, any other stands for what is cached.
PullAnswers(c) ==
  /\ Return(c)
  /\ Cache!Forgo(c) \/ Cache!Snapshot(c)
  /\ ForgetText(c, TRUE) /\ ForgetWrite(c)
  /\ UNCHANGED <<due, published, hurried>>

Lookup(c) ==
  \/ Baseline(c) \/ LookupSync(c)
  \/ AcquirePush(c) \/ PushAnswers(c) \/ PushTimesOut(c)
  \/ AcquirePull(c) \/ PullAnswers(c) \/ LookupFails(c)

\* The server reads a notification and has a new version to analyse ...
ServerReads ==
  /\ ServerSyncs
  /\ due' = [due EXCEPT ![Head(wire).uri] = @ \cup {Head(wire).doc.version}]
  /\ UNCHANGED <<cacheVars, published, ghostVars>>

ServerReports ==
  /\ ServerAnswers
  /\ UNCHANGED <<cacheVars, due, published, ghostVars>>

Sent(u) == seq[u] + SumFunction(published[u])

\* ... publishes for it, perhaps after a newer one has arrived, and perhaps for no
\* older one any more ...
ServerPublishes(u) ==
  /\ Sent(u) < MaxSeq
  /\ \E v \in due[u] :
       /\ published' = [published EXCEPT ![u][Stamp(v)] = @ + 1]
       /\ due' \in {[due EXCEPT ![u] = @ \ {v}], [due EXCEPT ![u] = {w \in @ : w > v}]}
  /\ UNCHANGED <<syncVars, cacheVars, ghostVars>>

\* ... or analyses a document again, because another one changed.
ServerReconsiders(u) ==
  /\ srv[u] # Absent
  /\ srv[u].version \notin due[u]
  /\ Sent(u) < MaxSeq
  /\ due' = [due EXCEPT ![u] = @ \cup {srv[u].version}]
  /\ calm' = [c \in Callers |-> calm[c] /\ (curi[c] # u \/ (pc[c] # "bound" /\ Stamp(srv[u].version) >= wanted[c]))]
  /\ UNCHANGED <<syncVars, cacheVars, published, wanted, wrote, hurried>>

\* A publishDiagnostics is dispatched to the store, which takes it whatever its version.
Dispatch(u) ==
  /\ \E s \in 1..MaxStamp :
       /\ published[u][s] > 0
       /\ published' = [published EXCEPT ![u][s] = @ - 1]
       /\ Cache!Publish(u, s)
  /\ UNCHANGED <<syncVars, due, ghostVars>>

SettleWindow(u) ==
  /\ Cache!Settle(u)
  /\ UNCHANGED <<syncVars, due, published, ghostVars>>

\* The store outlives the session: its waiters are woken, find nothing new and
\* park again (watch).  What the server had not written is never published ...
LoseServer ==
  /\ Lose
  /\ due' = [u \in Uris |-> {}]
  /\ UNCHANGED <<cacheVars, published, ghostVars>>

\* ... and what it had written may be dispatched still, or never read.
DropLost(u) ==
  /\ \E s \in 1..(losses * MaxVersion) :
       /\ published[u][s] > 0
       /\ published' = [published EXCEPT ![u][s] = @ - 1]
  /\ UNCHANGED <<syncVars, cacheVars, due, ghostVars>>

SaveFile(u) ==
  /\ Save(u)
  /\ UNCHANGED <<cacheVars, due, published, ghostVars>>

-----------------------------------------------------------------------------
LookupNext ==
  \/ \E c \in Callers : Start(c) \/ Lookup(c)
  \/ \E u \in Uris : \/ SaveFile(u) \/ ServerPublishes(u) \/ ServerReconsiders(u)
                     \/ Dispatch(u) \/ DropLost(u) \/ SettleWindow(u)
  \/ ServerReads \/ ServerReports \/ LoseServer

LookupSpec == LookupInit /\ [][LookupNext]_lookupVars

-----------------------------------------------------------------------------
\* Diagnostics a waiting lookup returns are not about an older text than the one
\* its sync established, when no publish for the document was under way as it took
\* its baseline and, before its own text arrived, no other call synchronized the
\* document and the server did not analyse it again (diagnostics.go:72-77).  Else the
\* publish for an earlier lookup, one that timed out, may be taken for its answer: the
\* baseline counts publishes and compares no versions (store.go:102-104).
FreshIfCalm ==
  \A c \in Callers : result[c].kind = "diags" /\ calm[c] => result[c].diags >= wanted[c]

\* A lookup that brought the server a new text is answered, unless its deadline
\* passes while an answer is on its way or the server is lost: its baseline is
\* taken before the sync, so the publish cannot be missed (diagnostics.go:72-77).
ChangeAnswered ==
  \A c \in Callers : wrote[c] /\ result[c].kind = "error" => hurried[c]

\* "Lookup opens absPath in the language server for lang with the caller-supplied
\* text and returns its current diagnostics" (diagnostics.go:61-62): the same,
\* whether or not the text is new to the server.
LookupAnswered ==
  \A c \in Callers : result[c].kind = "error" => hurried[c]
=============================================================================
