# mcp-lsp in TLA+

mcp-lsp is an MCP server over stdio. A tool call of an agent names a file and
perhaps a language; the program finds or starts the language server of that
language, brings the document up to date there, sends one LSP request and
converts the answer. It also keeps the diagnostics servers publish, and applies
workspace edits to the file system, on request of the agent or of a server.

This directory holds TLA+ modules of the parts of the program in which steps of
several goroutines, servers and files interleave, the TLC configurations that
check them on small instances, and theorems about them that TLAPS proves for
every instance. References are to files of the repository
(`session.go` is `pkg/lsp/session.go` and so on).

    tlc -workers 2 -config sessions.cfg MCSessionManager.tla     one run
    tlapm SessionManager_proofs.tla                              one proof module

## Inventory

| part | state | operations | talks to |
|---|---|---|---|
| session manager: `manager.go`, `session.go` | map language → session, its lock; per session: once, ready channel, start error, dead flag, process, connection, watch goroutine | `session`, `start`, `failStart`, `watch`, `Close`, `shutdown`, `waitProcess` | every tool call; the server process; the store it passes from a dead session to its replacement |
| diagnostics store: `store.go` | per document: sequence number, diagnostics, time of the last publish; a condition variable | `publish`, `publishSeq`, `snapshot`, `waitSettledAfter`, `broadcastAll` | written by the dispatch goroutine of the connection, read by lookups, woken by timers, contexts and `watch` |
| document sync: `sync.go`, `tool_input.go` | map of open documents with version and text, under docsMu | `syncTextDocument`, `closeOpenDocuments` | notifications to the server; called by all domain requests and by shutdown |
| diagnostics lookup: `diagnostics.go` | none of its own | `Lookup`, push or pull | baseline from the store, then sync, then store or request |
| domain requests: `hover.go`, `definition.go`, `navigation.go`, `code_action.go`, `workspace_symbol.go`, ... | none | check of the server's capabilities, sync, one request, perhaps one more per item to resolve it, conversion | document sync |
| apply policy: `client.go`, `command.go` | one policy per session, under applyMu | `withApplyEditPolicy`, `ApplyEdit`, `Execute` | a server calls back while it executes a command |
| edit application: `edit_apply.go` | the files | `ApplyWorkspaceEdit` and its helpers | called by a tool and by `ApplyEdit`, concurrently |
| registry: `registry.go`, `catalog.go`, `discovery.go`, `main.go`, `language_resolver.go` | specs, key indexes, active servers | built once at startup; lookups | config file, PATH, command line; tool handlers |
| workspace edit conversion: `workspace_edit.go`, `convert.go` | none | decoding of protocol unions; the way back for previews | feeds edit application |
| handlers, schemas, logging, flags: `pkg/mcp`, `main.go` | none | | MCP SDK |

What is hard in it, and what makes each part correct:

* **Sessions.** Many callers meet at one fresh session; starts fail half-way;
  servers crash; `Close` takes sessions that others are starting or waiting for;
  a dead session is replaced while it is still being cleaned up. Correct means: one spawn per
  session, one session in service per language whatever alias names it, nothing
  handed out before its start succeeded, a process left to nobody never, what
  `Close` took is finished when `Close` returns, and everybody returns.
* **Store.** A wakeup between the check and the wait; a publish between the
  wakeup and the lock; a reader that should wait for quiet. Correct means: it is
  indistinguishable from an atomic cache, and readers return.
* **Documents.** Calls synchronize one document with texts they read at
  different times, notifications fail, the connection is lost and the session
  replaced by one that may offer less, shutdown forgets documents while a call
  holds the session. Correct means: the map is what the server has, the wire is
  legal LSP and asks for what is offered, answers are not older than the sync of
  their call.
* **Diagnostics.** Publishes arrive late, for old versions or not at all, and the
  store outlives the server. Correct means: diagnostics returned are not older
  than the text the caller sent, and a lookup that changed the text is answered.
* **Policy.** One flag per session for calls that overlap. Correct means: the
  edits of a call are applied if and only if that call opted in.
* **Edits.** Positions in UTF-16 units, edits that shift each other, requests
  that fail in the middle, files that change in between, payloads that went
  through a preview. Correct means: the result of all edits at once, no torn
  files, an exact report, and a preview that asks for the same.
* **Registry.** Go maps are iterated in random order. Correct means: the
  outcome depends on the input only, and sources take precedence as documented.

The list with the line of each hazard, and the properties that would
catch it going wrong, is in `PROJECT.json`.

## Modules

| module | models | uses |
|---|---|---|
| `LanguageService` | what the manager promises: one start per server, one server per language, only started servers handed out | |
| `SessionManager` | `manager.go`, `session.go` | refines `LanguageService` |
| `SessionManager_proofs` | theorems on `SessionManager` | |
| `DiagnosticsCache` | what the store promises | |
| `DiagnosticsStore` | `store.go` | refines `DiagnosticsCache` |
| `DiagnosticsStore_proofs` | theorems on `DiagnosticsStore` | |
| `DocumentSync` | `tool_input.go` reading a file, `sync.go`, the requests that follow (`hover.go`, `formatting.go`, `code_action.go`, `code_lens.go`, `rename.go` ...) and `workspace_symbol.go`, the replacement of a lost session | |
| `DocumentSync_proofs` | theorems on `DocumentSync` | |
| `DiagnosticsLookup` | `diagnostics.go` and the dispatch of publishes | extends `DocumentSync`, instantiates `DiagnosticsCache` |
| `DiagnosticsLookup_proofs` | theorems on `DiagnosticsLookup` | |
| `ApplyPolicy` | `client.go`, `command.go` | |
| `ApplyPolicy_proofs` | theorems on `ApplyPolicy` | |
| `TextEdits` | `edit_apply.go` on one text | |
| `TextEdits_proofs` | theorems on `TextEdits` | |
| `EditApply` | `edit_apply.go` on the file system, `workspace_edit.go` in both directions | |
| `EditApply_proofs` | theorems on `EditApply` | |
| `LanguageRegistry` | `main.go`, `registry.go`, `catalog.go`, `discovery.go`, `language_resolver.go` | |
| `LanguageRegistry_proofs` | theorems on `LanguageRegistry` | |
| `MC*` | constants for TLC | |

**SessionManager.** Actors are goroutines in `Manager.session` (`pc`, `arg`),
goroutines in `Manager.Close` (`kpc`, `cur`, `todo`, `taken`), one watch
goroutine per session and the world. A session is an element of a pool; the size
of the pool is the one bound. Each section under the manager's lock is one
action (`SessionReuse`, `SessionCreate`, `CloseTake`); `start` is cut at every
call that can fail or block (`SpawnOk/Fails`, `InitializeOk/Fails`,
`InitializedOk/Fails`, then `FailStart`, `CloseConn`/`Teardown`, `Reap`). The world makes
processes exit, streams end or break, contexts end, and decides how a
server behaves: it answers, it never answers initialize ("mute"), or it leaves a
descendant that holds its stderr ("helper"), for which `cmd.Wait` waits because
`cmd.Stderr` is a writer and no `WaitDelay` is set. `Handshake` stands for
the closing of documents and shutdown/exit, whose outcome does not
matter to the session; `DocumentSync` has the former in detail.

**DiagnosticsStore.** Every section under the store's mutex is one action; time
is the flag `quiet`: the settle window has passed since the last publish.
A waiter inside `cond.Wait` is "parked"; a broadcast makes it "check", and it
competes for the lock. The refinement mapping hides timers, broadcasts and the
difference between "check" and "parked".

**DocumentSync.** Texts are numbered in the order they are saved. `wire` is what
is written and not yet read by the server, `srv` what the server has. Each path
through `syncTextDocument` is one action. A notification that fails
delivers nothing. The tools are a parameter: a call is bound to a session only
if the session advertises what its tool needs (`Bind`, `Refused`), the symbols
of the workspace are asked for without a sync, and the request that follows
(`Ask`) is that of the tool. Code actions and code lenses send further requests
to resolve the items of the answer (`Resolve`) without another sync; if one of
them fails, the call does (`AskFails`). So the items of one result may have been
resolved against a newer text than they were listed for; `AnswerSinceSync` says
they are not from an older one. `Lose` is the loss of a connection with the
replacement of the session: it has opened nothing, its server may advertise
something else. A call that holds the lost session can only fail (`Dropped`),
but for a lookup of pushed diagnostics with nothing left to write, which goes
on to wait in the store (`Stranded`). `Shutdown` follows closeOpenDocuments and
doShutdown: `TakeDocs`, one `CloseOne` per document, `ShutdownCall`, `ExitCall`,
`CloseConn`; each message may fail to be written. A message a call writes after
`TakeDocs` is marked `late`. The server takes nothing but exit after shutdown and
nothing at all after exit. What happens between docsMu being
released and the request being written is open to other calls: the answer may be
about the text of another call (definition.go:52-56), and the property says so.

**DiagnosticsLookup.** The server publishes for what it was sent (`due`), in
time or not, in the order of the versions or not, and may publish again for a
document it has (`ServerReconsiders`). The store takes what is dispatched without
comparing versions, and `Dispatch` takes any publish that is on its way, the
order being up to the server and to jsonrpc2. What a publish carries is a stamp,
the version counted on from one session to the next: diagnostics of a lost server
are older than those of its replacement, which writes to the same store. What a
lost server has written may still be dispatched (`Dispatch`) or not (`DropLost`).
Whether diagnostics are pushed or pulled is a capability of the session.
`calm`, `wrote` and `hurried` are history: nothing else
was under way for the document, the sync sent something, the deadline passed
while an answer was on its way or the server was lost.

**ApplyPolicy.** A call opens the policy if it opted in, sends its command if the
server advertises it (`RefuseCommand` otherwise), gets
an answer or a timeout (the server then goes on), and closes the policy for all. An
edit is asked for, admitted or refused under applyMu, and applied after it.
`disturbed` is history: calls that another overlapped.

**TextEdits.** Offsets count characters; line ends, carriage returns and
characters of two UTF-16 units are kept apart from the others. The request grows
by `AskEdit`; then positions are resolved on the original text, neighbours of
the sorted ranges compared, and the edits applied from the last to the first.

**EditApply.** Every call of package os that reads or changes a file is one
action, so two requests interleave as two goroutines do, and `Fail` can end a
request before any of them. A payload has a map of edits and a list of changes;
`Decode` puts them in the order in which they are applied, and a payload with a
part that cannot be decoded is refused as a whole (`RejectPayload`). What the
agent sends may be the preview a tool made of a server's payload: `Preview`
decodes and encodes it again, and `Begin` takes either; `meant` keeps what the
server asked for. A change for a version that the caller's `current` does not
have is refused (`Stale`) when its turn comes. A file is the set of edits it contains. The
program killed between two steps leaves the state in which it was, which is why
`EditsWhole` is required of every state. A directory is whole, or a `Remnant`: a
recursive removal that fails may have removed a part before it does
(`FailHalfway`). Directories are not looked into otherwise; permission bits are
left out.

**LanguageRegistry.** First the flags that choose a server (`ParseCLI`), then the
first of the four places that has a config file (`ReadConfig`); then one action
per loop iteration over a Go map, in any order. Words are normalized beforehand;
one of which nothing is left is `Blank`, which as a flag, as the name of a config
entry or as one of its keys stops the program (`RejectCLI`, `RejectEntry`). A
shebang line is the set of shebang words it contains.

## Runs

| run | question | instance |
|---|---|---|
| `sessions` | safety of the session manager, and that it implements `LanguageService` | 2 callers, 2 closers, 2 sessions, languages python (as "py" and "python") and go |
| `sessions_live` | does everybody return | 2 callers, 1 closer, 1 session, all three kinds of server |
| `store` | no lost wakeup, refinement of `DiagnosticsCache`, readers return | 2 readers, 1 document, 2 publishes, 2 contents |
| `docs` | map and server agree, legal wire, answers since the sync | 2 calls of code actions or symbols, 1 document, 1 save, 3 versions, 1 unread request, 1 lost session, two sets of capabilities |
| `lookup` | what diagnostics a lookup may return | 2 calls, 1 document, 1 save, 2 versions, 2 publishes, 1 lost server, push and pull |
| `lookup_unchanged` | violated: a lookup of an unchanged text is answered | 1 call |
| `policy` | overlapping and timed-out commands | 2 calls that opt in, 1 that does not, 3 edits |
| `policy_leak` | violated: only edits of calls that opted in are applied | the same |
| `text_edits` | every request of up to 3 edits on two texts | positions on 2 lines, 3 columns, 2 new texts |
| `text_order` | violated: inserts at one place keep their order | up to 2 edits |
| `edit_apply` | atomicity and reports of overlapping, failing, stale, previewed, undecodable requests | 2 requests of up to 2 changes, 2 paths, 2 versions |
| `registry` | flags, places of the config file, every small config with discovery and override | 10 command lines, up to 2 entries over 6 names, or 4 places |

Why the bounds are enough to show something:

* `sessions`: two callers are what it takes to race for a session, one to win
  `once.Do` and one to wait; two closers race for the map; with two sessions one
  can be replaced by the other for one language, or they serve two languages.
  Mute servers and helpers change who waits, not what is reached, and are in
  `sessions_live`.
* `store`: lost wakeups and stolen broadcasts need two readers and a publish that
  overtakes another. Documents do not share anything but the condition variable.
* `docs`, `lookup`: two calls, one of which read an older text; with one save and
  two calls the text on the server goes forth and, as the older one comes late,
  back again, which is an open and two changes, so three versions in `docs`. One
  loss lets a call hold the session before it, or meet the one after it, with
  what the other set of capabilities lacks. Two publishes in `lookup` are the one
  for an older text, which may come late or a second time, and the one a call
  waits for. Documents share nothing but the order of the wire, and the proofs
  cover any number of documents, calls, versions, unread requests, publishes and
  losses.
* `policy`: an overlap of three calls in any order, each asking for edits.
* `text_edits`: an overlap that is missed when the list is not sorted needs three edits. The
  texts have a wide character, a carriage return before and without a newline,
  and a last line without newline.
* `edit_apply`: two requests make every race of two file accesses; the second
  change of a request follows one that may have prepared or disturbed it, and
  can fail after the first was done. Versions are current, other, or not known;
  options are set, set to false, or left out.
* `registry`: conflicts are between two languages, so two entries besides the
  catalog show them all. Config files in several places are small: which one counts
  does not depend on what is in it.

Each property of a passing run is accompanied by a mutant in `PROJECT.json`: a
definition changed the way a plausible bug would change it, with which TLC finds
the property violated. They are marked "(mutant)" where they are defined.
Runs with `CHECK_DEADLOCK FALSE` model calls or requests that are over at some
point and leave nothing to do; the others are checked for deadlock.

### What the runs show

* **Sessions.** `SpawnOnce`, `OneInService`, `FailedStartReaped`,
  `StoreFollowsLanguage`, `CloseLeavesNothing` and the refinement hold.
  `OwnedUnlessLost` says that a process that was not waited for is owned by the
  map, a call or a Close, with the exception the code has: a session that died after its
  start is dropped without waiting for its process. `StartAttended` says that whoever
  waits on ready, Close included, waits for a call that runs the start or is bound
  to: one whose context ends leaves at the select, never before `once.Do`. `CallReturns` and
  `CloseReturns` hold with the exception `Withheld`: a server that does not answer
  initialize holds up everybody in `once.Do` and in `doShutdown`, and one whose
  descendant keeps stderr open holds up `cmd.Wait`.
* **Store.** It implements the abstract cache, and readers return once their
  document was published and is quiet, or their context is done.
* **Documents.** `ServerFollows`, `AnswerSinceSync` hold, over the replacement of
  a session too. `WireLegal` says of every message a call wrote before shutdown
  took the documents, and of those shutdown writes, that the protocol allows it
  when the server comes to it, with nothing but exit behind shutdown and nothing
  behind exit; and of every request, later ones included, that the session offers
  what it asks for. What calls write later is the exception, for all the rules but
  this: such a message is in no order with the didCloses, shutdown and exit, and may
  open a document again, ask about one that was closed, or come after shutdown.
* **Diagnostics.** A lookup that nothing disturbs returns diagnostics at least
  as new as its sync (`FreshIfCalm`), one that changed the text is answered if
  the server publishes in time and is not lost (`ChangeAnswered`). As new means of
  no older version: a call that read the file earlier can put its text on the
  server under a higher one (tool_input.go:32), and the lookup returns what is
  found for that. `LookupAnswered` is **violated**: for an unchanged text
  nothing is sent, so nothing is published, and the lookup waits for its deadline
  and fails although current diagnostics are cached.
* **Policy.** For calls that do not overlap it does what they said
  (`AloneOnlyOptedIn`, `AloneAllowed`), and it never stays open (`ClosedBehind`).
  `OnlyOptedIn` is **violated**: while one call with applyEdits runs, edits of
  the others pass too.
* **Text edits.** Positions are exact and overlaps are found; the result is that
  of all edits at once, except that inserts at one place come out reversed:
  `AppliedInOrder` is **violated**. `AppliedBackwards` says exactly what comes out,
  whatever shares a place: the request read from its last edit to its first, all at
  once. That without inserts at one place the order does not matter
  (`AppliedAtOnce`) follows from it and has no run of its own.
* **Edit application.** No file ever holds part of a change. A request that no
  other overlaps and that is reported applied has had the effect of all its
  changes, each of them permitted: under the root, of a kind the caller allows,
  for the version the caller has. One that failed has had that of the changes in
  front of the one it names, all of them permitted; of that one nothing, unless it
  was permitted: then the destination of a rename may be gone, or a directory that
  was to be removed be there in part. Of requests that overlap only `EditsWhole`
  says something. A payload that
  cannot be decoded as a whole has no effect, and one that went through a preview
  has the effect it would have had without it.
* **Registry.** The outcome does not depend on map order, files in places that do
  not count do not matter, even broken ones, blank words stop the program, and the
  longest shebang wins.

### Other disagreements met while modelling

No run is kept for these; the models contain the behaviour, and the properties
above are stated with it as an exception.

* A caller whose context ends is not released while it is in `once.Do`
  (manager.go:110), against the comment at manager.go:94-95.
* A server whose connection is lost after its start is neither waited for nor
  killed when it is replaced (session.go:214), against the reason given at
  session.go:185-190 for reaping failed starts.
* `Close` waits without bound for ready (session.go:232) and after the kill
  (session.go:278), and calls `cmd.Wait` a second time for a session whose start
  failed (session.go:257), whose error it reports.
* `broadcastAll` on the death of a connection wakes readers that find no publish
  and park again (store.go:158), against store.go:118-120 and 167-169.
* The baseline tells publishes that have arrived from later ones, not publishes
  for older versions from those for the current one: the publish for a lookup that
  timed out may arrive after the baseline of the next one, which takes it for its
  answer, against store.go:102-104. This is why `FreshIfCalm` asks for calm.
* A call that holds the session when `closeOpenDocuments` forgets its documents
  opens its document again, perhaps before the didClose, against "send didOpen once
  per document URI" (sync.go:35 and 76-77).
* A pull request has no deadline of its own (diagnostics.go:93 and 43-45).
* A call that read a file before it was saved can put the old text back on the
  server after a call that read the new one (tool_input.go:32).
* The first of two opted-in commands to return closes the policy for the other
  (client.go:122), and an edit admitted before a timeout is applied after the
  call returned (client.go:100).
* A rename onto itself with overwrite removes the file (edit_apply.go:493). Two
  requests for one file can lose the edits of one, and a file deleted while it is
  edited comes back (edit_apply.go:174-184).
* `CurrentVersions` is documented to matter "when non-empty" (edit_apply.go:49);
  the code asks whether it is nil (edit_apply.go:165).

## Fairness

`FairSpec` of SessionManager: goroutines inside `session`, `Close` and `watch`
run (weak fairness of their steps; the Go scheduler), a stream ends when its
process has, and a process that was killed exits. A
server is not assumed to answer or to exit otherwise, and no caller's
context is assumed to end; a started handshake or wait is ended by its timeout,
which is a step of the goroutine. `StoreFairSpec`: the readers'
goroutines run, the settle window passes, timers and `AfterFunc`s go off, and
`watch` broadcasts; nobody is assumed to publish, to cancel or to die. All of it
is weak fairness of steps that stay enabled until they are taken.

## Proofs

Of the properties the passing runs check, the theorems state all invariants, the
action properties and the refinements, for every value of the constants: any number of callers, sessions, languages, documents, readers,
versions, lost servers, edits, requests, files, catalogs and configs. The
assumptions are the `ASSUME`s of the modules, which TLC evaluates in every run.
None of the invariants is inductive as it stands; each proof module has the
strengthening, a lemma for the initial states and one per part for a step, with
one case per action. TLC was used to check each strengthening first.

**SessionManager_proofs.** `IInv == TypeOK /\ StartInv /\ ServiceInv /\ CloseInv
/\ StoreInv`:

* `StartInv` ties a session's once, ready, error, process and connection to the
  program counter of the one caller that runs its start. Without it nothing says
  that a second caller cannot be starting the same session.
* `ServiceInv` ties the map to the sessions: what is in it was created for that
  language, is not taken by a Close, and is the only one that is not dead.
* `CloseInv` ties a closer's cursor to what it took, and what it has passed to
  being finished.
* `StoreInv` says where a session's store came from, as long as nobody closes.

From it follow `UserSeesStarted`, `FailedStartReaped`, `OneInService`,
`ClosesDisjoint`, `ShutdownAfterStart`, `CloseLeavesNothing`,
`StoreFollowsLanguage` and `SpawnOnce`. `OwnedUnlessLost` needs one thing more,
`StarterInv`: a start that is running is run by somebody. `StartAttended` adds
`AskedInv`: a session whose start has not begun has a caller on its way to begin
it. The refinement
`Spec => ServiceSpec` goes step by step: a step of a caller, of
`Manager.session`, of a closer or of the world maps to one of `LanguageService`
or to a stutter; the invariant is needed to know that the session a caller
starts is the one it is mapped to.

**DiagnosticsStore_proofs.** `StoreTypeOK`, `NoLostWakeup` (with the
strengthening that a waiter's context is watched as long as it waits) and the
refinement of `DiagnosticsCache`.

**DocumentSync_proofs.** What is on the wire decides what the server will have.
The lemmas about `Has` say what writing a message at the end and reading one at
the front do to that, so that no step has to look at the wire as a whole. On
them: `SyncTypeOK`; `ServerFollows`, which is inductive given the types;
`AnswerSinceSync` from `WaitInv` (a call waits for one request, about its
document) and `SinceInv` (whatever the server will have when it reads the
request is not older than the sync); `WireLegal` from `StopInv` (shutdown and exit
are not on the wire before shutdown has come to them, and what is not late is in
order with them), `CallInv` (a call that holds the session was let through by its
capabilities and has its document open) and `LegalInv` (what shutdown has still to
close is open; what is not late is legal).

**DiagnosticsLookup_proofs.** Every behaviour of `DiagnosticsLookup` is one of
`DocumentSync` (`LookupImplementsSync`), so the theorems above hold here, and one
of `DiagnosticsCache` (`LookupUsesCache`), which the store implements. The rest
is about what is on its way from a text to its publish, as a notification, an
analysis or a publish, whatever order the last arrive in. `AnswerInv`: a call that
wrote a text has something on its way, or an answer already, until the deadline or
a loss; hence `ChangeAnswered`. `FreshInv`: before its sync a call nothing disturbs
has everything about its document behind it, and after it everything on its way is
at least as new as the sync; hence `FreshIfCalm`.

**ApplyPolicy_proofs.** `ClosedBehind`, `AloneOnlyOptedIn`, `AloneAllowed`. Of two
calls that are live at once both are disturbed (`Overlap`), an edit without
answer belongs to a command that still runs (`UnansweredRuns`), an admitted one
of an undisturbed call to one that opted in (`AdmittedRightly`), and the policy
is open while such a call is (`OpenWhileAlone`).

**TextEdits_proofs.** `RefusedRightly`: comparing neighbours in the sorted list
finds every clash, because of the edits behind the first of two that clash a
least one exists, and it clashes with that too. `EditTypeOK`, whose point is that
every cut is inside the text that has been patched so far: `LoopInv` says that
what is still to be applied lies in front of what was. `PositionsExact`: offsets
on one line are those with no newline in between (`SameLine`), those up to the
end of the line are the ones that are not cut off (`LineEndExact`), and the
offsets on earlier lines are as many as the line's start is far
(`OffsetsBefore`).

`AppliedBackwards` describes the result as the pieces that stand at each offset:
what is inserted there, what replaces something there, the character if it is
kept; `Upto(c)` is what stands in front of c. The invariant (`OnceInv`, by
`Joined`) is that there is at each step an offset c behind everything still to do
such that the text is the document up to c followed by X, and that the result is
`Upto(c)`, what the remaining inserts put at c, and X. An edit that ends at c moves c
to its start, or leaves it there and takes its turn among what is still due at c
(`Due`), where the first edit of the request comes last (`DueLast`); an edit that
lies further in front first moves c over characters no edit touches (`Behind`).
At the end nothing is due and the two are one text (`JoinedEnd`). What a
concatenation of n pieces is for every n is shown by the least counterexample
(`FlatStep`, `FlattenLast`). `AppliedAtOnce` is a corollary: without
inserts at one place, reading the request backwards changes nothing
(`NoDirection`).

**EditApply_proofs.** `ApplyTypeOK` needs `InPlace`: an applier's cursor is at a
change of its request of the kind its place in the code is for, which is permitted
as those in front of it are. `EditsWhole`:
every text in the program's hands, read, written to a temporary file or
installed, has all edits of a change or none (`WholeInv`). `AppliedAsAsked` and
`FailedAtPrefix`: the files are at each step what the changes so far have made
of them, but for a rename's destination (`EffectInv`, `Progress`); what a failing
removal leaves is `Leaves`. The function
that applies changes one after the other is recursive; its value is tied to a
`Run` of it, which exists and is unique by the argument of the least
counterexample. `PreviewAsksTheSame`: decoding, encoding and decoding again is
decoding.

**LanguageRegistry_proofs.** The invariant says at each stage that specs, servers
and index are those the input asks for, restricted to what the stage's loop has
taken (`TakenFrom`, `ServedFor`, `IndexedFor`); the order does not occur in it.
From it: each of the four ways to stop has its contradiction (`SecondEntry`,
`SharedKey`, `NoCommand`, `BrokenFile`) and who gets to the end has none, which
is `RejectedIffContradictory`; `Precedence`; `ResolvesToDeclared`.

Only model-checked:

* Liveness: `CallReturns`, `CloseReturns`, `PublishedReturns`, `CanceledReturns`.
  Fairness and ENABLED are outside what the prover handles.
* The three properties the code violates.

## Assumptions and what is left out

* jsonrpc2 and the OS are external: a call into them succeeds, fails or blocks as
  the models say; a notification that fails has delivered nothing. Nothing is
  assumed of the order in which publishes are dispatched; what a connection had
  not dispatched when it was lost comes later or never.
* `closeOpenDocuments` waiting for docsMu behind a write that blocks is not
  modelled: whether a write blocks, and whether its context ends it, is decided
  in jsonrpc2.
* `DiagnosticsLookup` does not start a shutdown.
* Versions are int32 in the protocol; their overflow takes 2^31 changes of one
  document in one session and is out of reach of the models, which bound them.
* `EditApply` assumes of the payloads that decoding yields changes of the kinds
  the module knows (`RequestAssumption`): TLC evaluates it, the prover cannot
  look into `SelectSeq`. Ranges and annotations of a payload and the difference
  between a file URI and a strictly valid one are left out.
* Saving a file between the answer of a server and the application of its edit is
  modelled only as versions that do not match: without a version in the payload
  the code applies the edit to whatever is there.
* The conversion of answers (locations, symbols, hover text, `convert.go`),
  schemas, logging, the flags that do not choose a server, the values of server
  arguments and LSP language IDs are left out: they keep no state.
* `LanguageRegistry` takes words as normalized; that names, extensions and
  shebangs cannot be mistaken for each other is an assumption of the module.
* The test harness under `tests/` and integration tests are not modelled.

## Plan

1. `DocumentSync` with the start and end of a session from `SessionManager` as one
   composition: `Lose` and shutdown are abstracted there to one step each, and
   the theorem that joins them would say which session's map a late call writes.
2. The path of an edit from the request to the files: `DocumentSync` and
   `EditApply` composed, with the text an edit was computed for.
3. Positions between handlers and servers (one-based and zero-based) with the
   conversion of answers, as operators.
