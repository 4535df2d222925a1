---------------------------- MODULE DocumentSync ----------------------------
(***************************************************************************)
(* Text documents of the session of one server: a tool call reads the file *)
(* from disk (readInputFile), takes the session if it advertises what the  *)
(* tool needs, brings the server up to date under docsMu                   *)
(* (syncTextDocument, pkg/lsp/sync.go) and sends a request (hover.go,      *)
(* definition.go, formatting.go ...), and more of them to resolve the      *)
(* items of the answer (code_action.go, code_lens.go).  Shutdown forgets   *)
(* the documents under docsMu and closes them one by one without it        *)
(* (closeOpenDocuments), writes shutdown and exit and closes the           *)
(* connection; it does not wait for the calls that hold the session.  A    *)
(* session whose connection is lost is replaced by a new one, which may    *)
(* advertise other capabilities (session.go).                              *)
(*                                                                         *)
(* The contents of a file are numbered in the order they are saved.  The   *)
(* server reads what the session writes in order.  docsMu is held while    *)
(* didOpen or didChange is written and the map updated, and a request of   *)
(* another call written in between commutes with the update, so each path  *)
(* through syncTextDocument is one action.                                 *)
(***************************************************************************)
EXTENDS Naturals, FiniteSets, Sequences

CONSTANTS
  Callers,         \* goroutines of tool calls
  Uris,
  Tools,           \* the tools they call
  Advertisements,  \* sets of capabilities a server may advertise
  MaxEdits,        \* bound: saves of one file
  MaxVersion,      \* bound: versions of one document
  MaxAsked,        \* bound: requests the server has not read yet
  MaxLosses        \* bound: sessions that lose their connection

Gated == {"hover", "implementation", "codeAction", "codeLens", "formatting",
          "rangeFormatting", "rename", "workspaceSymbol"}
Resolvable == {"codeAction", "codeLens"}
Capabilities == Gated \cup {"pullDiagnostics", "codeActionResolve", "codeLensResolve"}

ASSUME BoundsAssumption ==
  /\ MaxEdits \in Nat /\ MaxVersion \in Nat \ {0} /\ MaxAsked \in Nat \ {0} /\ MaxLosses \in Nat
  /\ Tools \subseteq Gated \cup {"definition", "diagnostics"}
  /\ Advertisements \subseteq SUBSET Capabilities

\* What the tool checks before it synchronizes, what its request takes, and what
\* it checks before it resolves an item.
Gate(t) == {t} \cap Gated
Takes(t) == IF t = "diagnostics" THEN {"pullDiagnostics"} ELSE Gate(t)
Resolves(t) == IF t = "codeAction" THEN {"codeActionResolve"} ELSE {"codeLensResolve"}

VARIABLES
  disk,      \* the contents of each file
  caps,      \* capabilities of the session
  openDocs,  \* serverSession.openDocs
  pc,        \* where a call stands
  tool,      \* its tool
  curi,      \* its document
  ctext,     \* the contents it read
  cver,      \* the version of the document when its sync returned
  answer,    \* the server's copy of the document when it answered the call
  wire,      \* messages written and not yet read by the server
  srv,       \* the documents as the server has them
  closing,   \* "no", "sending" (closeOpenDocuments), then what has been tried:
             \* "shut" (Shutdown), "sent" (Exit), "closed" (conn.Close)
  pending,   \* documents closeOpenDocuments has still to close
  heard,     \* of shutdown and exit, what the server has read
  losses     \* sessions that lost their connection

callVars == <<pc, tool, curi, ctext, cver, answer>>
shutVars == <<closing, pending, heard>>
syncVars == <<disk, caps, openDocs, callVars, wire, srv, shutVars, losses>>

Absent == [version |-> 0, text |-> 0]
Doc(v, t) == [version |-> v, text |-> t]
Docs == {Absent} \cup [version : 1..MaxVersion, text : 0..MaxEdits]

\* waits: the call that waits for the answer, if it still does; needs: what the
\* server must have advertised; late: a call wrote it after shutdown had taken the
\* documents.
Syncs == {"didOpen", "didChange", "didClose"}
Stops == {"shutdown", "exit"}
Messages ==
  [kind : Syncs \cup {"request"}, uri : Uris, doc : Docs, waits : SUBSET Callers,
   needs : SUBSET Capabilities, late : BOOLEAN]
    \cup [kind : Stops, uri : {"none"}, doc : {Absent}, waits : {{}}, needs : {{}}, late : {FALSE}]
Late == closing # "no"
Notify(k, u, d, l) == [kind |-> k, uri |-> u, doc |-> d, waits |-> {}, needs |-> {}, late |-> l]
DidOpen(u, t) == Notify("didOpen", u, Doc(1, t), Late)
DidChange(u, v, t) == Notify("didChange", u, Doc(v, t), Late)
DidClose(u) == Notify("didClose", u, Absent, FALSE)
Stop(k) == Notify(k, "none", Absent, FALSE)
Request(u, c, needs) ==
  [kind |-> "request", uri |-> u, doc |-> Absent, waits |-> {c}, needs |-> needs, late |-> Late]

SyncTypeOK ==
  /\ disk \in [Uris -> 0..MaxEdits]
  /\ caps \in SUBSET Capabilities
  /\ openDocs \in [Uris -> Docs]
  /\ pc \in [Callers -> {"idle", "read", "bound", "synced", "asked", "answered", "stranded", "lost"}]
  /\ tool \in [Callers -> Tools \cup {"none"}]
  /\ curi \in [Callers -> Uris]
  /\ ctext \in [Callers -> 0..MaxEdits]
  /\ cver \in [Callers -> 0..MaxVersion]
  /\ answer \in [Callers -> Docs]
  /\ wire \in Seq(Messages)
  /\ srv \in [Uris -> Docs]
  /\ closing \in {"no", "sending", "shut", "sent", "closed"}
  /\ pending \in SUBSET Uris
  /\ heard \in SUBSET Stops
  /\ losses \in 0..MaxLosses

SyncInit ==
  /\ disk = [u \in Uris |-> 0]
  /\ caps \in Advertisements
  /\ openDocs = [u \in Uris |-> Absent]
  /\ pc = [c \in Callers |-> "idle"]
  /\ tool = [c \in Callers |-> "none"]
  /\ curi \in [Callers -> Uris]
  /\ ctext = [c \in Callers |-> 0]
  /\ cver = [c \in Callers |-> 0]
  /\ answer = [c \in Callers |-> Absent]
  /\ wire = <<>>
  /\ srv = [u \in Uris |-> Absent]
  /\ closing = "no"
  /\ pending = {}
  /\ heard = {}
  /\ losses = 0

-----------------------------------------------------------------------------
\* The agent or the user saves the file.
Save(u) ==
  /\ disk[u] < MaxEdits
  /\ disk' = [disk EXCEPT ![u] = @ + 1]
  /\ UNCHANGED <<caps, openDocs, callVars, wire, srv, shutVars, losses>>

\* readInputFile, before the session is looked up and docsMu taken.  (The query
\* of the workspace symbols takes no file; what it reads is not used.)
Read(c, u, t) ==
  /\ pc[c] = "idle"
  /\ pc' = [pc EXCEPT ![c] = "read"]
  /\ tool' = [tool EXCEPT ![c] = t]
  /\ curi' = [curi EXCEPT ![c] = u]
  /\ ctext' = [ctext EXCEPT ![c] = disk[u]]
  /\ UNCHANGED <<disk, caps, openDocs, cver, answer, wire, srv, shutVars, losses>>

\* (mutant) What the server advertises is not looked at.
BindAny(c) ==
  /\ pc[c] = "read"
  /\ closing = "no"
  /\ pc' = [pc EXCEPT ![c] = IF tool[c] = "workspaceSymbol" THEN "synced" ELSE "bound"]
  /\ UNCHANGED <<disk, caps, openDocs, tool, curi, ctext, cver, answer, wire, srv, shutVars, losses>>

\* The manager hands out the session, until it is closed, and the session
\* advertises what the tool needs; workspace/symbol is about no document.
Bind(c) ==
  /\ pc[c] = "read"
  /\ closing = "no"
  /\ Gate(tool[c]) \subseteq caps
  /\ pc' = [pc EXCEPT ![c] = IF tool[c] = "workspaceSymbol" THEN "synced" ELSE "bound"]
  /\ UNCHANGED <<disk, caps, openDocs, tool, curi, ctext, cver, answer, wire, srv, shutVars, losses>>

\* The call returns.
End(c) ==
  /\ pc' = [pc EXCEPT ![c] = "idle"]
  /\ tool' = [tool EXCEPT ![c] = "none"]
  /\ ctext' = [ctext EXCEPT ![c] = 0]
  /\ cver' = [cver EXCEPT ![c] = 0]
  /\ answer' = [answer EXCEPT ![c] = Absent]
  /\ UNCHANGED <<disk, caps, curi, srv, shutVars, losses>>

\* No session can be had, or not one that advertises it.
Refused(c) ==
  /\ pc[c] = "read"
  /\ End(c)
  /\ UNCHANGED <<openDocs, wire>>

Known(u) == openDocs[u] # Absent

\* The connection takes a message until it is closed.
Write(m) == closing # "closed" /\ wire' = Append(wire, m)

\* syncTextDocument has brought the document to version v.
Synced(c, v) ==
  /\ pc' = [pc EXCEPT ![c] = "synced"]
  /\ cver' = [cver EXCEPT ![c] = v]
  /\ UNCHANGED <<disk, caps, tool, curi, ctext, answer, srv, shutVars, losses>>

\* (mutant) The map is not updated.
SyncOpenForgets(c) ==
  /\ pc[c] = "bound"
  /\ ~Known(curi[c])
  /\ Write(DidOpen(curi[c], ctext[c]))
  /\ UNCHANGED openDocs
  /\ Synced(c, 1)

\* syncTextDocument of a document the session has not opened yet.
SyncOpen(c) ==
  /\ pc[c] = "bound"
  /\ ~Known(curi[c])
  /\ Write(DidOpen(curi[c], ctext[c]))
  /\ openDocs' = [openDocs EXCEPT ![curi[c]] = Doc(1, ctext[c])]
  /\ Synced(c, 1)

\* The server has this very text already: nothing is written.
SyncUnchanged(c) ==
  /\ pc[c] = "bound"
  /\ Known(curi[c])
  /\ openDocs[curi[c]].text = ctext[c]
  /\ UNCHANGED <<openDocs, wire>>
  /\ Synced(c, openDocs[curi[c]].version)

Changed(c) == Known(curi[c]) /\ openDocs[curi[c]].text # ctext[c]
NextVersion(c) == openDocs[curi[c]].version + 1

\* (mutant) The version the session remembers stays behind.
SyncChangeSameVersion(c) ==
  /\ pc[c] = "bound"
  /\ Changed(c) /\ NextVersion(c) <= MaxVersion
  /\ Write(DidChange(curi[c], NextVersion(c), ctext[c]))
  /\ openDocs' = [openDocs EXCEPT ![curi[c]].text = ctext[c]]
  /\ Synced(c, NextVersion(c))

\* (mutant) The map is updated without waiting for the write to succeed.
SyncChangeUnsent(c) ==
  /\ pc[c] = "bound"
  /\ Changed(c) /\ NextVersion(c) <= MaxVersion
  /\ Write(DidChange(curi[c], NextVersion(c), ctext[c])) \/ UNCHANGED wire
  /\ openDocs' = [openDocs EXCEPT ![curi[c]] = Doc(NextVersion(c), ctext[c])]
  /\ Synced(c, NextVersion(c))

\* Another text: a full replacement with the next version.
SyncChange(c) ==
  /\ pc[c] = "bound"
  /\ Changed(c) /\ NextVersion(c) <= MaxVersion
  /\ Write(DidChange(curi[c], NextVersion(c), ctext[c]))
  /\ openDocs' = [openDocs EXCEPT ![curi[c]] = Doc(NextVersion(c), ctext[c])]
  /\ Synced(c, NextVersion(c))

\* (mutant) The text is recorded before the notification is written.
SyncFailsRecorded(c) ==
  /\ pc[c] = "bound"
  /\ ~Known(curi[c]) \/ Changed(c)
  /\ openDocs' = [openDocs EXCEPT ![curi[c]].text = ctext[c]]
  /\ End(c)
  /\ UNCHANGED wire

\* The notification cannot be written: the call fails, nothing is recorded.
SyncFails(c) ==
  /\ pc[c] = "bound"
  /\ ~Known(curi[c]) \/ Changed(c)
  /\ End(c)
  /\ UNCHANGED <<openDocs, wire>>

Sync(c) == SyncOpen(c) \/ SyncUnchanged(c) \/ SyncChange(c) \/ SyncFails(c)

\* A request is written; the call waits for its answer.
Send(c, needs) ==
  /\ Cardinality({i \in DOMAIN wire : wire[i].kind = "request"}) < MaxAsked
  /\ Write(Request(curi[c], c, needs))
  /\ pc' = [pc EXCEPT ![c] = "asked"]
  /\ UNCHANGED <<disk, caps, openDocs, tool, curi, ctext, cver, answer, srv, shutVars, losses>>

\* The request of the tool (hover, definition, formatting ...); diagnostics are
\* pulled only if the server offers it.
Ask(c) ==
  /\ pc[c] = "synced"
  /\ tool[c] = "diagnostics" => "pullDiagnostics" \in caps
  /\ Send(c, Takes(tool[c]))

\* (mutant) Items are resolved whatever the server advertises.
ResolveUnasked(c) == pc[c] = "answered" /\ tool[c] \in Resolvable /\ Send(c, Resolves(tool[c]))

\* codeAction/resolve or codeLens/resolve of the next item, if the caller wants it
\* and the server offers it; the document is not synchronized again.
Resolve(c) ==
  /\ pc[c] = "answered"
  /\ tool[c] \in Resolvable
  /\ Resolves(tool[c]) \subseteq caps
  /\ Send(c, Resolves(tool[c]))

\* Every item is converted, and the result returned.
Return(c) ==
  /\ pc[c] = "answered"
  /\ End(c)
  /\ UNCHANGED <<openDocs, wire>>

\* The request, or one that resolves an item, fails or the call is canceled: the
\* whole call fails, and the answer, if one comes, is dropped.  (A lookup of pushed
\* diagnostics returns from here, having asked nothing, see DiagnosticsLookup.)
AskFails(c) ==
  /\ pc[c] \in {"synced", "asked", "stranded", "lost"}
  /\ wire' = [i \in DOMAIN wire |-> [wire[i] EXCEPT !.waits = @ \ {c}]]
  /\ End(c)
  /\ UNCHANGED openDocs

\* The server reads a synchronization message ...
ServerSyncs ==
  /\ wire # <<>>
  /\ Head(wire).kind \in Syncs /\ heard = {}
  /\ wire' = Tail(wire)
  /\ srv' = [srv EXCEPT ![Head(wire).uri] = Head(wire).doc]
  /\ UNCHANGED <<disk, caps, openDocs, callVars, shutVars, losses>>

\* ... or answers a request from the document as it has it ...
ServerAnswers ==
  /\ wire # <<>>
  /\ Head(wire).kind = "request" /\ heard = {}
  /\ wire' = Tail(wire)
  /\ pc' = [c \in Callers |-> IF c \in Head(wire).waits THEN "answered" ELSE pc[c]]
  /\ answer' = [c \in Callers |-> IF c \in Head(wire).waits THEN srv[Head(wire).uri] ELSE answer[c]]
  /\ UNCHANGED <<disk, caps, openDocs, tool, curi, ctext, cver, srv, shutVars, losses>>

\* ... or shutdown or exit.
ServerStops ==
  /\ wire # <<>>
  /\ Head(wire).kind \in Stops /\ "exit" \notin heard
  /\ wire' = Tail(wire)
  /\ heard' = heard \cup {Head(wire).kind}
  /\ UNCHANGED <<disk, caps, openDocs, callVars, srv, closing, pending, losses>>

\* After shutdown it takes nothing but exit: a request is an error to its call.
ServerRefuses ==
  /\ wire # <<>>
  /\ Head(wire).kind \notin Stops /\ heard = {"shutdown"}
  /\ wire' = Tail(wire)
  /\ UNCHANGED <<disk, caps, openDocs, callVars, srv, shutVars, losses>>

\* Calls that hold the lost session.  A lookup of pushed diagnostics goes on to wait
\* if nothing is left for it to write, any other call can only fail.
NeedsNoWrite(c) == pc[c] = "bound" /\ Known(curi[c]) /\ openDocs[curi[c]].text = ctext[c]
Stranded == {c \in Callers : /\ tool[c] = "diagnostics" /\ "pullDiagnostics" \notin caps
                             /\ pc[c] = "synced" \/ NeedsNoWrite(c)
                           \/ pc[c] = "stranded"}
Dropped == {c \in Callers : pc[c] \notin {"idle", "read"}} \ Stranded

\* (mutant) The replacement starts from the map of the session it replaces.
LoseKeepsDocs ==
  /\ closing = "no"
  /\ losses < MaxLosses
  /\ losses' = losses + 1
  /\ caps' \in Advertisements
  /\ wire' = <<>>
  /\ srv' = [u \in Uris |-> Absent]
  /\ pc' = [c \in Callers |-> IF c \in Stranded THEN "stranded" ELSE IF c \in Dropped THEN "lost" ELSE pc[c]]
  /\ ctext' = [c \in Callers |-> IF c \in Dropped \cup Stranded THEN 0 ELSE ctext[c]]
  /\ cver' = [c \in Callers |-> IF c \in Dropped \cup Stranded THEN 0 ELSE cver[c]]
  /\ answer' = [c \in Callers |-> IF c \in Dropped \cup Stranded THEN Absent ELSE answer[c]]
  /\ UNCHANGED <<disk, openDocs, tool, curi, shutVars>>

\* The connection is lost and the session replaced: the new one has opened
\* nothing and runs another server.
Lose ==
  /\ closing = "no"
  /\ losses < MaxLosses
  /\ losses' = losses + 1
  /\ caps' \in Advertisements
  /\ openDocs' = [u \in Uris |-> Absent]
  /\ wire' = <<>>
  /\ srv' = [u \in Uris |-> Absent]
  /\ pc' = [c \in Callers |-> IF c \in Stranded THEN "stranded" ELSE IF c \in Dropped THEN "lost" ELSE pc[c]]
  /\ ctext' = [c \in Callers |-> IF c \in Dropped \cup Stranded THEN 0 ELSE ctext[c]]
  /\ cver' = [c \in Callers |-> IF c \in Dropped \cup Stranded THEN 0 ELSE cver[c]]
  /\ answer' = [c \in Callers |-> IF c \in Dropped \cup Stranded THEN Absent ELSE answer[c]]
  /\ UNCHANGED <<disk, tool, curi, shutVars>>

\* closeOpenDocuments, under docsMu: list the documents and forget them.
TakeDocs ==
  /\ closing = "no"
  /\ closing' = "sending"
  /\ pending' = {u \in Uris : Known(u)}
  /\ openDocs' = [u \in Uris |-> Absent]
  /\ UNCHANGED <<disk, caps, callVars, wire, srv, heard, losses>>

\* One didClose, without docsMu; an error is only logged.
CloseOne(u) ==
  /\ closing = "sending"
  /\ u \in pending
  /\ pending' = pending \ {u}
  /\ Write(DidClose(u)) \/ UNCHANGED wire
  /\ UNCHANGED <<disk, caps, openDocs, callVars, srv, closing, heard, losses>>

\* (mutant) The shutdown request does not wait for the didCloses.
ShutdownCallFirst ==
  /\ closing = "sending"
  /\ closing' \in {"sending", "shut"}
  /\ Write(Stop("shutdown")) \/ UNCHANGED wire
  /\ UNCHANGED <<disk, caps, openDocs, callVars, srv, pending, heard, losses>>

\* All are closed: the shutdown request is answered, or fails, which is only logged ...
ShutdownCall ==
  /\ closing = "sending"
  /\ pending = {}
  /\ closing' = "shut"
  /\ Write(Stop("shutdown")) \/ UNCHANGED wire
  /\ UNCHANGED <<disk, caps, openDocs, callVars, srv, pending, heard, losses>>

\* ... and so may exit.
ExitCall ==
  /\ closing = "shut"
  /\ closing' = "sent"
  /\ Write(Stop("exit")) \/ UNCHANGED wire
  /\ UNCHANGED <<disk, caps, openDocs, callVars, srv, pending, heard, losses>>

CloseConn ==
  /\ closing = "sent"
  /\ closing' = "closed"
  /\ UNCHANGED <<disk, caps, openDocs, callVars, wire, srv, pending, heard, losses>>

-----------------------------------------------------------------------------
Call(c) ==
  \/ \E u \in Uris, t \in Tools : Read(c, u, t)
  \/ Bind(c) \/ Refused(c) \/ Sync(c)
  \/ Ask(c) \/ AskFails(c) \/ Resolve(c) \/ Return(c)
Server == ServerSyncs \/ ServerAnswers \/ ServerStops \/ ServerRefuses
Shutdown == TakeDocs \/ ShutdownCall \/ ExitCall \/ CloseConn \/ \E u \in Uris : CloseOne(u)

SyncNext ==
  \/ \E u \in Uris : Save(u)
  \/ \E c \in Callers : Call(c)
  \/ Server
  \/ Lose
  \/ Shutdown

SyncSpec == SyncInit /\ [][SyncNext]_syncVars

-----------------------------------------------------------------------------
About(u) == {i \in DOMAIN wire : wire[i].uri = u /\ wire[i].kind \in Syncs}

\* Once it has read the messages before i, the server has d of u.
WillHave(u, i, d) ==
  \/ (\A j \in About(u) : j >= i) /\ d = srv[u]
  \/ \E j \in About(u) : j < i /\ (\A k \in About(u) : k < i => k <= j) /\ d = wire[j].doc

\* Until shutdown, openDocs is what the server has or will have once it has
\* read everything written: a sync that compares texts and counts versions
\* against openDocs does so against the server's own copy, whatever calls
\* interleave, whichever notifications failed, and after a replacement of the
\* session too (sync.go:48-66, session.go:179).
ServerFollows ==
  closing = "no" => \A u \in Uris : WillHave(u, Len(wire) + 1, openDocs[u])

\* When it comes to message i, the server has read a k.
WillHaveHeard(i, k) == k \in heard \/ \E j \in DOMAIN wire : j < i /\ wire[j].kind = k

\* Nothing follows exit, and only exit follows shutdown.
InOrder(i) ==
  /\ ~WillHaveHeard(i, "exit")
  /\ wire[i].kind # "exit" => ~WillHaveHeard(i, "shutdown")

\* A message the protocol allows where the server has d of its document.
Legal(m, d) ==
  \/ m.kind = "request" /\ (d # Absent \/ m.needs = {"workspaceSymbol"})
  \/ m.kind = "didOpen" /\ d = Absent
  \/ m.kind = "didChange" /\ d # Absent /\ m.doc.version > d.version
  \/ m.kind = "didClose" /\ d # Absent

\* Every message in flight that a call wrote before shutdown took the documents, and
\* every one shutdown itself writes, is one the protocol allows when the server comes
\* to it: "send didOpen once per document URI", "send didChange with a monotonically
\* increasing version for updates", didClose of open documents only (sync.go:34-37),
\* requests about open documents, nothing but exit after shutdown (session.go:245-251).
\* What a call writes once shutdown has taken the documents is in no order with what
\* shutdown writes: it may open a document again before its didClose, ask about one
\* after it, or come after shutdown.  But no request, late ones
\* included, asks for what its session does not advertise (hover.go:52,
\* code_action.go:53 and 93).
WireLegal ==
  \A i \in DOMAIN wire :
    /\ wire[i].needs \subseteq caps
    /\ ~wire[i].late =>
         /\ InOrder(i)
         /\ wire[i].kind \notin Stops => \A d \in Docs : WillHave(wire[i].uri, i, d) => Legal(wire[i], d)

\* d is the document as the call synchronized it, or as a later call did.
SinceSync(c, d) == d.version >= cver[c] /\ (d.version = cver[c] => d.text = ctext[c])

\* A request, and each one that resolves an item of its answer, is answered from
\* the document as its own call synchronized it or as later calls did, never from
\* an older one, nor from another text under the same version: the notification is
\* on the wire before docsMu is released, the requests after (hover.go:55-61,
\* code_action.go:58-101).
AnswerSinceSync ==
  \A c \in Callers : closing = "no" /\ pc[c] = "answered" /\ tool[c] # "workspaceSymbol" => SinceSync(c, answer[c])
=============================================================================
