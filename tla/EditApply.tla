------------------------------ MODULE EditApply ------------------------------
(***************************************************************************)
(* Workspace edits on the file system: pkg/lsp/edit_apply.go, called by    *)
(* the lsp_apply_workspace_edit tool and by the client when a server asks  *)
(* for workspace/applyEdit.  Both first decode the whole payload           *)
(* (WorkspaceEditFromProtocol, pkg/lsp/workspace_edit.go); what the tool   *)
(* is given may be the preview another tool has made of a server's payload *)
(* (WorkspaceEditToProtocol; lsp_rename, lsp_code_action, formatting).     *)
(* Nothing keeps two calls (Appliers) from overlapping, any step on the    *)
(* file system may fail, and the program may be killed between any two of  *)
(* them: what holds in every state holds then too.                         *)
(*                                                                         *)
(* Every call into package os that changes or reads a file is one action.  *)
(* The text of a file is the set of edits it contains; TextEdits says what *)
(* becomes of the characters.  No path lies in another, a directory is one *)
(* that is not empty, parents of paths exist, and the program can remove   *)
(* its own temporary file.                                                 *)
(***************************************************************************)
EXTENDS Naturals, Sequences

CONSTANTS
  Appliers,
  Paths,     \* paths under the workspace root
  Elsewhere, \* a file outside the root
  Foreign,   \* a URI that is invalid or not of a file
  UriOrder,  \* URIs as strings are sorted
  Nothing,   \* no file
  Directory,
  Remnant,   \* what is left of a directory when os.RemoveAll fails, empty or not
  Tags,      \* text edits
  Versions,  \* of documents
  NoVersion, \* a text change that names none
  Unchecked, \* a request without current versions
  NoOptions, \* an operation without options
  Payloads   \* what may be asked: see PayloadAssumption

\* A *bool: overwrite or recursive (force), ignoreIfExists or ignoreIfNotExists.
Flags == {"unset", "false", "true"}
OptionSet == [force : Flags, ignore : Flags]
Options(force, ignore) == [force |-> force, ignore |-> ignore]

Places == Paths \cup {Elsewhere, Foreign}
TextChange(path, tags, version) ==
  [kind |-> "text", path |-> path, tags |-> tags, version |-> version]
\* A nil member, a snippet edit, a negative version or a kind of change unknown.
Unsupported == [kind |-> "unsupported", path |-> Elsewhere]
TextChanges == {TextChange(p, t, v) : p \in Places, t \in SUBSET Tags, v \in Versions \cup {NoVersion}}

\* A file operation on the wire, where its options may be left out, and as the
\* program keeps it.  "to" is for renames.
Kinds == {"create", "rename", "delete"}
WireOperation(kind, path, to, options) == [kind |-> kind, path |-> path, to |-> to, options |-> options]
Operation(kind, path, to, o) == [kind |-> kind, path |-> path, to |-> to, force |-> o.force, ignore |-> o.ignore]
WireChanges == {Unsupported} \cup TextChanges
  \cup {WireOperation(k, p, q, o) : k \in Kinds, p \in Places, q \in Places, o \in OptionSet \cup {NoOptions}}
Changes == {Unsupported} \cup TextChanges
  \cup {Operation(k, p, q, o) : k \in Kinds, p \in Places, q \in Places, o \in OptionSet}

\* The map "changes" of a payload has edits for some URIs, "documentChanges" is
\* a list; a request has changes in the order of their application.  With it go
\* the operations allowed and the versions the caller takes to be current.
ASSUME PayloadAssumption ==
  /\ NoOptions \notin OptionSet
  /\ \A t \in SUBSET Tags : t \notin {Nothing, Directory, Remnant}
  /\ Nothing \notin {Directory, Remnant}
  /\ \A r \in Payloads :
       /\ DOMAIN r = {"edits", "list", "allow", "current"}
       /\ DOMAIN r.edits \subseteq Places
       /\ \A u \in DOMAIN r.edits : r.edits[u] \subseteq Tags
       /\ r.list \in Seq(WireChanges)
       /\ r.allow \subseteq Kinds

\* workspaceDocumentChangeFromProtocol, of a change that DecodableChange accepts.
FromProtocol(c) ==
  IF c.kind \notin Kinds THEN c
  ELSE Operation(c.kind, c.path, c.to,
                 IF c.options = NoOptions THEN Options("unset", "unset") ELSE c.options)

\* The edits of the map carry no version and come first, sorted by URI.
MapChanges(edits) ==
  LET uris == SelectSeq(UriOrder, LAMBDA u : u \in DOMAIN edits)
  IN [i \in DOMAIN uris |-> TextChange(uris[i], edits[uris[i]], NoVersion)]
ListChanges(list) == [i \in DOMAIN list |-> FromProtocol(list[i])]

\* WorkspaceEditFromProtocol
Decode(r) ==
  [changes |-> MapChanges(r.edits) \o ListChanges(r.list), allow |-> r.allow, current |-> r.current]

\* What the conversion of one change accepts.
DecodableChange(c) ==
  /\ c.kind # "unsupported"
  /\ c.path # Foreign
  /\ c.kind = "rename" => c.to # Foreign

Decodable(r) ==
  LET changes == Decode(r).changes IN \A i \in DOMAIN changes : DecodableChange(changes[i])

\* (mutant) The options are mixed up.
ToProtocolSwapped(c) ==
  IF c.kind \notin Kinds THEN c
  ELSE WireOperation(c.kind, c.path, c.to,
                     IF c.force = "unset" /\ c.ignore = "unset" THEN NoOptions ELSE Options(c.ignore, c.force))

\* workspaceDocumentChangeToProtocol
ToProtocol(c) ==
  IF c.kind \notin Kinds THEN c
  ELSE WireOperation(c.kind, c.path, c.to,
                     IF c.force = "unset" /\ c.ignore = "unset" THEN NoOptions ELSE Options(c.force, c.ignore))

\* The preview of a payload, decoded and encoded again by the tool that asked for
\* it, as the caller hands it to lsp_apply_workspace_edit.
Preview(r) ==
  [r EXCEPT !.list = [i \in DOMAIN r.list |-> ToProtocol(FromProtocol(r.list[i]))]]

Requests == {Decode(r) : r \in Payloads}

\* Requests are sequences of changes (SelectSeq is beyond the prover), and a text
\* edit belongs to one change.
ASSUME RequestAssumption ==
  /\ \A r \in Payloads : Decode(r).changes \in Seq(Changes)
  /\ \A r1, r2 \in Requests : \A i \in DOMAIN r1.changes, j \in DOMAIN r2.changes :
       r1.changes[i].kind = "text" /\ r2.changes[j].kind = "text" =>
         LET t == r1.changes[i].tags
             u == r2.changes[j].tags
         IN t = u \/ t \cap u = {}

VARIABLES
  files,     \* what is at each path
  pc,        \* where an applier stands
  req,       \* its request
  at,        \* index of the change it is at
  held,      \* the text it is about to write
  temp,      \* its temporary file
  meant,     \* what the payload it goes back to asked for
  before,    \* the files when it began
  disturbed  \* appliers under way while another was

workVars  == <<req, at, held, temp>>
ghostVars == <<meant, before, disturbed>>
applyVars == <<files, pc, workVars, ghostVars>>

Texts == SUBSET Tags
Directories == {Directory, Remnant}
IsText(node) == node # Nothing /\ node \notin Directories
Nodes == Texts \cup {Nothing} \cup Directories
NoRequest == [changes |-> <<>>, allow |-> {}, current |-> Unchecked]
Ended == {"applied", "failed", "invalid"}
Working == {"target", "clear", "move", "remove", "removeAll", "temp", "write", "install"}

\* The change it is at, the one it failed at, or none.
AtChange(a) ==
  /\ pc[a] \notin Ended => at[a] \in 1..(Len(req[a].changes) + 1)
  /\ pc[a] = "failed" => at[a] \in 1..Len(req[a].changes)
  /\ pc[a] = "applied" => at[a] = Len(req[a].changes) + 1

ApplyTypeOK ==
  /\ files \in [Paths -> Nodes]
  /\ pc \in [Appliers -> {"idle", "next"} \cup Working \cup Ended]
  /\ req \in [Appliers -> Requests \cup {NoRequest}]
  /\ at \in [Appliers -> Nat]
  /\ held \in [Appliers -> Texts]
  /\ temp \in [Appliers -> Texts \cup {Nothing}]
  /\ meant \in [Appliers -> Requests \cup {NoRequest}]
  /\ before \in [Appliers -> [Paths -> Nodes]]
  /\ disturbed \in SUBSET Appliers
  /\ \A a \in Appliers : AtChange(a)

\* Files hold what no request puts there.
ApplyInit ==
  /\ files \in [Paths -> {{}, Nothing, Directory}]
  /\ pc = [a \in Appliers |-> "idle"]
  /\ req = [a \in Appliers |-> NoRequest]
  /\ at = [a \in Appliers |-> 1]
  /\ held = [a \in Appliers |-> {}]
  /\ temp = [a \in Appliers |-> Nothing]
  /\ meant = [a \in Appliers |-> NoRequest]
  /\ before = [a \in Appliers |-> files]
  /\ disturbed = {}

-----------------------------------------------------------------------------
Change(a) == req[a].changes[at[a]]

At(a, place) == pc[a] = place
GoTo(a, place) == pc' = [pc EXCEPT ![a] = place] /\ UNCHANGED <<req, at, ghostVars>>

\* The change is done, the next one follows.
Proceed(a) ==
  /\ pc' = [pc EXCEPT ![a] = "next"]
  /\ at' = [at EXCEPT ![a] = @ + 1]
  /\ UNCHANGED <<req, ghostVars>>

\* (mutant) changeIndex already counts the change that fails.
FailCounted(a) ==
  /\ pc' = [pc EXCEPT ![a] = "failed"]
  /\ at' = [at EXCEPT ![a] = @ + 1]
  /\ temp' = [temp EXCEPT ![a] = Nothing]
  /\ UNCHANGED <<req, held, ghostVars>>

\* failEdit: the temporary file, if any, has been removed; what was done before
\* stays, and at[a] tells the caller which change failed.
FailEdit(a) ==
  /\ pc' = [pc EXCEPT ![a] = "failed"]
  /\ temp' = [temp EXCEPT ![a] = Nothing]
  /\ UNCHANGED <<req, at, held, ghostVars>>

\* The appliers that overlap from now on.
Disturbs(a) ==
  LET others == {b \in Appliers \ {a} : pc[b] \in {"next"} \cup Working}
  IN others \cup {b \in {a} : others # {}}

\* (mutant) A change is decoded when its turn comes.
BeginUndecoded(a) ==
  /\ At(a, "idle")
  /\ \E r \in Payloads :
       /\ req' \in {[req EXCEPT ![a] = Decode(Preview(r))], [req EXCEPT ![a] = Decode(r)]}
       /\ meant' = [meant EXCEPT ![a] = Decode(r)]
  /\ pc' = [pc EXCEPT ![a] = "next"]
  /\ before' = [before EXCEPT ![a] = files]
  /\ disturbed' = disturbed \cup Disturbs(a)
  /\ UNCHANGED <<files, at, held, temp>>

\* The payload, or the preview of it, is decoded and ApplyWorkspaceEdit called.
Begin(a) ==
  /\ At(a, "idle")
  /\ \E r \in Payloads :
       /\ Decodable(r)
       /\ req' \in {[req EXCEPT ![a] = Decode(Preview(r))], [req EXCEPT ![a] = Decode(r)]}
       /\ meant' = [meant EXCEPT ![a] = Decode(r)]
  /\ pc' = [pc EXCEPT ![a] = "next"]
  /\ before' = [before EXCEPT ![a] = files]
  /\ disturbed' = disturbed \cup Disturbs(a)
  /\ UNCHANGED <<files, at, held, temp>>

\* One part of the payload cannot be decoded: there is no preview, nothing is
\* applied, and the report names no change.
RejectPayload(a) ==
  /\ At(a, "idle")
  /\ \E r \in Payloads :
       /\ ~Decodable(r)
       /\ req' = [req EXCEPT ![a] = Decode(r)]
       /\ meant' = [meant EXCEPT ![a] = Decode(r)]
  /\ pc' = [pc EXCEPT ![a] = "invalid"]
  /\ UNCHANGED <<files, at, held, temp, before, disturbed>>

Finish(a) ==
  /\ At(a, "next")
  /\ at[a] > Len(req[a].changes)
  /\ pc' = [pc EXCEPT ![a] = "applied"]
  /\ UNCHANGED <<files, workVars, ghostVars>>

\* The next change is to be carried out, and of this kind.
Due(a, kind) ==
  /\ At(a, "next")
  /\ at[a] <= Len(req[a].changes)
  /\ Change(a).kind = kind

\* (mutant) A document whose version is not known passes.
StaleIfKnown(r, c) ==
  /\ c.version # NoVersion
  /\ r.current # Unchecked
  /\ c.path \in DOMAIN r.current /\ r.current[c.path] # c.version

\* CurrentVersions is there and has another version for the document, or none.
Stale(r, c) ==
  /\ c.version # NoVersion
  /\ r.current # Unchecked
  /\ c.path \in DOMAIN r.current => r.current[c.path] # c.version

\* (mutant) The policy is not asked.
RefusedElsewhere(r, c) ==
  IF c.kind = "text" THEN c.tags # {} /\ (c.path = Elsewhere \/ Stale(r, c))
                     ELSE c.path = Elsewhere

\* What is refused before the file system is looked at.
Refused(r, c) ==
  IF c.kind = "text" THEN c.tags # {} /\ (c.path = Elsewhere \/ Stale(r, c))
                     ELSE c.kind \notin r.allow \/ c.path = Elsewhere

Forced(c) == c.force = "true"
Ignored(c) == c.ignore = "true"

Refuse(a) ==
  /\ \E kind \in {"text", "create", "rename", "delete"} : Due(a, kind)
  /\ Refused(req[a], Change(a))
  /\ FailEdit(a)
  /\ UNCHANGED files

-----------------------------------------------------------------------------
(* applyTextDocumentChanges                                                *)

NoEdits(a) ==
  /\ Due(a, "text")
  /\ Change(a).tags = {}
  /\ Proceed(a)
  /\ UNCHANGED <<files, held, temp>>

\* The file is read and patched in memory; the ranges may not fit the text, as
\* Fail has it.
ReadText(a) ==
  /\ Due(a, "text")
  /\ ~Refused(req[a], Change(a)) /\ Change(a).tags # {}
  /\ IsText(files[Change(a).path])
  /\ held' = [held EXCEPT ![a] = files[Change(a).path] \cup Change(a).tags]
  /\ GoTo(a, "temp")
  /\ UNCHANGED <<files, temp>>

-----------------------------------------------------------------------------
(* writeTextFileAtomic                                                     *)

\* (mutant) The old file is removed to make room.
CreateTempRemoving(a) ==
  /\ At(a, "temp")
  /\ temp' = [temp EXCEPT ![a] = {}]
  /\ files' = [files EXCEPT ![Change(a).path] = Nothing]
  /\ GoTo(a, "write")
  /\ UNCHANGED held

CreateTemp(a) ==
  /\ At(a, "temp")
  /\ temp' = [temp EXCEPT ![a] = {}]
  /\ GoTo(a, "write")
  /\ UNCHANGED <<files, held>>

\* (mutant) A short write goes unnoticed.
WriteTempUnchecked(a) ==
  /\ At(a, "write")
  /\ \E t \in SUBSET held[a] : temp' = [temp EXCEPT ![a] = t]
  /\ GoTo(a, "install")
  /\ UNCHANGED <<files, held>>

WriteTemp(a) ==
  /\ At(a, "write")
  /\ temp' = [temp EXCEPT ![a] = held[a]]
  /\ GoTo(a, "install")
  /\ UNCHANGED <<files, held>>

\* os.Rename replaces whatever file is there, but not a directory.
Install(a) ==
  /\ At(a, "install")
  /\ files[Change(a).path] \notin Directories
  /\ files' = [files EXCEPT ![Change(a).path] = temp[a]]
  /\ temp' = [temp EXCEPT ![a] = Nothing]
  /\ Proceed(a)
  /\ UNCHANGED held

-----------------------------------------------------------------------------
(* applyResourceCreate                                                     *)

StatCreate(a) ==
  LET c == Change(a)
      present == files[c.path] # Nothing IN
  /\ Due(a, "create")
  /\ ~Refused(req[a], Change(a))
  /\ \/ /\ present => Forced(c)
        /\ held' = [held EXCEPT ![a] = {}]
        /\ GoTo(a, "temp")
     \/ /\ present /\ ~Forced(c) /\ Ignored(c)
        /\ Proceed(a)
        /\ UNCHANGED held
  /\ UNCHANGED <<files, temp>>

-----------------------------------------------------------------------------
(* applyResourceRename                                                     *)

StatSource(a) ==
  /\ Due(a, "rename")
  /\ ~Refused(req[a], Change(a))
  /\ files[Change(a).path] # Nothing
  /\ GoTo(a, "target")
  /\ UNCHANGED <<files, held, temp>>

\* (mutant) ignoreIfExists wins over overwrite.
StatTargetIgnoring(a) ==
  LET c == Change(a)
      present == files[c.to] # Nothing IN
  /\ At(a, "target")
  /\ c.to # Elsewhere
  /\ \/ present /\ Forced(c) /\ ~Ignored(c) /\ GoTo(a, "clear")
     \/ present /\ Ignored(c) /\ Proceed(a)
     \/ ~present /\ GoTo(a, "move")
  /\ UNCHANGED <<files, held, temp>>

\* prepareRenameDestination
StatTarget(a) ==
  LET c == Change(a)
      present == files[c.to] # Nothing IN
  /\ At(a, "target")
  /\ c.to # Elsewhere
  /\ \/ present /\ Forced(c) /\ GoTo(a, "clear")
     \/ present /\ ~Forced(c) /\ Ignored(c) /\ Proceed(a)
     \/ ~present /\ GoTo(a, "move")
  /\ UNCHANGED <<files, held, temp>>

ClearTarget(a) ==
  /\ At(a, "clear")
  /\ files' = [files EXCEPT ![Change(a).to] = Nothing]
  /\ GoTo(a, "move")
  /\ UNCHANGED <<held, temp>>

\* os.Rename replaces a file by a file, and by a directory only an empty one.
Movable(from, to) ==
  /\ files[from] # Nothing
  /\ \/ files[to] = Nothing
     \/ IsText(files[from]) /\ IsText(files[to])
     \/ files[from] \in Directories /\ files[to] = Remnant

Move(a) ==
  LET c == Change(a) IN
  /\ At(a, "move")
  /\ Movable(c.path, c.to)
  /\ files' = [files EXCEPT ![c.path] = Nothing, ![c.to] = files[c.path]]
  /\ Proceed(a)
  /\ UNCHANGED <<held, temp>>

-----------------------------------------------------------------------------
(* applyResourceDelete                                                     *)

StatDelete(a) ==
  LET c == Change(a)
      node == files[c.path] IN
  /\ Due(a, "delete")
  /\ ~Refused(req[a], Change(a))
  /\ \/ node = Nothing /\ Ignored(c) /\ Proceed(a)
     \/ node \in Directories /\ Forced(c) /\ GoTo(a, "removeAll")
     \/ node # Nothing /\ ~(node \in Directories /\ Forced(c)) /\ GoTo(a, "remove")
  /\ UNCHANGED <<files, held, temp>>

\* os.RemoveAll is content when nothing is there, os.Remove is not, nor does it
\* remove a directory that is not empty.
Remove(a) ==
  LET node == files[Change(a).path] IN
  /\ At(a, "removeAll") \/ (At(a, "remove") /\ node \notin {Nothing, Directory})
  /\ files' = [files EXCEPT ![Change(a).path] = Nothing]
  /\ Proceed(a)
  /\ UNCHANGED <<held, temp>>

-----------------------------------------------------------------------------
\* The step due finds the file system other than it needs it, or any other
\* error of the operating system.
Fail(a) ==
  /\ pc[a] \in Working \/ (At(a, "next") /\ at[a] <= Len(req[a].changes))
  /\ FailEdit(a)
  /\ UNCHANGED files

\* os.RemoveAll fails when a part of the directory is gone.
FailHalfway(a) ==
  LET place == IF At(a, "clear") THEN Change(a).to ELSE Change(a).path IN
  /\ At(a, "clear") \/ At(a, "removeAll")
  /\ files[place] \in Directories
  /\ files' = [files EXCEPT ![place] = Remnant]
  /\ FailEdit(a)

ApplyStep(a) ==
  \/ Begin(a) \/ RejectPayload(a) \/ Finish(a) \/ Refuse(a) \/ NoEdits(a) \/ ReadText(a)
  \/ CreateTemp(a) \/ WriteTemp(a) \/ Install(a) \/ StatCreate(a)
  \/ StatSource(a) \/ StatTarget(a) \/ ClearTarget(a) \/ Move(a)
  \/ StatDelete(a) \/ Remove(a) \/ Fail(a) \/ FailHalfway(a)

ApplyNext == \E a \in Appliers : ApplyStep(a)

ApplySpec == ApplyInit /\ [][ApplyNext]_applyVars

-----------------------------------------------------------------------------
(* What a request asks for                                                 *)

\* A change carried out at once.
Effect(fs, c) ==
  CASE c.kind = "text" ->
         IF c.tags = {} THEN fs ELSE [fs EXCEPT ![c.path] = @ \cup c.tags]
    [] c.kind = "create" ->
         IF fs[c.path] = Nothing \/ Forced(c) THEN [fs EXCEPT ![c.path] = {}] ELSE fs
    [] c.kind = "rename" ->
         IF fs[c.to] = Nothing \/ Forced(c)
         THEN [fs EXCEPT ![c.path] = Nothing, ![c.to] = fs[c.path]] ELSE fs
    [] c.kind = "delete" -> [fs EXCEPT ![c.path] = Nothing]

\* The first n changes a's payload asks for, on the files as they were.
AfterChanges(a, n) ==
  LET state[i \in 0..n] ==
        IF i = 0 THEN before[a] ELSE Effect(state[i - 1], meant[a].changes[i])
  IN state[n]

\* At no moment, whoever else writes and whenever the program is killed, does a
\* file hold a part of the edits of one change (edit_apply.go:367-400).
EditsWhole ==
  \A p \in Paths : \A a \in Appliers : \A i \in DOMAIN req[a].changes :
    LET c == req[a].changes[i] IN
    c.kind = "text" /\ IsText(files[p]) =>
      c.tags \subseteq files[p] \/ c.tags \cap files[p] = {}

\* What a request may have done: operations it allows, under the root, and edits
\* of documents whose version, where both name one, the caller takes to be current.
Permitted(r, c) ==
  \/ c.kind = "text" /\ c.tags = {}
  \/ /\ c.path \in Paths
     /\ c.kind = "rename" => c.to \in Paths
     /\ c.kind # "text" => c.kind \in r.allow
     /\ c.kind = "text" /\ c.version # NoVersion /\ r.current # Unchecked =>
          c.path \in DOMAIN r.current /\ r.current[c.path] = c.version

\* A request that no other overlaps and that is reported applied has had the
\* effect of all the changes the server asked for, each on what the ones before it
\* left, however overwrite and ignoreIfExists are combined or left out, and
\* whether or not the edit has been a preview; and every one of them was
\* permitted (edit_apply.go:61-122 and 149-169, workspace_edit.go:88-511).
AppliedAsAsked ==
  [][\A a \in Appliers \ disturbed : pc[a] # "applied" /\ pc'[a] = "applied" =>
       /\ files' = AfterChanges(a, Len(meant[a].changes))
       /\ \A i \in DOMAIN meant[a].changes : Permitted(meant[a], meant[a].changes[i])]_applyVars

\* What a change that fails may leave of the files fs: a rename that overwrites
\* removes its destination first, though not when nothing is there to be moved, and
\* a directory that is removed with all it holds may remain in part.
Leaves(c, fs, left) ==
  \/ left = fs
  \/ /\ c.kind = "rename" /\ Forced(c) /\ fs[c.path] # Nothing
     /\ \/ left = [fs EXCEPT ![c.to] = Nothing]
        \/ fs[c.to] \in Directories /\ left = [fs EXCEPT ![c.to] = Remnant]
  \/ /\ c.kind = "delete" /\ Forced(c) /\ fs[c.path] \in Directories
     /\ left = [fs EXCEPT ![c.path] = Remnant]

\* One that is reported failed at a change has had the effect of the changes
\* before it, all of them permitted, and leaves no temporary file.  Of the change
\* that failed there is nothing unless it is permitted, and then no more than a
\* destination that is removed, or a directory that is removed in part
\* (edit_apply.go:124-135, 489-494 and 531-537).  No change of it is one that cannot
\* be decoded: with such a change anywhere in the payload, nothing is done at all
\* (workspace_edit.go:88-131, apply.go:56-59).
FailedAtPrefix ==
  [][\A a \in Appliers \ disturbed : pc[a] # "failed" /\ pc'[a] = "failed" =>
       LET n == at'[a]
           changes == meant[a].changes
           prefix == AfterChanges(a, n - 1)
       IN /\ temp'[a] = Nothing
          /\ \A i \in DOMAIN changes : DecodableChange(changes[i])
          /\ \A i \in 1..(n - 1) : Permitted(meant[a], changes[i])
          /\ \/ files' = prefix
             \/ Permitted(meant[a], changes[n]) /\ Leaves(changes[n], prefix, files')]_applyVars
=============================================================================
