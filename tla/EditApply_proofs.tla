-------------------------- MODULE EditApply_proofs --------------------------
(***************************************************************************)
(* Proofs about EditApply, for any number of requests, paths and changes:  *)
(* a preview asks for what the payload does; no file is ever seen with a   *)
(* part of the edits of one change; and an undisturbed request has the     *)
(* effect it reports, of permitted changes only.  For the second, every    *)
(* text in the program's hands, read, written to a temporary file or       *)
(* installed, has all edits of a change or none.  For the third, the files *)
(* are at each step what the changes so far have made of them, but for a   *)
(* destination or a directory that is being removed.                       *)
(***************************************************************************)
EXTENDS EditApply, TLAPS, WellFoundedInduction

\* An operation keeps its meaning on the way out and in again.
LEMMA RoundTrip ==
  ASSUME NEW c \in WireChanges
  PROVE  FromProtocol(ToProtocol(FromProtocol(c))) = FromProtocol(c)
<1>1. CASE c.kind \notin Kinds
  BY <1>1 DEF FromProtocol, ToProtocol
<1>2. CASE c.kind \in Kinds
  <2>1. PICK k \in Kinds, p \in Places, q \in Places, o \in OptionSet \cup {NoOptions} :
          c = WireOperation(k, p, q, o)
    BY <1>2 DEF WireChanges, Unsupported, TextChanges, TextChange, Kinds
  <2>2. PICK d \in OptionSet : FromProtocol(c) = Operation(k, p, q, d)
    <3>1. CASE o = NoOptions
      BY <2>1, <3>1 DEF FromProtocol, WireOperation, Options, OptionSet, Flags
    <3>2. CASE o # NoOptions
      BY <2>1, <3>2 DEF FromProtocol, WireOperation
    <3> QED BY <3>1, <3>2
  <2>3. d = Options(d.force, d.ignore)
    BY DEF OptionSet, Options
  <2>4. CASE d.force = "unset" /\ d.ignore = "unset"
    <3>1. ToProtocol(FromProtocol(c)) = WireOperation(k, p, q, NoOptions)
      BY <2>2, <2>4 DEF ToProtocol, Operation
    <3> QED BY <2>2, <2>3, <2>4, <3>1 DEF FromProtocol, WireOperation
  <2>5. CASE ~(d.force = "unset" /\ d.ignore = "unset")
    <3>1. ToProtocol(FromProtocol(c)) = WireOperation(k, p, q, d)
      BY <2>2, <2>3, <2>5 DEF ToProtocol, Operation
    <3>2. d # NoOptions
      BY PayloadAssumption
    <3> QED BY <2>2, <3>1, <3>2 DEF FromProtocol, WireOperation
  <2> QED BY <2>4, <2>5
<1> QED BY <1>1, <1>2

\* What lsp_rename, lsp_code_action and the formatting tools hand out as a preview
\* asks for exactly what the server's payload does, for any payload
\* (workspace_edit.go:290-511).
THEOREM PreviewAsksTheSame ==
  ASSUME NEW r \in Payloads
  PROVE  Decode(Preview(r)) = Decode(r)
<1> DEFINE w == Preview(r)
<1>1. DOMAIN r = {"edits", "list", "allow", "current"} /\ r.list \in Seq(WireChanges)
  BY PayloadAssumption
<1>2. /\ w.edits = r.edits /\ w.allow = r.allow /\ w.current = r.current
      /\ w.list = [i \in DOMAIN r.list |-> ToProtocol(FromProtocol(r.list[i]))]
  BY <1>1 DEF Preview
<1>3. \A i \in DOMAIN r.list : r.list[i] \in WireChanges
  BY <1>1
<1>4. ListChanges(w.list) = ListChanges(r.list)
  BY <1>2, <1>3, RoundTrip DEF ListChanges
<1> QED BY <1>2, <1>4 DEF Decode

-----------------------------------------------------------------------------
(* Types                                                                   *)

\* The change an applier works at is one of its request, in places under the root,
\* and permitted as those before it; where a rename is to go is looked at later.
InPlace(a) ==
  /\ pc[a] = "idle" => at[a] = 1
  /\ pc[a] \notin {"idle", "invalid"} =>
       \A i \in DOMAIN req[a].changes : DecodableChange(req[a].changes[i])
  /\ pc[a] \notin {"idle", "invalid"} =>
       \A i \in DOMAIN req[a].changes : i < at[a] => Permitted(req[a], req[a].changes[i])
  /\ pc[a] \in Working => at[a] \in DOMAIN req[a].changes /\ Change(a).path \in Paths
  /\ pc[a] \in Working \ {"target"} => Permitted(req[a], Change(a))
  /\ pc[a] = "target" => Change(a).kind = "rename" /\ ~Refused(req[a], Change(a))
  /\ pc[a] \in {"clear", "move"} => Change(a).to \in Paths

TypeInv == ApplyTypeOK /\ \A a \in Appliers : InPlace(a)

LEMMA ChangeFields ==
  ASSUME NEW c \in Changes
  PROVE  /\ c.path \in Places
         /\ c.kind = "text" => c.tags \in SUBSET Tags
         /\ c.kind \in Kinds => c.to \in Places
<1>1. CASE c \in {Unsupported}
  BY <1>1 DEF Unsupported, Places, Kinds
<1>2. CASE c \in TextChanges
  BY <1>2 DEF TextChanges, TextChange, Kinds
<1>3. CASE c \in {Operation(k, p, q, o) : k \in Kinds, p \in Places, q \in Places, o \in OptionSet}
  BY <1>3 DEF Operation, Kinds
<1> QED BY <1>1, <1>2, <1>3 DEF Changes

\* A request is a sequence of changes.
LEMMA RequestShape ==
  ASSUME NEW r \in Requests \cup {NoRequest}
  PROVE  /\ Len(r.changes) \in Nat
         /\ DOMAIN r.changes = 1..Len(r.changes)
         /\ r.changes \in Seq(Changes)
<1>1. r.changes \in Seq(Changes)
  <2>1. CASE r \in Requests
    BY <2>1, RequestAssumption DEF Requests
  <2>2. CASE r = NoRequest
    BY <2>2 DEF NoRequest
  <2> QED BY <2>1, <2>2
<1> QED BY <1>1

\* The change a working or choosing applier is at.
LEMMA ChangeAt ==
  ASSUME ApplyTypeOK, NEW a \in Appliers, at[a] \in DOMAIN req[a].changes
  PROVE  /\ Change(a).path \in Places
         /\ Change(a).kind = "text" => Change(a).tags \in SUBSET Tags
         /\ Change(a).kind \in Kinds => Change(a).to \in Places
<1>0. req[a] \in Requests \cup {NoRequest}
  BY DEF ApplyTypeOK
<1>1. Change(a) \in Changes
  BY <1>0, RequestShape DEF Change
<1> QED BY <1>1, ChangeFields

\* What is not refused is permitted when its places are under the root.
LEMMA NotRefused ==
  ASSUME NEW r, NEW c, ~Refused(r, c), c.path \in Paths, c.kind = "rename" => c.to \in Paths
  PROVE  Permitted(r, c)
<1>1. CASE c.kind = "text"
  BY <1>1 DEF Refused, Stale, Permitted
<1>2. CASE c.kind # "text"
  BY <1>2 DEF Refused, Permitted
<1> QED BY <1>1, <1>2

\* What is due and not refused is in a place under the root.
LEMMA DueInPlace ==
  ASSUME TypeInv, NEW a \in Appliers, NEW k, Due(a, k), ~Refused(req[a], Change(a)), k # "text" \/ Change(a).tags # {}
  PROVE  /\ at[a] \in DOMAIN req[a].changes
         /\ Change(a).path \in Paths
         /\ Change(a).kind = "text" => Change(a).tags \in SUBSET Tags
<1>0. req[a] \in Requests \cup {NoRequest}
  BY DEF TypeInv, ApplyTypeOK
<1>1. at[a] \in DOMAIN req[a].changes
  <2>1. at[a] \in 1..(Len(req[a].changes) + 1) /\ at[a] <= Len(req[a].changes)
    BY DEF TypeInv, ApplyTypeOK, AtChange, Due, At, Ended
  <2> QED BY <1>0, <2>1, RequestShape
<1>2. Change(a).path # Elsewhere
  BY DEF Refused, Due
<1>3. Change(a).path # Foreign
  BY <1>1 DEF TypeInv, InPlace, Due, At, Change, DecodableChange
<1> QED BY <1>1, <1>2, <1>3, ChangeAt DEF Places, TypeInv

LEMMA TypeInit == ApplyInit => TypeInv
<1> SUFFICES ASSUME ApplyInit PROVE TypeInv
  OBVIOUS
<1>1. files \in [Paths -> Nodes]
  BY DEF ApplyInit, Nodes, Texts, Directories
<1>2. ASSUME NEW a \in Appliers PROVE AtChange(a) /\ InPlace(a)
  <2>1. pc[a] = "idle" /\ at[a] = 1 /\ req[a] = NoRequest
    BY DEF ApplyInit
  <2>2. Len(req[a].changes) = 0
    BY <2>1 DEF NoRequest
  <2>3. AtChange(a)
    BY <2>1, <2>2 DEF AtChange, Ended
  <2> QED BY <2>1, <2>3 DEF InPlace, Working
<1>3. ApplyTypeOK
  BY <1>1, <1>2 DEF ApplyInit, ApplyTypeOK, Texts
<1> QED BY <1>2, <1>3 DEF TypeInv

\* The types of everything but the places in the requests.
LEMMA TypesNext ==
  ASSUME TypeInv, [ApplyNext]_applyVars
  PROVE  /\ files' \in [Paths -> Nodes]
         /\ pc' \in [Appliers -> {"idle", "next"} \cup Working \cup Ended]
         /\ req' \in [Appliers -> Requests \cup {NoRequest}]
         /\ at' \in [Appliers -> Nat]
         /\ held' \in [Appliers -> Texts]
         /\ temp' \in [Appliers -> Texts \cup {Nothing}]
         /\ meant' \in [Appliers -> Requests \cup {NoRequest}]
         /\ before' \in [Appliers -> [Paths -> Nodes]]
         /\ disturbed' \in SUBSET Appliers
<1> DEFINE Goal ==
         /\ files' \in [Paths -> Nodes]
         /\ pc' \in [Appliers -> {"idle", "next"} \cup Working \cup Ended]
         /\ req' \in [Appliers -> Requests \cup {NoRequest}]
         /\ at' \in [Appliers -> Nat]
         /\ held' \in [Appliers -> Texts]
         /\ temp' \in [Appliers -> Texts \cup {Nothing}]
         /\ meant' \in [Appliers -> Requests \cup {NoRequest}]
         /\ before' \in [Appliers -> [Paths -> Nodes]]
         /\ disturbed' \in SUBSET Appliers
<1> USE DEF TypeInv, ApplyTypeOK, Working, Ended, GoTo, Proceed, FailEdit, workVars, ghostVars
<1>1. ASSUME NEW a \in Appliers, Begin(a) PROVE Goal
  <2>1. PICK r \in Payloads :
          /\ req' \in {[req EXCEPT ![a] = Decode(Preview(r))], [req EXCEPT ![a] = Decode(r)]}
          /\ meant' = [meant EXCEPT ![a] = Decode(r)]
    BY <1>1 DEF Begin
  <2>2. Decode(r) \in Requests /\ Decode(Preview(r)) = Decode(r)
    BY PreviewAsksTheSame DEF Requests
  <2>3. req' \in [Appliers -> Requests \cup {NoRequest}] /\ meant' \in [Appliers -> Requests \cup {NoRequest}]
    BY <2>1, <2>2
  <2>4. Disturbs(a) \in SUBSET Appliers
    BY DEF Disturbs
  <2> QED BY <1>1, <2>3, <2>4 DEF Begin
<1>2. ASSUME NEW a \in Appliers, RejectPayload(a) PROVE Goal
  BY <1>2 DEF RejectPayload, Requests
<1>3. ASSUME NEW a \in Appliers, Finish(a) PROVE Goal
  BY <1>3 DEF Finish
<1>4. ASSUME NEW a \in Appliers, Refuse(a) PROVE Goal
  BY <1>4 DEF Refuse
<1>5. ASSUME NEW a \in Appliers, NoEdits(a) PROVE Goal
  BY <1>5 DEF NoEdits
<1>6. ASSUME NEW a \in Appliers, ReadText(a) PROVE Goal
  <2>1. Change(a).path \in Paths /\ Change(a).tags \in SUBSET Tags
    BY <1>6, DueInPlace DEF ReadText, Due
  <2>2. files[Change(a).path] \cup Change(a).tags \in Texts
    BY <1>6, <2>1 DEF ReadText, IsText, Nodes, Texts
  <2> QED BY <1>6, <2>2 DEF ReadText
<1>7. ASSUME NEW a \in Appliers, CreateTemp(a) PROVE Goal
  BY <1>7 DEF CreateTemp, Texts
<1>8. ASSUME NEW a \in Appliers, WriteTemp(a) PROVE Goal
  BY <1>8 DEF WriteTemp
<1>9. ASSUME NEW a \in Appliers, Install(a) PROVE Goal
  <2>1. temp[a] \in Nodes
    BY DEF Nodes
  <2>2. files' \in [Paths -> Nodes]
    BY <1>9, <2>1 DEF Install
  <2> QED BY <1>9, <2>2 DEF Install
<1>10. ASSUME NEW a \in Appliers, StatCreate(a) PROVE Goal
  BY <1>10 DEF StatCreate, Texts
<1>11. ASSUME NEW a \in Appliers, StatSource(a) PROVE Goal
  BY <1>11 DEF StatSource
<1>12. ASSUME NEW a \in Appliers, StatTarget(a) PROVE Goal
  <2>1. ASSUME NEW place \in {"clear", "move"}, GoTo(a, place) PROVE Goal
    BY <1>12, <2>1 DEF StatTarget
  <2>2. CASE Proceed(a)
    BY <1>12, <2>2 DEF StatTarget
  <2> QED BY <1>12, <2>1, <2>2 DEF StatTarget
<1>13. ASSUME NEW a \in Appliers, ClearTarget(a) PROVE Goal
  BY <1>13 DEF ClearTarget, Nodes
<1>14. ASSUME NEW a \in Appliers, Move(a) PROVE Goal
  <2>1. Change(a).path \in Paths
    BY <1>14 DEF Move, At, InPlace
  <2>2. files[Change(a).path] \in Nodes /\ Nothing \in Nodes
    BY <2>1 DEF Nodes
  <2>3. files' \in [Paths -> Nodes]
    BY <1>14, <2>2 DEF Move
  <2> QED BY <1>14, <2>3 DEF Move
<1>15. ASSUME NEW a \in Appliers, StatDelete(a) PROVE Goal
  <2>1. ASSUME NEW place \in {"remove", "removeAll"}, GoTo(a, place) PROVE Goal
    BY <1>15, <2>1 DEF StatDelete
  <2>2. CASE Proceed(a)
    BY <1>15, <2>2 DEF StatDelete
  <2> QED BY <1>15, <2>1, <2>2 DEF StatDelete
<1>16. ASSUME NEW a \in Appliers, Remove(a) PROVE Goal
  <2>1. files' \in [Paths -> Nodes]
    BY <1>16 DEF Remove, Nodes
  <2>2. Proceed(a) /\ UNCHANGED <<held, temp>>
    BY <1>16 DEF Remove
  <2> QED BY <2>1, <2>2
<1>17. ASSUME NEW a \in Appliers, Fail(a) PROVE Goal
  BY <1>17 DEF Fail
<1>18. ASSUME NEW a \in Appliers, FailHalfway(a) PROVE Goal
  <2>1. files' \in [Paths -> Nodes]
    BY <1>18 DEF FailHalfway, Nodes, Directories
  <2>2. FailEdit(a)
    BY <1>18 DEF FailHalfway
  <2> QED BY <2>1, <2>2
<1>19. CASE UNCHANGED applyVars
  BY <1>19 DEF applyVars
<1> QED BY <1>1, <1>2, <1>3, <1>4, <1>5, <1>6, <1>7, <1>8, <1>9, <1>10, <1>11, <1>12, <1>13, <1>14, <1>15, <1>16, <1>17, <1>18, <1>19 DEF ApplyNext, ApplyStep

\* An applier that takes no step stays where it is.
LEMMA Bystander ==
  ASSUME TypeInv, NEW a \in Appliers, ApplyStep(a), NEW b \in Appliers \ {a}
  PROVE  pc'[b] = pc[b] /\ at'[b] = at[b] /\ req'[b] = req[b]
<1> USE DEF TypeInv, ApplyTypeOK, GoTo, Proceed, FailEdit, workVars, ghostVars
<1>1. CASE Begin(a)
  BY <1>1 DEF Begin
<1>2. CASE RejectPayload(a)
  BY <1>2 DEF RejectPayload
<1>3. CASE Finish(a)
  BY <1>3 DEF Finish
<1>4. CASE Refuse(a)
  BY <1>4 DEF Refuse
<1>5. CASE NoEdits(a)
  BY <1>5 DEF NoEdits
<1>6. CASE ReadText(a)
  BY <1>6 DEF ReadText
<1>7. CASE CreateTemp(a)
  BY <1>7 DEF CreateTemp
<1>8. CASE WriteTemp(a)
  BY <1>8 DEF WriteTemp
<1>9. CASE Install(a)
  BY <1>9 DEF Install
<1>10. CASE StatCreate(a)
  BY <1>10 DEF StatCreate
<1>11. CASE StatSource(a)
  BY <1>11 DEF StatSource
<1>12. CASE StatTarget(a)
  BY <1>12 DEF StatTarget
<1>13. CASE ClearTarget(a)
  BY <1>13 DEF ClearTarget
<1>14. CASE Move(a)
  BY <1>14 DEF Move
<1>15. CASE StatDelete(a)
  BY <1>15 DEF StatDelete
<1>16. CASE Remove(a)
  BY <1>16 DEF Remove
<1>17. CASE Fail(a)
  BY <1>17 DEF Fail
<1>18. CASE FailHalfway(a)
  BY <1>18 DEF FailHalfway
<1> QED BY <1>1, <1>2, <1>3, <1>4, <1>5, <1>6, <1>7, <1>8, <1>9, <1>10, <1>11, <1>12, <1>13, <1>14, <1>15, <1>16, <1>17, <1>18 DEF ApplyStep

\* The applier that takes the step is at a change of its request, in place.
LEMMA StepInPlace ==
  ASSUME TypeInv, NEW a \in Appliers, ApplyStep(a)
  PROVE  AtChange(a)' /\ InPlace(a)'
<1> DEFINE n == Len(req[a].changes)
<1>r. /\ req[a] \in Requests \cup {NoRequest}
      /\ n \in Nat
      /\ DOMAIN req[a].changes = 1..n
      /\ at[a] \in Nat
  BY RequestShape DEF TypeInv, ApplyTypeOK
<1>a. AtChange(a) /\ InPlace(a)
  BY DEF TypeInv, ApplyTypeOK
<1>p. ASSUME at[a] \in 1..n, pc[a] \in Working \cup {"next"}, Permitted(req[a], Change(a)), Proceed(a)
      PROVE  AtChange(a)' /\ InPlace(a)'
  <2>1. pc'[a] = "next" /\ at'[a] = at[a] + 1 /\ req'[a] = req[a]
    BY <1>p DEF TypeInv, ApplyTypeOK, Proceed
  <2>2. at'[a] \in 1..(n + 1)
    BY <1>p, <1>r, <2>1
  <2>3. ASSUME NEW i \in DOMAIN req[a].changes, i < at[a] + 1 PROVE Permitted(req[a], req[a].changes[i])
    <3>1. i \in Nat /\ (i < at[a] \/ i = at[a])
      BY <1>r, <2>3
    <3>2. CASE i < at[a]
      BY <1>a, <1>p, <3>2 DEF InPlace, Working
    <3>3. CASE i = at[a]
      BY <1>p, <3>3 DEF Change
    <3> QED BY <3>1, <3>2, <3>3
  <2>4. \A i \in DOMAIN req[a].changes : DecodableChange(req[a].changes[i])
    BY <1>a, <1>p DEF InPlace, Working
  <2>5. AtChange(a)'
    BY <2>1, <2>2 DEF AtChange, Ended
  <2> QED BY <2>1, <2>3, <2>4, <2>5 DEF InPlace, Working
\* It stays at its change, which is permitted.
<1>s. ASSUME at[a] \in 1..n, pc[a] \in Working \cup {"next"}, Change(a).path \in Paths,
             NEW place \in Working \ {"target"}, Permitted(req[a], Change(a)), GoTo(a, place),
             place \in {"clear", "move"} => Change(a).to \in Paths
      PROVE  AtChange(a)' /\ InPlace(a)'
  <2>1. pc'[a] = place /\ at'[a] = at[a] /\ req'[a] = req[a]
    BY <1>s DEF TypeInv, ApplyTypeOK, GoTo
  <2>2. at[a] \in 1..(n + 1)
    BY <1>r, <1>s
  <2>3. AtChange(a)'
    BY <2>1, <2>2, <1>s DEF AtChange, Ended, Working
  <2>4. /\ \A i \in DOMAIN req[a].changes : DecodableChange(req[a].changes[i])
        /\ \A i \in DOMAIN req[a].changes : i < at[a] => Permitted(req[a], req[a].changes[i])
    BY <1>a, <1>s DEF InPlace, Working
  <2>5. at[a] \in DOMAIN req[a].changes
    BY <1>r, <1>s
  <2> QED BY <1>s, <2>1, <2>3, <2>4, <2>5 DEF InPlace, Change, Working
\* It ends.
<1>e. ASSUME pc[a] \in Working \cup {"next"}, pc'[a] \in {"failed", "applied"}, UNCHANGED <<req, at>>,
             pc'[a] = "failed" => at[a] \in 1..n,
             pc'[a] = "applied" => at[a] = n + 1
      PROVE  AtChange(a)' /\ InPlace(a)'
  <2>1. AtChange(a)'
    BY <1>e DEF AtChange, Ended
  <2>2. /\ \A i \in DOMAIN req[a].changes : DecodableChange(req[a].changes[i])
        /\ \A i \in DOMAIN req[a].changes : i < at[a] => Permitted(req[a], req[a].changes[i])
    BY <1>a, <1>e DEF InPlace, Working
  <2> QED BY <1>e, <2>1, <2>2 DEF InPlace, Working
<1>w. ASSUME pc[a] \in Working
      PROVE  /\ at[a] \in 1..n /\ Change(a).path \in Paths
             /\ pc[a] # "target" => Permitted(req[a], Change(a))
  BY <1>a, <1>r, <1>w DEF InPlace
<1>n. ASSUME At(a, "next") PROVE at[a] \in 1..(n + 1)
  BY <1>a, <1>n DEF AtChange, At, Ended
<1>d. ASSUME NEW kind, Due(a, kind) PROVE at[a] \in 1..n /\ pc[a] = "next" /\ Change(a).kind = kind
  BY <1>d, <1>n, <1>r DEF Due, At
<1>f. ASSUME pc[a] \in Working \/ (At(a, "next") /\ at[a] <= n), FailEdit(a)
      PROVE  AtChange(a)' /\ InPlace(a)'
  <2>1. at[a] \in 1..n
    BY <1>f, <1>n, <1>r, <1>w
  <2>2. pc'[a] = "failed" /\ UNCHANGED <<req, at>>
    BY <1>f DEF FailEdit, TypeInv, ApplyTypeOK
  <2> QED BY <1>e, <1>f, <2>1, <2>2 DEF At
<1>1. CASE Begin(a)
  <2>1. PICK r \in Payloads : Decodable(r) /\ req'[a] = Decode(r)
    BY <1>1, PreviewAsksTheSame DEF Begin, TypeInv, ApplyTypeOK
  <2>2. \A i \in DOMAIN Decode(r).changes : DecodableChange(Decode(r).changes[i])
    BY <2>1 DEF Decodable
  <2>3. Decode(r) \in Requests
    BY DEF Requests
  <2>4. Len(Decode(r).changes) \in Nat /\ DOMAIN Decode(r).changes = 1..Len(Decode(r).changes)
    BY <2>3, RequestShape
  <2>5. pc'[a] = "next" /\ at'[a] = 1
    BY <1>1, <1>a DEF Begin, At, InPlace, TypeInv, ApplyTypeOK
  <2>6. \A i \in DOMAIN Decode(r).changes : ~(i < 1)
    BY <2>4
  <2>7. AtChange(a)'
    BY <2>1, <2>4, <2>5 DEF AtChange, Ended
  <2> QED BY <2>1, <2>2, <2>5, <2>6, <2>7 DEF InPlace, Working
<1>2. CASE RejectPayload(a)
  <2>1. pc'[a] = "invalid"
    BY <1>2 DEF RejectPayload, TypeInv, ApplyTypeOK
  <2> QED BY <2>1 DEF AtChange, InPlace, Ended, Working
<1>3. CASE Finish(a)
  <2>1. at[a] = n + 1 /\ pc[a] = "next" /\ pc'[a] = "applied" /\ UNCHANGED <<req, at>>
    BY <1>3, <1>n, <1>r DEF Finish, At, workVars, TypeInv, ApplyTypeOK
  <2> QED BY <1>e, <2>1
<1>4. CASE Refuse(a)
  BY <1>4, <1>f DEF Refuse, Due
<1>5. CASE NoEdits(a)
  <2>1. Permitted(req[a], Change(a)) /\ Due(a, "text") /\ Proceed(a)
    BY <1>5 DEF NoEdits, Due, Permitted
  <2> QED BY <1>d, <1>p, <2>1
<1>6. CASE ReadText(a)
  <2>1. at[a] \in DOMAIN req[a].changes /\ Change(a).path \in Paths /\ Due(a, "text")
    BY <1>6, DueInPlace DEF ReadText
  <2>2. Permitted(req[a], Change(a))
    BY <1>6, <2>1, NotRefused DEF ReadText, Due
  <2>3. GoTo(a, "temp")
    BY <1>6 DEF ReadText
  <2> QED BY <1>d, <1>s, <2>1, <2>2, <2>3 DEF Working
<1>7. CASE CreateTemp(a)
  <2>1. pc[a] = "temp" /\ GoTo(a, "write")
    BY <1>7 DEF CreateTemp, At
  <2> QED BY <1>s, <1>w, <2>1 DEF Working
<1>8. CASE WriteTemp(a)
  <2>1. pc[a] = "write" /\ GoTo(a, "install")
    BY <1>8 DEF WriteTemp, At
  <2> QED BY <1>s, <1>w, <2>1 DEF Working
<1>9. CASE Install(a)
  <2>1. pc[a] = "install" /\ Proceed(a)
    BY <1>9 DEF Install, At
  <2> QED BY <1>p, <1>w, <2>1 DEF Working
<1>10. CASE StatCreate(a)
  <2>1. at[a] \in DOMAIN req[a].changes /\ Change(a).path \in Paths /\ Due(a, "create")
    BY <1>10, DueInPlace DEF StatCreate
  <2>2. Permitted(req[a], Change(a))
    BY <1>10, <2>1, NotRefused DEF StatCreate, Due
  <2>3. GoTo(a, "temp") \/ Proceed(a)
    BY <1>10 DEF StatCreate
  <2> QED BY <1>d, <1>p, <1>s, <2>1, <2>2, <2>3 DEF Working
<1>11. CASE StatSource(a)
  <2>1. at[a] \in DOMAIN req[a].changes /\ Change(a).path \in Paths /\ Due(a, "rename")
    BY <1>11, DueInPlace DEF StatSource
  <2>2. pc'[a] = "target" /\ UNCHANGED <<req, at>> /\ ~Refused(req[a], Change(a))
    BY <1>11 DEF StatSource, GoTo, TypeInv, ApplyTypeOK
  <2>3. pc[a] = "next" /\ Change(a).kind = "rename" /\ at[a] \in 1..(n + 1)
    BY <1>d, <1>r, <2>1
  <2>4. /\ \A i \in DOMAIN req[a].changes : DecodableChange(req[a].changes[i])
        /\ \A i \in DOMAIN req[a].changes : i < at[a] => Permitted(req[a], req[a].changes[i])
    BY <1>a, <2>3 DEF InPlace
  <2>5. AtChange(a)'
    BY <2>2, <2>3 DEF AtChange, Ended
  <2> QED BY <2>1, <2>2, <2>3, <2>4, <2>5 DEF InPlace, Change, Working
<1>12. CASE StatTarget(a)
  <2>0. pc[a] = "target" /\ pc[a] \in Working /\ Change(a).to # Elsewhere
    BY <1>12 DEF StatTarget, At, Working
  <2>1. Change(a).kind = "rename" /\ ~Refused(req[a], Change(a)) /\ at[a] \in 1..n /\ Change(a).path \in Paths
    BY <1>a, <1>w, <2>0 DEF InPlace
  <2>2. Change(a).to \in Places
    BY <1>r, <2>1, ChangeAt DEF TypeInv, Kinds
  <2>3. Change(a).to \in Paths
    <3>1. DecodableChange(Change(a))
      BY <1>a, <1>r, <2>0, <2>1 DEF InPlace, Change
    <3> QED BY <2>0, <2>1, <2>2, <3>1 DEF Places, DecodableChange
  <2>4. Permitted(req[a], Change(a))
    BY <2>1, <2>3, NotRefused
  <2>5. GoTo(a, "clear") \/ GoTo(a, "move") \/ Proceed(a)
    BY <1>12 DEF StatTarget
  <2> QED BY <1>p, <1>s, <2>0, <2>1, <2>3, <2>4, <2>5 DEF Working
<1>13. CASE ClearTarget(a)
  <2>1. pc[a] = "clear" /\ GoTo(a, "move") /\ Change(a).to \in Paths
    BY <1>13, <1>a DEF ClearTarget, At, InPlace
  <2> QED BY <1>s, <1>w, <2>1 DEF Working
<1>14. CASE Move(a)
  <2>1. pc[a] = "move" /\ Proceed(a)
    BY <1>14 DEF Move, At
  <2> QED BY <1>p, <1>w, <2>1 DEF Working
<1>15. CASE StatDelete(a)
  <2>1. at[a] \in DOMAIN req[a].changes /\ Change(a).path \in Paths /\ Due(a, "delete")
    BY <1>15, DueInPlace DEF StatDelete
  <2>2. Permitted(req[a], Change(a))
    BY <1>15, <2>1, NotRefused DEF StatDelete, Due
  <2>3. GoTo(a, "remove") \/ GoTo(a, "removeAll") \/ Proceed(a)
    BY <1>15 DEF StatDelete
  <2> QED BY <1>d, <1>p, <1>s, <2>1, <2>2, <2>3 DEF Working
<1>16. CASE Remove(a)
  <2>1. pc[a] \in {"remove", "removeAll"} /\ Proceed(a)
    BY <1>16 DEF Remove, At
  <2> QED BY <1>p, <1>w, <2>1 DEF Working
<1>17. CASE Fail(a)
  BY <1>17, <1>f DEF Fail
<1>18. CASE FailHalfway(a)
  <2>1. pc[a] \in {"clear", "removeAll"} /\ FailEdit(a)
    BY <1>18 DEF FailHalfway, At
  <2> QED BY <1>f, <2>1 DEF Working
<1> QED BY <1>1, <1>2, <1>3, <1>4, <1>5, <1>6, <1>7, <1>8, <1>9, <1>10, <1>11, <1>12, <1>13, <1>14, <1>15, <1>16, <1>17, <1>18 DEF ApplyStep

LEMMA TypeNext == TypeInv /\ [ApplyNext]_applyVars => TypeInv'
<1> SUFFICES ASSUME TypeInv, [ApplyNext]_applyVars PROVE TypeInv'
  OBVIOUS
<1>1. ASSUME NEW b \in Appliers PROVE AtChange(b)' /\ InPlace(b)'
  <2>0. AtChange(b) /\ InPlace(b)
    BY DEF TypeInv, ApplyTypeOK
  <2>1. CASE ApplyStep(b)
    BY <2>1, StepInPlace
  <2>2. ASSUME NEW a \in Appliers, ApplyStep(a), a # b PROVE AtChange(b)' /\ InPlace(b)'
    BY <2>0, <2>2, Bystander DEF AtChange, InPlace, Change
  <2>3. CASE UNCHANGED applyVars
    BY <2>0, <2>3 DEF AtChange, InPlace, Change, applyVars, workVars
  <2> QED BY <2>1, <2>2, <2>3 DEF ApplyNext
<1>2. ApplyTypeOK'
  BY <1>1, TypesNext DEF ApplyTypeOK
<1> QED BY <1>1, <1>2 DEF TypeInv

\* Every variable of the appliers has its type, and a report of failure names a
\* change of the request (edit_apply.go:124-135), in every behaviour.
THEOREM ApplyTypeOKHolds == ApplySpec => []ApplyTypeOK
<1>1. TypeInv => ApplyTypeOK
  BY DEF TypeInv
<1> QED BY <1>1, TypeInit, TypeNext, PTL DEF ApplySpec

-----------------------------------------------------------------------------
(* No part of a change                                                     *)

\* The text has all the edits of any change or none.
Whole(t) ==
  \A r \in Requests : \A i \in DOMAIN r.changes :
    r.changes[i].kind = "text" => r.changes[i].tags \subseteq t \/ r.changes[i].tags \cap t = {}

WholeInv ==
  /\ \A p \in Paths : IsText(files[p]) => Whole(files[p])
  /\ \A a \in Appliers : Whole(held[a]) /\ (temp[a] # Nothing => Whole(temp[a]))
  /\ \A a \in Appliers : pc[a] = "install" => temp[a] # Nothing

LEMMA EmptyWhole == Whole({})
  BY DEF Whole

\* A patched text is whole.
LEMMA PatchedWhole ==
  ASSUME NEW t, Whole(t), NEW r \in Requests, NEW i \in DOMAIN r.changes, r.changes[i].kind = "text"
  PROVE  Whole(t \cup r.changes[i].tags)
<1> SUFFICES ASSUME NEW r2 \in Requests, NEW j \in DOMAIN r2.changes, r2.changes[j].kind = "text"
             PROVE  \/ r2.changes[j].tags \subseteq t \cup r.changes[i].tags
                    \/ r2.changes[j].tags \cap (t \cup r.changes[i].tags) = {}
  BY DEF Whole
<1>1. r.changes[i].tags = r2.changes[j].tags \/ r.changes[i].tags \cap r2.changes[j].tags = {}
  BY RequestAssumption
<1>2. r2.changes[j].tags \subseteq t \/ r2.changes[j].tags \cap t = {}
  BY DEF Whole
<1> QED BY <1>1, <1>2

LEMMA WholeInit == ApplyInit => WholeInv
<1> SUFFICES ASSUME ApplyInit PROVE WholeInv
  OBVIOUS
<1>1. \A p \in Paths : files[p] \in {{}, Nothing, Directory}
  BY DEF ApplyInit
<1>2. \A a \in Appliers : held[a] = {} /\ temp[a] = Nothing /\ pc[a] = "idle"
  BY DEF ApplyInit
<1> QED BY <1>1, <1>2, EmptyWhole DEF WholeInv, IsText, Directories

LEMMA WholeNext == TypeInv /\ WholeInv /\ [ApplyNext]_applyVars => WholeInv'
<1> SUFFICES ASSUME TypeInv, WholeInv, [ApplyNext]_applyVars PROVE WholeInv'
  OBVIOUS
<1> DEFINE WholeFile(p) == IsText(files[p]) => Whole(files[p])
           WholeHands(b) == /\ Whole(held[b]) /\ (temp[b] # Nothing => Whole(temp[b]))
                            /\ pc[b] = "install" => temp[b] # Nothing
<1>t. \A t \in SUBSET Tags : t # Nothing
  BY PayloadAssumption
<1>0. /\ \A p \in Paths : WholeFile(p)
      /\ \A b \in Appliers : WholeHands(b)
  BY DEF WholeInv
<1> DEFINE Goal == (\A p \in Paths : WholeFile(p)') /\ (\A b \in Appliers : WholeHands(b)')
<1> USE DEF TypeInv, ApplyTypeOK, GoTo, Proceed, FailEdit, workVars, ghostVars
<1>1. ASSUME NEW a \in Appliers, Begin(a) PROVE Goal
  BY <1>1, <1>0 DEF Begin
<1>2. ASSUME NEW a \in Appliers, RejectPayload(a) PROVE Goal
  BY <1>2, <1>0 DEF RejectPayload
<1>3. ASSUME NEW a \in Appliers, Finish(a) PROVE Goal
  BY <1>3, <1>0 DEF Finish
<1>4. ASSUME NEW a \in Appliers, Refuse(a) PROVE Goal
  BY <1>4, <1>0 DEF Refuse
<1>5. ASSUME NEW a \in Appliers, NoEdits(a) PROVE Goal
  BY <1>5, <1>0 DEF NoEdits
<1>6. ASSUME NEW a \in Appliers, ReadText(a) PROVE Goal
  <2>1. /\ at[a] \in DOMAIN req[a].changes
        /\ Change(a).path \in Paths
        /\ Change(a).kind = "text"
    BY <1>6, DueInPlace DEF ReadText, Due
  <2>2. req[a] \in Requests
    BY <2>1 DEF NoRequest
  <2>3. Whole(files[Change(a).path])
    BY <1>6, <1>0, <2>1 DEF ReadText
  <2>4. Whole(files[Change(a).path] \cup Change(a).tags)
    BY <2>1, <2>2, <2>3, PatchedWhole DEF Change
  <2>5. held'[a] = files[Change(a).path] \cup Change(a).tags /\ pc'[a] = "temp"
    BY <1>6 DEF ReadText
  <2> QED BY <1>6, <1>0, <2>4, <2>5 DEF ReadText
<1>7. ASSUME NEW a \in Appliers, CreateTemp(a) PROVE Goal
  BY <1>7, <1>0, EmptyWhole DEF CreateTemp
<1>8. ASSUME NEW a \in Appliers, WriteTemp(a) PROVE Goal
  BY <1>8, <1>0, <1>t DEF WriteTemp, Texts
<1>9. ASSUME NEW a \in Appliers, Install(a) PROVE Goal
  <2>1. temp[a] # Nothing /\ Whole(temp[a])
    BY <1>9, <1>0 DEF Install, At
  <2>2. \A p \in Paths : files'[p] = files[p] \/ files'[p] = temp[a]
    BY <1>9 DEF Install
  <2>3. \A p \in Paths : WholeFile(p)'
    BY <1>0, <2>1, <2>2
  <2>4. \A b \in Appliers : WholeHands(b)'
    BY <1>9, <1>0 DEF Install
  <2> QED BY <2>3, <2>4
<1>10. ASSUME NEW a \in Appliers, StatCreate(a) PROVE Goal
  BY <1>10, <1>0, EmptyWhole DEF StatCreate
<1>11. ASSUME NEW a \in Appliers, StatSource(a) PROVE Goal
  BY <1>11, <1>0 DEF StatSource
<1>12. ASSUME NEW a \in Appliers, StatTarget(a) PROVE Goal
  BY <1>12, <1>0 DEF StatTarget
<1>13. ASSUME NEW a \in Appliers, ClearTarget(a) PROVE Goal
  BY <1>13, <1>0 DEF ClearTarget, IsText
<1>14. ASSUME NEW a \in Appliers, Move(a) PROVE Goal
  <2>1. Change(a).path \in Paths /\ Change(a).to \in Paths
    BY <1>14 DEF Move, At, InPlace, Working
  <2>2. \A p \in Paths : files'[p] \in {files[p], Nothing, files[Change(a).path]}
    BY <1>14, <2>1 DEF Move
  <2>3. \A p \in Paths : WholeFile(p)'
    BY <1>0, <2>1, <2>2 DEF IsText
  <2>4. \A b \in Appliers : WholeHands(b)'
    BY <1>14, <1>0 DEF Move
  <2> QED BY <2>3, <2>4
<1>15. ASSUME NEW a \in Appliers, StatDelete(a) PROVE Goal
  BY <1>15, <1>0 DEF StatDelete
<1>16. ASSUME NEW a \in Appliers, Remove(a) PROVE Goal
  BY <1>16, <1>0 DEF Remove, IsText
<1>17. ASSUME NEW a \in Appliers, Fail(a) PROVE Goal
  BY <1>17, <1>0 DEF Fail
<1>18. ASSUME NEW a \in Appliers, FailHalfway(a) PROVE Goal
  <2>1. \A p \in Paths : files'[p] = files[p] \/ ~IsText(files'[p])
    BY <1>18 DEF FailHalfway, IsText, Directories
  <2>2. \A p \in Paths : WholeFile(p)'
    BY <1>0, <2>1
  <2>3. \A b \in Appliers : WholeHands(b)'
    BY <1>18, <1>0 DEF FailHalfway
  <2> QED BY <2>2, <2>3
<1>19. CASE UNCHANGED applyVars
  BY <1>19 DEF applyVars, WholeInv
<1>20. ASSUME Goal PROVE WholeInv'
  BY <1>20 DEF WholeInv
<1>21. ASSUME NEW a \in Appliers, ApplyStep(a) PROVE Goal
  BY ONLY <1>21, <1>1, <1>2, <1>3, <1>4, <1>5, <1>6, <1>7, <1>8, <1>9, <1>10, <1>11, <1>12, <1>13, <1>14, <1>15, <1>16, <1>17, <1>18 DEF ApplyStep
<1> QED BY <1>19, <1>20, <1>21 DEF ApplyNext

\* At no moment, whichever requests overlap and whenever the program is killed, does
\* a file hold a part of the edits of one change (edit_apply.go:367-400).
THEOREM EditsWholeHolds == ApplySpec => []EditsWhole
<1>1. TypeInv /\ WholeInv => EditsWhole
  <2> SUFFICES ASSUME TypeInv, WholeInv, NEW p \in Paths, NEW a \in Appliers, NEW i \in DOMAIN req[a].changes,
                      req[a].changes[i].kind = "text", IsText(files[p])
               PROVE  \/ req[a].changes[i].tags \subseteq files[p]
                      \/ req[a].changes[i].tags \cap files[p] = {}
    BY DEF EditsWhole
  <2>1. req[a] \in Requests
    BY DEF TypeInv, ApplyTypeOK, NoRequest
  <2> QED BY <2>1 DEF WholeInv, Whole
<1> QED BY <1>1, TypeInit, TypeNext, WholeInit, WholeNext, PTL DEF ApplySpec

-----------------------------------------------------------------------------
(* The effect of a request                                                 *)

\* A set of naturals has a least element.
LEMMA Least ==
  ASSUME NEW T \in SUBSET Nat, T # {}
  PROVE  \E m \in T : \A k \in T : m <= k
<1>1. PICK m \in T : \A k \in T : <<k, m>> \notin OpToRel(<, Nat)
  BY NatLessThanWellFounded, WFMin
<1>2. ASSUME NEW k \in T PROVE m <= k
  <2>1. <<k, m>> \in Nat \X Nat /\ <<k, m>>[1] = k /\ <<k, m>>[2] = m
    OBVIOUS
  <2>2. ~(k < m)
    BY <1>1, <2>1 DEF OpToRel
  <2> QED BY <2>2
<1> QED BY <1>2

\* AfterChanges, of given files and changes.
Run(b, cs, n) ==
  LET state[i \in 0..n] == IF i = 0 THEN b ELSE Effect(state[i - 1], cs[i]) IN state[n]

IsRun(g, b, cs, n) == g = [i \in 0..n |-> IF i = 0 THEN b ELSE Effect(g[i - 1], cs[i])]

LEMMA RunExists ==
  ASSUME NEW b, NEW cs, NEW n \in Nat
  PROVE  \E g : IsRun(g, b, cs, n)
<1> DEFINE T == {k \in Nat : ~\E g : IsRun(g, b, cs, k)}
<1>1. SUFFICES ASSUME T # {} PROVE FALSE
  OBVIOUS
<1>2. PICK m \in T : \A k \in T : m <= k
  BY <1>1, Least, T \in SUBSET Nat
<1>3. CASE m = 0
  <2> DEFINE h == [i \in 0..0 |-> b]
  <2>1. IsRun(h, b, cs, 0)
    BY DEF IsRun
  <2> QED BY <1>2, <1>3, <2>1
<1>4. CASE m # 0
  <2>1. m \in Nat /\ m - 1 \in Nat /\ m - 1 \notin T
    BY <1>2, <1>4
  <2>2. PICK g : IsRun(g, b, cs, m - 1)
    BY <2>1
  <2> DEFINE h == [i \in 0..m |-> IF i = m THEN Effect(g[m - 1], cs[m]) ELSE g[i]]
  <2>3. ASSUME NEW i \in 0..m PROVE h[i] = IF i = 0 THEN b ELSE Effect(h[i - 1], cs[i])
    <3>1. CASE i = m
      <4>1. h[i - 1] = g[m - 1] /\ h[i] = Effect(g[m - 1], cs[m])
        BY <1>4, <2>1, <3>1
      <4> QED BY <1>4, <3>1, <4>1
    <3>2. CASE i # m
      <4>1. i \in 0..(m - 1) /\ h[i] = g[i]
        BY <2>1, <3>2
      <4>2. i # 0 => h[i - 1] = g[i - 1]
        BY <2>1, <4>1
      <4>3. g[i] = IF i = 0 THEN b ELSE Effect(g[i - 1], cs[i])
        BY <2>2, <4>1 DEF IsRun
      <4> QED BY <4>1, <4>2, <4>3
    <3> QED BY <3>1, <3>2
  <2>4. IsRun(h, b, cs, m)
    <3>1. h = [i \in 0..m |-> h[i]]
      OBVIOUS
    <3> HIDE DEF h
    <3> QED BY <2>3, <3>1 DEF IsRun
  <2> QED BY <1>2, <2>4
<1> QED BY <1>3, <1>4

LEMMA RunsAgree ==
  ASSUME NEW b, NEW cs, NEW n \in Nat, NEW k \in Nat, n <= k, NEW g, NEW h,
         IsRun(g, b, cs, n), IsRun(h, b, cs, k)
  PROVE  \A i \in 0..n : g[i] = h[i]
<1> DEFINE T == {i \in 0..n : g[i] # h[i]}
<1>1. SUFFICES ASSUME T # {} PROVE FALSE
  OBVIOUS
<1>2. PICK m \in T : \A i \in T : m <= i
  BY <1>1, Least, T \in SUBSET Nat
<1>3. /\ g[m] = IF m = 0 THEN b ELSE Effect(g[m - 1], cs[m])
      /\ h[m] = IF m = 0 THEN b ELSE Effect(h[m - 1], cs[m])
  BY DEF IsRun
<1>4. m # 0 => g[m - 1] = h[m - 1]
  BY <1>2
<1> QED BY <1>3, <1>4

\* One change more has its effect on what the ones before it left.
LEMMA RunStep ==
  ASSUME NEW b, NEW cs
  PROVE  /\ Run(b, cs, 0) = b
         /\ \A n \in Nat : Run(b, cs, n + 1) = Effect(Run(b, cs, n), cs[n + 1])
<1> DEFINE f(n) == CHOOSE g : IsRun(g, b, cs, n)
<1>1. ASSUME NEW n PROVE Run(b, cs, n) = f(n)[n]
  BY DEF Run, IsRun
<1>2. ASSUME NEW n \in Nat PROVE IsRun(f(n), b, cs, n)
  BY RunExists
<1> HIDE DEF f
<1>3. Run(b, cs, 0) = b
  <2>1. f(0)[0] = b
    BY <1>2 DEF IsRun
  <2> QED BY <1>1, <2>1
<1>4. ASSUME NEW n \in Nat PROVE Run(b, cs, n + 1) = Effect(Run(b, cs, n), cs[n + 1])
  <2>1. f(n + 1)[n + 1] = Effect(f(n + 1)[n], cs[n + 1])
    <3>1. IsRun(f(n + 1), b, cs, n + 1)
      BY <1>2
    <3>2. n + 1 \in 0..(n + 1) /\ n + 1 # 0 /\ (n + 1) - 1 = n
      OBVIOUS
    <3> QED BY <3>1, <3>2 DEF IsRun
  <2>2. f(n + 1)[n] = f(n)[n]
    <3>1. IsRun(f(n + 1), b, cs, n + 1) /\ IsRun(f(n), b, cs, n)
      BY <1>2
    <3> QED BY <3>1, RunsAgree
  <2> QED BY <1>1, <2>1, <2>2
<1> QED BY <1>3, <1>4

LEMMA AfterIsRun ==
  ASSUME NEW a, NEW n
  PROVE  AfterChanges(a, n) = Run(before[a], meant[a].changes, n)
BY DEF AfterChanges, Run

Active == {"next"} \cup Working

\* Where a request that nothing disturbs stands: fs are the files, place is where
\* the applier stands in its change c, h and t are the texts it holds and has
\* written, and prefix are the files as the changes in front of c left them.
Progress(fs, place, c, h, t, prefix) ==
  /\ prefix \in [Paths -> Nodes]
  /\ place # "move" => fs = prefix
  /\ place \in {"temp", "write", "install"} =>
       \/ c.kind = "text" /\ c.tags # {} /\ h = prefix[c.path] \cup c.tags
       \/ c.kind = "create" /\ h = {} /\ (prefix[c.path] = Nothing \/ Forced(c))
  /\ place = "install" => t = h
  /\ place \in {"target", "clear", "move"} => c.kind = "rename" /\ prefix[c.path] # Nothing
  /\ place \in {"clear", "move"} => c.to # Elsewhere
  /\ place = "clear" => Forced(c)
  /\ place = "move" => \/ fs = prefix /\ prefix[c.to] = Nothing
                       \/ fs = [prefix EXCEPT ![c.to] = Nothing] /\ Forced(c)
  /\ place \in {"remove", "removeAll"} => c.kind = "delete"
  /\ place = "removeAll" => Forced(c)

Undisturbed(a) ==
  /\ \A b \in Appliers \ {a} : pc[b] \notin Active
  /\ Progress(files, pc[a], req[a].changes[at[a]], held[a], temp[a],
              Run(before[a], req[a].changes, at[a] - 1))

EffectInv ==
  /\ \A a \in Appliers : req[a] = meant[a]
  /\ \A a \in Appliers \ disturbed : pc[a] \in Active => Undisturbed(a)

LEMMA EffectInit == ApplyInit => EffectInv
  BY DEF ApplyInit, EffectInv, Active, Working

\* Only a request that begins was not active before its step.
LEMMA StepsOfActive ==
  ASSUME TypeInv, NEW a \in Appliers, ApplyStep(a)
  PROVE  pc[a] \in Active \/ Begin(a) \/ (RejectPayload(a) /\ pc'[a] = "invalid" /\ UNCHANGED files)
<1> USE DEF Active, Working, At, Due
<1>1. CASE RejectPayload(a)
  BY <1>1 DEF RejectPayload, TypeInv, ApplyTypeOK
<1>2. CASE Finish(a) \/ Refuse(a) \/ NoEdits(a) \/ ReadText(a)
  BY <1>2 DEF Finish, Refuse, NoEdits, ReadText
<1>3. CASE CreateTemp(a) \/ WriteTemp(a) \/ Install(a) \/ StatCreate(a)
  BY <1>3 DEF CreateTemp, WriteTemp, Install, StatCreate
<1>4. CASE StatSource(a) \/ StatTarget(a) \/ ClearTarget(a) \/ Move(a)
  BY <1>4 DEF StatSource, StatTarget, ClearTarget, Move
<1>5. CASE StatDelete(a) \/ Remove(a) \/ Fail(a) \/ FailHalfway(a)
  BY <1>5 DEF StatDelete, Remove, Fail, FailHalfway
<1> QED BY <1>1, <1>2, <1>3, <1>4, <1>5 DEF ApplyStep

\* A step keeps to what is asked, and to what the request began with unless it
\* begins.
LEMMA KeepsMeaning ==
  ASSUME TypeInv, EffectInv, NEW a \in Appliers, ApplyStep(a)
  PROVE  /\ \A b \in Appliers : req'[b] = meant'[b]
         /\ \A b \in Appliers \ {a} : UNCHANGED <<held[b], temp[b], before[b]>>
         /\ Begin(a) \/ UNCHANGED <<before, disturbed>>
         /\ disturbed \subseteq disturbed'
<1> DEFINE Goal ==
         /\ \A b \in Appliers : req'[b] = meant'[b]
         /\ \A b \in Appliers \ {a} : UNCHANGED <<held[b], temp[b], before[b]>>
         /\ Begin(a) \/ UNCHANGED <<before, disturbed>>
         /\ disturbed \subseteq disturbed'
<1> USE DEF TypeInv, ApplyTypeOK, EffectInv, GoTo, Proceed, FailEdit, workVars, ghostVars
<1>1. ASSUME Begin(a) PROVE Goal
  <2>1. PICK r \in Payloads :
          /\ req' \in {[req EXCEPT ![a] = Decode(Preview(r))], [req EXCEPT ![a] = Decode(r)]}
          /\ meant' = [meant EXCEPT ![a] = Decode(r)]
    BY <1>1 DEF Begin
  <2>2. req' = [req EXCEPT ![a] = Decode(r)]
    BY <2>1, PreviewAsksTheSame
  <2> QED BY <1>1, <2>1, <2>2 DEF Begin
<1>2. ASSUME RejectPayload(a) PROVE Goal
  BY <1>2 DEF RejectPayload
<1>3. ASSUME Finish(a) PROVE Goal
  BY <1>3 DEF Finish
<1>4. ASSUME Refuse(a) PROVE Goal
  BY <1>4 DEF Refuse
<1>5. ASSUME NoEdits(a) PROVE Goal
  BY <1>5 DEF NoEdits
<1>6. ASSUME ReadText(a) PROVE Goal
  BY <1>6 DEF ReadText
<1>7. ASSUME CreateTemp(a) PROVE Goal
  BY <1>7 DEF CreateTemp
<1>8. ASSUME WriteTemp(a) PROVE Goal
  BY <1>8 DEF WriteTemp
<1>9. ASSUME Install(a) PROVE Goal
  BY <1>9 DEF Install
<1>10. ASSUME StatCreate(a) PROVE Goal
  BY <1>10 DEF StatCreate
<1>11. ASSUME StatSource(a) PROVE Goal
  BY <1>11 DEF StatSource
<1>12. ASSUME StatTarget(a) PROVE Goal
  BY <1>12 DEF StatTarget
<1>13. ASSUME ClearTarget(a) PROVE Goal
  BY <1>13 DEF ClearTarget
<1>14. ASSUME Move(a) PROVE Goal
  BY <1>14 DEF Move
<1>15. ASSUME StatDelete(a) PROVE Goal
  BY <1>15 DEF StatDelete
<1>16. ASSUME Remove(a) PROVE Goal
  BY <1>16 DEF Remove
<1>17. ASSUME Fail(a) PROVE Goal
  BY <1>17 DEF Fail
<1>18. ASSUME FailHalfway(a) PROVE Goal
  BY <1>18 DEF FailHalfway
<1>19. Goal
  BY ONLY ApplyStep(a), <1>1, <1>2, <1>3, <1>4, <1>5, <1>6, <1>7, <1>8, <1>9, <1>10, <1>11, <1>12, <1>13, <1>14, <1>15, <1>16, <1>17, <1>18 DEF ApplyStep
<1> QED BY <1>19

\* A step of an undisturbed request that goes on, in its change or to the next.
LEMMA OwnProgress ==
  ASSUME TypeInv, EffectInv, NEW a \in Appliers \ disturbed, pc[a] \in Active,
         ApplyStep(a), files' \in [Paths -> Nodes], pc'[a] \in Active
  PROVE  Progress(files', pc'[a], req'[a].changes[at'[a]], held'[a], temp'[a],
                  Run(before'[a], req'[a].changes, at'[a] - 1))
<1> DEFINE c == Change(a)
           n == at[a]
           prefix == Run(before[a], req[a].changes, n - 1)
           Goal == Progress(files', pc'[a], req'[a].changes[at'[a]], held'[a], temp'[a],
                            Run(before'[a], req'[a].changes, at'[a] - 1))
<1>0. Progress(files, pc[a], c, held[a], temp[a], prefix)
  BY DEF EffectInv, Undisturbed, Change
<1>1. /\ files \in [Paths -> Nodes] /\ prefix \in [Paths -> Nodes]
      /\ pc \in [Appliers -> {"idle", "next"} \cup Working \cup Ended]
      /\ at \in [Appliers -> Nat] /\ n \in Nat \ {0}
      /\ held \in [Appliers -> Texts] /\ temp \in [Appliers -> Texts \cup {Nothing}]
  <2>1. n \in 1..(Len(req[a].changes) + 1)
    BY DEF TypeInv, ApplyTypeOK, AtChange, Active, Working, Ended
  <2> QED BY <1>0, <2>1 DEF TypeInv, ApplyTypeOK, Progress
<1>2. ~Begin(a) /\ ~RejectPayload(a)
  BY DEF Begin, RejectPayload, At, Active, Working
<1>3. before' = before
  BY <1>2, KeepsMeaning
<1>4. Run(before[a], req[a].changes, n) = Effect(prefix, c)
  <2>1. n - 1 \in Nat /\ (n - 1) + 1 = n
    BY <1>1
  <2>2. Run(before[a], req[a].changes, (n - 1) + 1) = Effect(Run(before[a], req[a].changes, n - 1), req[a].changes[(n - 1) + 1])
    BY <2>1, RunStep
  <2> QED BY <2>1, <2>2 DEF Change
<1>g. ASSUME NEW place, GoTo(a, place), Progress(files', place, c, held'[a], temp'[a], prefix) PROVE Goal
  <2>1. pc'[a] = place /\ req' = req /\ at' = at
    BY <1>1, <1>g DEF GoTo
  <2> QED BY <1>3, <1>g, <2>1 DEF Change
<1>p. ASSUME Proceed(a), files' = Effect(prefix, c) PROVE Goal
  <2>1. pc'[a] = "next" /\ req' = req /\ at'[a] = n + 1
    BY <1>1, <1>p DEF Proceed
  <2>2. (n + 1) - 1 = n
    BY <1>1
  <2>3. Run(before'[a], req'[a].changes, at'[a] - 1) = files'
    BY <1>3, <1>4, <1>p, <2>1, <2>2
  <2> QED BY <2>1, <2>3 DEF Progress
<1> HIDE DEF Goal, prefix, c
<1>5. ASSUME Finish(a) \/ Refuse(a) \/ Fail(a) \/ FailHalfway(a) PROVE Goal
  <2>1. pc'[a] \in Ended
    BY <1>1, <1>5 DEF Finish, Refuse, Fail, FailHalfway, FailEdit, Ended
  <2> QED BY <2>1 DEF Ended, Active, Working
<1>6. ASSUME NoEdits(a) PROVE Goal
  <2>1. files' = files /\ files = prefix /\ c.kind = "text" /\ c.tags = {} /\ Proceed(a)
    BY <1>0, <1>6 DEF NoEdits, Due, At, Progress, c
  <2> QED BY <1>p, <2>1 DEF Effect
<1>7. ASSUME ReadText(a) PROVE Goal
  <2>1. /\ files' = files /\ files = prefix /\ c.kind = "text" /\ c.tags # {} /\ GoTo(a, "temp")
        /\ held'[a] = files[c.path] \cup c.tags
    BY <1>0, <1>1, <1>7 DEF ReadText, Due, At, Progress, c
  <2> QED BY <1>1, <1>g, <2>1 DEF Progress
<1>8. ASSUME CreateTemp(a) PROVE Goal
  <2>1. pc[a] = "temp" /\ files' = files /\ held' = held /\ GoTo(a, "write")
    BY <1>8 DEF CreateTemp, At
  <2> QED BY <1>0, <1>g, <2>1 DEF Progress
<1>9. ASSUME WriteTemp(a) PROVE Goal
  <2>1. /\ pc[a] = "write" /\ files' = files /\ held' = held /\ GoTo(a, "install")
        /\ temp'[a] = held'[a]
    BY <1>1, <1>9 DEF WriteTemp, At
  <2> QED BY <1>0, <1>g, <2>1 DEF Progress
<1>10. ASSUME Install(a) PROVE Goal
  <2>1. /\ pc[a] = "install" /\ Proceed(a) /\ files' = [files EXCEPT ![c.path] = temp[a]]
    BY <1>10 DEF Install, At, c
  <2>2. /\ files = prefix /\ temp[a] = held[a]
        /\ \/ c.kind = "text" /\ c.tags # {} /\ held[a] = prefix[c.path] \cup c.tags
           \/ c.kind = "create" /\ held[a] = {} /\ (prefix[c.path] = Nothing \/ Forced(c))
    BY <1>0, <2>1 DEF Progress
  <2>3. files' = Effect(prefix, c)
    <3>1. CASE c.kind = "text" /\ c.tags # {} /\ held[a] = prefix[c.path] \cup c.tags
      <4>1. Effect(prefix, c) = [prefix EXCEPT ![c.path] = @ \cup c.tags]
        BY <3>1 DEF Effect
      <4> QED BY <1>1, <2>1, <2>2, <3>1, <4>1
    <3>2. CASE c.kind = "create" /\ held[a] = {} /\ (prefix[c.path] = Nothing \/ Forced(c))
      <4>1. Effect(prefix, c) = [prefix EXCEPT ![c.path] = {}]
        BY <3>2 DEF Effect
      <4> QED BY <2>1, <2>2, <3>2, <4>1
    <3> QED BY <2>2, <3>1, <3>2
  <2> QED BY <1>p, <2>1, <2>3
<1>11. ASSUME StatCreate(a) PROVE Goal
  <2>1. files' = files /\ files = prefix /\ c.kind = "create"
    BY <1>0, <1>11 DEF StatCreate, Due, At, Progress, c
  <2>2. CASE (files[c.path] # Nothing => Forced(c)) /\ held'[a] = {} /\ GoTo(a, "temp")
    BY <1>1, <1>g, <2>1, <2>2 DEF Progress
  <2>3. CASE files[c.path] # Nothing /\ ~Forced(c) /\ Proceed(a)
    BY <1>p, <2>1, <2>3 DEF Effect
  <2>4. \/ (files[c.path] # Nothing => Forced(c)) /\ held'[a] = {} /\ GoTo(a, "temp")
        \/ files[c.path] # Nothing /\ ~Forced(c) /\ Proceed(a)
    BY <1>1, <1>11 DEF StatCreate, c
  <2> QED BY <2>2, <2>3, <2>4
<1>12. ASSUME StatSource(a) PROVE Goal
  <2>1. /\ files' = files /\ files = prefix /\ c.kind = "rename" /\ GoTo(a, "target")
        /\ files[c.path] # Nothing
    BY <1>0, <1>12 DEF StatSource, Due, At, Progress, c
  <2> QED BY <1>1, <1>g, <2>1 DEF Progress
<1>13. ASSUME StatTarget(a) PROVE Goal
  <2>1. files' = files /\ files = prefix /\ c.kind = "rename" /\ c.to # Elsewhere /\ prefix[c.path] # Nothing
    BY <1>0, <1>13 DEF StatTarget, At, Progress, c
  <2>2. CASE Forced(c) /\ GoTo(a, "clear")
    BY <1>1, <1>g, <2>1, <2>2 DEF Progress
  <2>3. CASE files[c.to] # Nothing /\ ~Forced(c) /\ Proceed(a)
    BY <1>p, <2>1, <2>3 DEF Effect
  <2>4. CASE files[c.to] = Nothing /\ GoTo(a, "move")
    BY <1>1, <1>g, <2>1, <2>4 DEF Progress
  <2>5. \/ Forced(c) /\ GoTo(a, "clear")
        \/ files[c.to] # Nothing /\ ~Forced(c) /\ Proceed(a)
        \/ files[c.to] = Nothing /\ GoTo(a, "move")
    BY <1>13 DEF StatTarget, c
  <2> QED BY <2>2, <2>3, <2>4, <2>5
<1>14. ASSUME ClearTarget(a) PROVE Goal
  <2>1. pc[a] = "clear" /\ files' = [files EXCEPT ![c.to] = Nothing] /\ GoTo(a, "move")
    BY <1>14 DEF ClearTarget, At, c
  <2>2. files = prefix /\ Forced(c) /\ c.kind = "rename" /\ c.to # Elsewhere /\ prefix[c.path] # Nothing
    BY <1>0, <2>1 DEF Progress
  <2> QED BY <1>1, <1>g, <2>1, <2>2 DEF Progress
<1>15. ASSUME Move(a) PROVE Goal
  <2>1. /\ pc[a] = "move" /\ Proceed(a) /\ files[c.path] # Nothing
        /\ files' = [files EXCEPT ![c.path] = Nothing, ![c.to] = files[c.path]]
    BY <1>15 DEF Move, At, Movable, c
  <2>2. c.path \in Paths /\ c.to \in Paths
    BY <2>1 DEF TypeInv, InPlace, Working, c
  <2>3. c.kind = "rename" /\ (prefix[c.to] = Nothing \/ Forced(c))
    BY <1>0, <2>1 DEF Progress
  <2>4. Effect(prefix, c) = [prefix EXCEPT ![c.path] = Nothing, ![c.to] = prefix[c.path]]
    BY <2>3 DEF Effect
  <2>5. CASE files = prefix
    BY <1>p, <2>1, <2>4, <2>5
  <2>6. CASE files = [prefix EXCEPT ![c.to] = Nothing]
    <3>1. c.path # c.to
      BY <1>1, <2>1, <2>2, <2>6
    <3>2. files[c.path] = prefix[c.path]
      BY <1>1, <2>2, <2>6, <3>1
    <3>3. files' = [prefix EXCEPT ![c.path] = Nothing, ![c.to] = prefix[c.path]]
      BY <1>1, <2>1, <2>2, <2>6, <3>1, <3>2
    <3> QED BY <1>p, <2>1, <2>4, <3>3
  <2> QED BY <1>0, <2>1, <2>5, <2>6 DEF Progress
<1>16. ASSUME StatDelete(a) PROVE Goal
  <2>1. files' = files /\ files = prefix /\ c.kind = "delete"
    BY <1>0, <1>16 DEF StatDelete, Due, At, Progress, c
  <2>2. ASSUME NEW place \in {"remove", "removeAll"}, GoTo(a, place), place = "removeAll" => Forced(c) PROVE Goal
    BY <1>1, <1>g, <2>1, <2>2 DEF Progress
  <2>3. ASSUME files[c.path] = Nothing, Proceed(a) PROVE Goal
    <3>1. Effect(prefix, c) = [prefix EXCEPT ![c.path] = Nothing]
      BY <2>1 DEF Effect
    <3>2. [prefix EXCEPT ![c.path] = Nothing] = prefix
      BY <1>1, <2>1, <2>3
    <3> QED BY <1>p, <2>1, <2>3, <3>1, <3>2
  <2> QED BY <1>16, <2>2, <2>3 DEF StatDelete, c
<1>17. ASSUME Remove(a) PROVE Goal
  <2>1. /\ pc[a] \in {"remove", "removeAll"} /\ Proceed(a)
        /\ files' = [files EXCEPT ![c.path] = Nothing]
    BY <1>17 DEF Remove, At, c
  <2>2. files = prefix /\ c.kind = "delete"
    BY <1>0, <2>1 DEF Progress
  <2> QED BY <1>p, <2>1, <2>2 DEF Effect
<1>18. Goal
  BY ONLY ApplyStep(a), <1>2, <1>5, <1>6, <1>7, <1>8, <1>9, <1>10, <1>11, <1>12, <1>13, <1>14, <1>15, <1>16, <1>17 DEF ApplyStep
<1> QED BY <1>18 DEF Goal

LEMMA EffectNext == TypeInv /\ EffectInv /\ [ApplyNext]_applyVars => EffectInv'
<1> SUFFICES ASSUME TypeInv, EffectInv, [ApplyNext]_applyVars PROVE EffectInv'
  OBVIOUS
<1>0. files' \in [Paths -> Nodes]
  BY TypesNext
<1>1. ASSUME NEW a \in Appliers, ApplyStep(a), NEW d \in Appliers \ disturbed', pc'[d] \in Active
      PROVE  Undisturbed(d)'
  <2> DEFINE Others == \A b \in Appliers \ {d} : pc'[b] \notin Active
             Holds == Progress(files', pc'[d], req'[d].changes[at'[d]], held'[d], temp'[d],
                               Run(before'[d], req'[d].changes, at'[d] - 1))
  <2>1. d \notin disturbed
    BY <1>1, KeepsMeaning
  <2>2. CASE d = a /\ Begin(a)
    <3>1. /\ pc'[a] = "next" /\ at'[a] = 1 /\ before'[a] = files /\ files' = files
          /\ a \notin Disturbs(a)
      BY <1>1, <2>2 DEF Begin, TypeInv, ApplyTypeOK, InPlace, At
    <3>2. \A b \in Appliers \ {a} : pc[b] \notin Active
      BY <3>1 DEF Disturbs, Active
    <3>3. Others
      BY <1>1, <2>2, <3>2, Bystander
    <3>4. Run(before'[a], req'[a].changes, at'[a] - 1) = files'
      BY <3>1, RunStep
    <3>5. Holds
      BY <1>0, <2>2, <3>1, <3>4 DEF Progress
    <3> QED BY <3>3, <3>5 DEF Undisturbed
  <2>3. CASE d = a /\ ~Begin(a)
    <3>1. pc[a] \in Active
      BY <1>1, <2>3, StepsOfActive DEF Active, Working
    <3>2. \A b \in Appliers \ {a} : pc[b] \notin Active
      BY <2>1, <2>3, <3>1 DEF EffectInv, Undisturbed
    <3>3. Others
      BY <1>1, <2>3, <3>2, Bystander
    <3>4. Holds
      BY <1>0, <1>1, <2>1, <2>3, <3>1, OwnProgress
    <3> QED BY <3>3, <3>4 DEF Undisturbed
  <2>4. CASE d # a
    <3>1. pc'[d] = pc[d] /\ at'[d] = at[d] /\ req'[d] = req[d]
      BY <1>1, <2>4, Bystander
    <3>2. Undisturbed(d)
      BY <1>1, <2>1, <3>1 DEF EffectInv
    <3>3. pc[a] \notin Active
      BY <2>4, <3>2 DEF Undisturbed
    <3>4. ~Begin(a)
      <4>1. Begin(a) => d \in Disturbs(a) /\ Disturbs(a) \subseteq disturbed'
        BY <1>1, <2>4, <3>1 DEF Begin, Disturbs, Active
      <4> QED BY <4>1
    <3>5. pc'[a] = "invalid" /\ files' = files
      BY <1>1, <3>3, <3>4, StepsOfActive
    <3>6. Others
      BY <1>1, <3>2, <3>5, Bystander DEF Undisturbed, Active, Working
    <3>7. held'[d] = held[d] /\ temp'[d] = temp[d] /\ before'[d] = before[d]
      BY <1>1, <2>4, KeepsMeaning
    <3>8. Holds
      BY <3>1, <3>2, <3>5, <3>7 DEF Undisturbed
    <3> QED BY <3>6, <3>8 DEF Undisturbed
  <2> QED BY <2>2, <2>3, <2>4
<1>2. ASSUME NEW a \in Appliers, ApplyStep(a) PROVE EffectInv'
  <2>1. \A b \in Appliers : req'[b] = meant'[b]
    BY <1>2, KeepsMeaning
  <2>2. \A d \in Appliers \ disturbed' : pc'[d] \in Active => Undisturbed(d)'
    BY <1>1, <1>2
  <2> QED BY <2>1, <2>2 DEF EffectInv
<1>3. CASE UNCHANGED applyVars
  BY <1>3 DEF applyVars, workVars, ghostVars, EffectInv, Undisturbed
<1> QED BY <1>2, <1>3 DEF ApplyNext

\* How a request ends.
LEMMA Ends ==
  ASSUME TypeInv, NEW a \in Appliers, ApplyStep(a)
  PROVE  \/ Finish(a) \/ Refuse(a) \/ Fail(a) \/ FailHalfway(a)
         \/ pc'[a] \in {"invalid"} \cup Active
<1> USE DEF TypeInv, ApplyTypeOK, GoTo, Proceed, Active, Working
<1>1. CASE Begin(a) \/ RejectPayload(a) \/ NoEdits(a) \/ ReadText(a) \/ CreateTemp(a) \/ WriteTemp(a)
  BY <1>1 DEF Begin, RejectPayload, NoEdits, ReadText, CreateTemp, WriteTemp
<1>2. CASE Install(a) \/ StatCreate(a) \/ StatSource(a) \/ StatTarget(a)
  BY <1>2 DEF Install, StatCreate, StatSource, StatTarget
<1>3. CASE ClearTarget(a) \/ Move(a) \/ StatDelete(a) \/ Remove(a)
  BY <1>3 DEF ClearTarget, Move, StatDelete, Remove
<1> QED BY <1>1, <1>2, <1>3 DEF ApplyStep

\* A request that no other overlaps and that is reported applied has had the effect
\* of all the changes the server asked for, one after the other, for any number of
\* changes, and all of them were permitted (edit_apply.go:61-122 and 149-169,
\* workspace_edit.go:88-511).
THEOREM AppliedAsAskedHolds == ApplySpec => AppliedAsAsked
<1> DEFINE Step(a) ==
      pc[a] # "applied" /\ pc'[a] = "applied" =>
        /\ files' = AfterChanges(a, Len(meant[a].changes))
        /\ \A i \in DOMAIN meant[a].changes : Permitted(meant[a], meant[a].changes[i])
<1>1. TypeInv /\ EffectInv /\ [ApplyNext]_applyVars => [\A a \in Appliers \ disturbed : Step(a)]_applyVars
  <2> SUFFICES ASSUME TypeInv, EffectInv, NEW b \in Appliers, ApplyStep(b),
                      NEW a \in Appliers \ disturbed, pc[a] # "applied", pc'[a] = "applied"
               PROVE  /\ files' = AfterChanges(a, Len(meant[a].changes))
                      /\ \A i \in DOMAIN meant[a].changes : Permitted(meant[a], meant[a].changes[i])
    BY DEF ApplyNext
  <2>1. a = b
    BY Bystander
  <2>2. Finish(a)
    <3>1. pc'[a] = "failed" \/ ~(Refuse(a) \/ Fail(a) \/ FailHalfway(a))
      BY DEF Refuse, Fail, FailHalfway, FailEdit, TypeInv, ApplyTypeOK
    <3> QED BY <2>1, <3>1, Ends DEF Active, Working
  <2>3. pc[a] = "next" /\ at[a] > Len(req[a].changes) /\ files' = files
    BY <2>2 DEF Finish, At
  <2>4. /\ req[a] = meant[a] /\ Len(req[a].changes) \in Nat
        /\ DOMAIN req[a].changes = 1..Len(req[a].changes)
    BY RequestShape DEF EffectInv, TypeInv, ApplyTypeOK
  <2>5. at[a] = Len(req[a].changes) + 1
    <3>1. at[a] \in 1..(Len(req[a].changes) + 1)
      BY <2>3 DEF TypeInv, ApplyTypeOK, AtChange, Ended
    <3> QED BY <2>3, <2>4, <3>1
  <2>6. at[a] - 1 = Len(req[a].changes)
    BY <2>4, <2>5
  <2>7. files = Run(before[a], req[a].changes, at[a] - 1)
    BY <2>3 DEF EffectInv, Undisturbed, Progress, Active
  <2>8. \A i \in DOMAIN req[a].changes : i < at[a]
    BY <2>4, <2>5
  <2>9. \A i \in DOMAIN req[a].changes : Permitted(req[a], req[a].changes[i])
    BY <2>3, <2>8 DEF TypeInv, InPlace
  <2> QED BY <2>3, <2>4, <2>6, <2>7, <2>9, AfterIsRun
<1> QED BY <1>1, TypeInit, TypeNext, EffectInit, EffectNext, PTL DEF ApplySpec, AppliedAsAsked

\* One that is reported failed at a change has had the effect of the changes before
\* it, all of them permitted; of the change that failed there is nothing unless it is
\* permitted, and then no more than a destination that is removed, or a directory
\* that is removed in part.  No change of it is one that cannot be decoded
\* (edit_apply.go:124-135, 489-494 and 531-537).
THEOREM FailedAtPrefixHolds == ApplySpec => FailedAtPrefix
<1> DEFINE Step(a) ==
      pc[a] # "failed" /\ pc'[a] = "failed" =>
        LET n == at'[a]
            changes == meant[a].changes
            prefix == AfterChanges(a, n - 1)
        IN /\ temp'[a] = Nothing
           /\ \A i \in DOMAIN changes : DecodableChange(changes[i])
           /\ \A i \in 1..(n - 1) : Permitted(meant[a], changes[i])
           /\ \/ files' = prefix
              \/ Permitted(meant[a], changes[n]) /\ Leaves(changes[n], prefix, files')
<1>1. TypeInv /\ EffectInv /\ [ApplyNext]_applyVars => [\A a \in Appliers \ disturbed : Step(a)]_applyVars
  <2> SUFFICES ASSUME TypeInv, EffectInv, NEW b \in Appliers, ApplyStep(b),
                      NEW a \in Appliers \ disturbed, pc[a] # "failed", pc'[a] = "failed"
               PROVE  Step(a)
    BY DEF ApplyNext
  <2>1. a = b
    BY Bystander
  <2>2. Refuse(a) \/ Fail(a) \/ FailHalfway(a)
    <3>1. pc'[a] = "applied" \/ ~Finish(a)
      BY DEF Finish, TypeInv, ApplyTypeOK
    <3> QED BY <2>1, <3>1, Ends DEF Active, Working
  <2>3. pc[a] \in Active /\ at' = at /\ temp'[a] = Nothing
    BY <2>2 DEF Refuse, Fail, FailHalfway, FailEdit, TypeInv, ApplyTypeOK, Active, Working, Due, At
  <2>4. req[a] = meant[a]
    BY DEF EffectInv
  <2>5. \A i \in DOMAIN meant[a].changes : DecodableChange(meant[a].changes[i])
    BY <2>3, <2>4 DEF TypeInv, InPlace, Active, Working
  <2>6. \A i \in 1..(at[a] - 1) : Permitted(meant[a], meant[a].changes[i])
    <3>1. DOMAIN req[a].changes = 1..Len(req[a].changes) /\ Len(req[a].changes) \in Nat
      BY RequestShape DEF TypeInv, ApplyTypeOK
    <3>2. at[a] \in 1..(Len(req[a].changes) + 1)
      BY <2>3 DEF TypeInv, ApplyTypeOK, AtChange, Active, Working, Ended
    <3>3. \A i \in 1..(at[a] - 1) : i \in DOMAIN req[a].changes /\ i < at[a]
      BY <3>1, <3>2
    <3> QED BY <2>3, <2>4, <3>3 DEF TypeInv, InPlace, Active, Working
  <2> DEFINE c == Change(a)
             prefix == Run(before[a], req[a].changes, at[a] - 1)
  <2>7. Progress(files, pc[a], c, held[a], temp[a], prefix)
    BY <2>3 DEF EffectInv, Undisturbed, Change
  <2>8. AfterChanges(a, at'[a] - 1) = prefix /\ meant[a].changes[at'[a]] = c
    BY <2>3, <2>4, AfterIsRun DEF Change
  <2>9. pc[a] \in {"clear", "move", "removeAll"} => Permitted(req[a], c)
    BY DEF TypeInv, InPlace, Working
  <2>10. CASE Refuse(a) \/ Fail(a)
    <3>1. files' = files
      BY <2>10 DEF Refuse, Fail
    <3>2. pc[a] # "move" => files' = prefix
      BY <2>7, <3>1 DEF Progress
    <3>3. CASE pc[a] = "move"
      <4>1. c.kind = "rename" /\ prefix[c.path] # Nothing
        BY <2>7, <3>3 DEF Progress
      <4>2. files' = prefix \/ (files' = [prefix EXCEPT ![c.to] = Nothing] /\ Forced(c))
        BY <2>7, <3>1, <3>3 DEF Progress
      <4>3. files' = prefix \/ (Permitted(req[a], c) /\ Leaves(c, prefix, files'))
        BY <2>9, <3>3, <4>1, <4>2 DEF Leaves
      <4> QED BY <2>3, <2>4, <2>5, <2>6, <2>8, <4>3
    <3>4. CASE files' = prefix
      BY <2>3, <2>5, <2>6, <2>8, <3>4
    <3> QED BY <3>2, <3>3, <3>4
  <2>11. CASE FailHalfway(a)
    <3>1. CASE pc[a] = "clear"
      <4>1. files[c.to] \in Directories /\ files' = [files EXCEPT ![c.to] = Remnant]
        BY <2>11, <3>1 DEF FailHalfway, At
      <4>2. files = prefix /\ c.kind = "rename" /\ Forced(c) /\ prefix[c.path] # Nothing
        BY <2>7, <3>1 DEF Progress
      <4>3. Leaves(c, prefix, files')
        BY <4>1, <4>2 DEF Leaves
      <4> QED BY <2>3, <2>4, <2>5, <2>6, <2>8, <2>9, <3>1, <4>3
    <3>2. CASE pc[a] = "removeAll"
      <4>1. files[c.path] \in Directories /\ files' = [files EXCEPT ![c.path] = Remnant]
        BY <2>11, <3>2 DEF FailHalfway, At
      <4>2. files = prefix /\ c.kind = "delete" /\ Forced(c)
        BY <2>7, <3>2 DEF Progress
      <4>3. Leaves(c, prefix, files')
        BY <4>1, <4>2 DEF Leaves
      <4> QED BY <2>3, <2>4, <2>5, <2>6, <2>8, <2>9, <3>2, <4>3
    <3> QED BY <2>11, <3>1, <3>2 DEF FailHalfway, At
  <2> QED BY <2>2, <2>10, <2>11
<1> QED BY <1>1, TypeInit, TypeNext, EffectInit, EffectNext, PTL DEF ApplySpec, FailedAtPrefix
=============================================================================
