---------------------- MODULE DiagnosticsLookup_proofs ----------------------
(***************************************************************************)
(* Proofs about DiagnosticsLookup, for any number of lookups, documents    *)
(* and publishes and any bounds.  A lookup is a run of DocumentSync and of *)
(* the cache at once; so what is proved of the documents holds here too.   *)
(* That a new text is answered, and that an undisturbed answer is about    *)
(* it, then follow from what is on its way from the text to its analysis   *)
(* and its publish, whatever order the publishes arrive in.                *)
(***************************************************************************)
EXTENDS DiagnosticsLookup, DocumentSync_proofs

\* The steps of DocumentSync a lookup takes part in: all but the shutdown.
OpenNext == (\E u \in Uris : Save(u)) \/ (\E c \in Callers : Call(c)) \/ Server \/ Lose

LEMMA LookupIsOpen == ASSUME [LookupNext]_lookupVars PROVE OpenNext \/ UNCHANGED syncVars
<1>1. ASSUME NEW c \in Callers, Start(c) PROVE OpenNext
  BY <1>1, LookupAssumption DEF Start, OpenNext, Call
<1>2. ASSUME NEW c \in Callers, Lookup(c) PROVE OpenNext \/ UNCHANGED syncVars
  BY <1>2 DEF Lookup, Baseline, NewCall, LookupSync, AcquirePush, PushAnswers, PushTimesOut, AcquirePull, PullAnswers,
              LookupFails, OpenNext, Call, Sync
<1>3. ASSUME NEW u \in Uris, SaveFile(u) \/ ServerPublishes(u) \/ ServerReconsiders(u) \/ SettleWindow(u)
      PROVE  OpenNext \/ UNCHANGED syncVars
  BY <1>3 DEF SaveFile, ServerPublishes, ServerReconsiders, SettleWindow, OpenNext
<1>6. ASSUME NEW u \in Uris, Dispatch(u) \/ DropLost(u) PROVE OpenNext \/ UNCHANGED syncVars
  BY <1>6 DEF Dispatch, DropLost
<1>4. CASE ServerReads \/ ServerReports \/ LoseServer
  BY <1>4 DEF ServerReads, ServerReports, LoseServer, OpenNext, Server
<1>5. CASE UNCHANGED lookupVars
  BY <1>5 DEF lookupVars
<1> QED BY <1>1, <1>2, <1>3, <1>4, <1>5, <1>6 DEF LookupNext

LEMMA LookupIsSync == [LookupNext]_lookupVars => [SyncNext]_syncVars
  BY LookupIsOpen DEF OpenNext, SyncNext

\* Lookups are calls of DocumentSync, whatever else they do.
THEOREM LookupImplementsSync == LookupSpec => SyncSpec
<1>1. LookupInit => SyncInit
  BY DEF LookupInit
<1> QED BY <1>1, LookupIsSync, PTL DEF LookupSpec, SyncSpec

\* The session is not shut down, and every notification is about a text.
NoteInv ==
  /\ closing = "no"
  /\ \A i \in DOMAIN wire : wire[i].kind \in Syncs =>
       wire[i].kind \in {"didOpen", "didChange"} /\ wire[i].doc.version \in 1..MaxVersion

SInv == SyncTypeOK /\ StopInv /\ ServerFollows /\ WaitInv /\ CallInv /\ LegalInv /\ NoteInv

LEMMA NoteNext ==
  ASSUME SyncTypeOK, NoteInv, OpenNext \/ UNCHANGED syncVars
  PROVE  NoteInv'
<1> DEFINE IsNote(m) == m.kind \in Syncs => m.kind \in {"didOpen", "didChange"} /\ m.doc.version \in 1..MaxVersion
<1>t. /\ wire \in Seq(Messages) /\ DOMAIN wire = 1..Len(wire) /\ Len(wire) \in Nat
      /\ curi \in [Callers -> Uris] /\ ctext \in [Callers -> 0..MaxEdits] /\ MaxVersion \in Nat
  BY WireType, BoundsAssumption DEF SyncTypeOK
<1> USE DEF callVars, shutVars
<1>k. ASSUME wire' = wire, closing' = closing PROVE NoteInv'
  BY <1>k DEF NoteInv
<1>n. ASSUME NEW m \in Messages, IsNote(m), wire' = Append(wire, m), closing' = closing PROVE NoteInv'
  <2>1. /\ DOMAIN wire' = DOMAIN wire \cup {Len(wire) + 1} /\ wire'[Len(wire) + 1] = m
        /\ \A i \in DOMAIN wire : wire'[i] = wire[i]
    BY <1>n, <1>t, AppendFacts
  <2> QED BY <1>n, <2>1 DEF NoteInv
<1>1. ASSUME NEW v \in Uris, Save(v) PROVE NoteInv'
  BY <1>1, <1>k DEF Save
<1>2. ASSUME NEW c \in Callers, NEW v \in Uris, NEW t \in Tools, Read(c, v, t) PROVE NoteInv'
  BY <1>2, <1>k DEF Read
<1>3. ASSUME NEW c \in Callers, Bind(c) PROVE NoteInv'
  BY <1>3, <1>k DEF Bind
<1>4. ASSUME NEW c \in Callers, Refused(c) \/ SyncFails(c) \/ Return(c) PROVE NoteInv'
  BY <1>4, <1>k DEF Refused, SyncFails, Return, End
<1>5. ASSUME NEW c \in Callers, SyncOpen(c) PROVE NoteInv'
  <2> DEFINE m == DidOpen(curi[c], ctext[c])
  <2>1. Doc(1, ctext[c]) \in Docs /\ 1 \in 1..MaxVersion
    BY <1>t, BoundsAssumption, DocType
  <2>2. m \in Messages /\ IsNote(m)
    BY <1>t, <2>1, NotifyType DEF DidOpen, Notify, Doc, Syncs, Late
  <2> HIDE DEF m
  <2>3. wire' = Append(wire, m) /\ closing' = closing
    BY <1>5 DEF SyncOpen, Synced, Write, m
  <2> QED BY <1>n, <2>2, <2>3
<1>6. ASSUME NEW c \in Callers, SyncUnchanged(c) PROVE NoteInv'
  BY <1>6, <1>k DEF SyncUnchanged, Synced
<1>7. ASSUME NEW c \in Callers, SyncChange(c) PROVE NoteInv'
  <2> DEFINE m == DidChange(curi[c], NextVersion(c), ctext[c])
  <2>0. openDocs[curi[c]].version \in Nat
    BY <1>t, DocFields DEF SyncTypeOK
  <2>1. NextVersion(c) \in 1..MaxVersion
    BY <1>7, <1>t, <2>0 DEF SyncChange, NextVersion
  <2>2. Doc(NextVersion(c), ctext[c]) \in Docs
    BY <1>t, <2>1, DocType
  <2>3. m \in Messages /\ IsNote(m)
    BY <1>t, <2>1, <2>2, NotifyType DEF DidChange, Notify, Doc, Syncs, Late
  <2> HIDE DEF m
  <2>4. wire' = Append(wire, m) /\ closing' = closing
    BY <1>7 DEF SyncChange, Synced, Write, m
  <2> QED BY <1>n, <2>3, <2>4
<1>9. ASSUME NEW c \in Callers, NEW needs \in SUBSET Capabilities, Send(c, needs) PROVE NoteInv'
  <2> DEFINE m == Request(curi[c], c, needs)
  <2>1. m \in Messages /\ IsNote(m)
    BY <1>t, RequestType DEF Request, Syncs
  <2> HIDE DEF m
  <2>2. wire' = Append(wire, m) /\ closing' = closing
    BY <1>9 DEF Send, Write, m
  <2> QED BY <1>n, <2>1, <2>2
<1>10. ASSUME NEW c \in Callers, Ask(c) \/ Resolve(c) PROVE NoteInv'
  <2>1. Takes(tool[c]) \in SUBSET Capabilities /\ Resolves(tool[c]) \in SUBSET Capabilities
    BY NeedsType DEF SyncTypeOK
  <2> QED BY <1>9, <1>10, <2>1 DEF Ask, Resolve
<1>13. ASSUME NEW c \in Callers, AskFails(c) PROVE NoteInv'
  <2>1. /\ DOMAIN wire' = DOMAIN wire /\ closing' = closing
        /\ \A j \in DOMAIN wire : wire'[j].kind = wire[j].kind /\ wire'[j].doc = wire[j].doc
    BY <1>13, DropWait DEF AskFails, End
  <2> QED BY <2>1 DEF NoteInv
<1>14. CASE Server
  <2>1. wire # <<>> /\ wire' = Tail(wire) /\ closing' = closing
    BY <1>14 DEF Server, ServerSyncs, ServerAnswers, ServerStops, ServerRefuses
  <2>2. /\ DOMAIN wire' = 1..(Len(wire) - 1)
        /\ \A i \in 1..(Len(wire) - 1) : wire'[i] = wire[i + 1] /\ i + 1 \in DOMAIN wire
    BY <1>t, <2>1, TailFacts
  <2> QED BY <2>1, <2>2 DEF NoteInv
<1>16. CASE Lose
  BY <1>16 DEF Lose, NoteInv
<1>18. CASE UNCHANGED syncVars
  BY <1>18, <1>k DEF syncVars
<1> QED
  BY <1>1, <1>2, <1>3, <1>4, <1>5, <1>6, <1>7, <1>10, <1>13, <1>14, <1>16, <1>18
  DEF OpenNext, Call, Sync

LEMMA SInvInit == LookupInit => SInv
<1> SUFFICES ASSUME SyncInit PROVE SInv
  BY DEF LookupInit
<1>1. NoteInv
  BY DEF SyncInit, NoteInv
<1> QED BY <1>1, SyncTypeInit, StopInit, FollowsInit, WaitInit, CallInit, LegalInit DEF SInv

LEMMA SInvNext == SInv /\ [LookupNext]_lookupVars => SInv'
<1> SUFFICES ASSUME SInv, [LookupNext]_lookupVars PROVE SInv'
  OBVIOUS
<1>1. [SyncNext]_syncVars /\ (OpenNext \/ UNCHANGED syncVars)
  BY LookupIsSync, LookupIsOpen
<1>2. NoteInv'
  BY <1>1, NoteNext DEF SInv
<1> QED BY <1>1, <1>2, SyncTypeNext, StopNext, FollowsNext, WaitNext, CallNext, LegalNext DEF SInv

-----------------------------------------------------------------------------
(* Types                                                                   *)

\* One publish more, or one less, of the stamp s of u.
LEMMA CountUp ==
  ASSUME NEW p \in [Uris -> [1..MaxStamp -> Nat]], NEW u \in Uris, NEW s \in 1..MaxStamp,
         NEW q, q = [p EXCEPT ![u][s] = @ + 1]
  PROVE  /\ q \in [Uris -> [1..MaxStamp -> Nat]]
         /\ \A x \in Uris : x # u => q[x] = p[x]
         /\ \A t \in 1..MaxStamp : t # s => q[u][t] = p[u][t]
         /\ q[u][s] = p[u][s] + 1 /\ p[u][s] \in Nat
<1> DEFINE S == 1..MaxStamp
           f == p[u]
           k == f[s] + 1
           g == [f EXCEPT ![s] = k]
<1> HIDE DEF S
<1>1. p \in [Uris -> [S -> Nat]] /\ s \in S
  BY DEF S
<1>2. f \in [S -> Nat] /\ q = [p EXCEPT ![u] = g]
  BY <1>1
<1> HIDE DEF f
<1>3. f[s] \in Nat
  BY <1>1, <1>2
<1>4. k \in Nat
  BY <1>3 DEF f
<1> HIDE DEF k
<1>5. g \in [S -> Nat] /\ g[s] = k /\ \A t \in S : t # s => g[t] = f[t]
  BY <1>1, <1>2, <1>4
<1> HIDE DEF g
<1>6. q \in [Uris -> [S -> Nat]] /\ q[u] = g /\ \A x \in Uris : x # u => q[x] = p[x]
  BY <1>1, <1>2, <1>5
<1>7. q[u][s] = f[s] + 1 /\ \A t \in S : t # s => q[u][t] = f[t]
  BY <1>5, <1>6 DEF k
<1> QED BY <1>3, <1>6, <1>7 DEF f, S

LEMMA CountDown ==
  ASSUME NEW p \in [Uris -> [1..MaxStamp -> Nat]], NEW u \in Uris, NEW s \in 1..MaxStamp, p[u][s] > 0,
         NEW q, q = [p EXCEPT ![u][s] = @ - 1]
  PROVE  /\ q \in [Uris -> [1..MaxStamp -> Nat]]
         /\ \A x \in Uris : x # u => q[x] = p[x]
         /\ \A t \in 1..MaxStamp : t # s => q[u][t] = p[u][t]
         /\ q[u][s] = p[u][s] - 1 /\ p[u][s] \in Nat
<1> DEFINE S == 1..MaxStamp
           f == p[u]
           k == f[s] - 1
           g == [f EXCEPT ![s] = k]
<1> HIDE DEF S
<1>1. p \in [Uris -> [S -> Nat]] /\ s \in S
  BY DEF S
<1>2. f \in [S -> Nat] /\ q = [p EXCEPT ![u] = g]
  BY <1>1
<1> HIDE DEF f
<1>3. f[s] \in Nat
  BY <1>1, <1>2
<1>4. k \in Nat
  BY <1>3 DEF f
<1> HIDE DEF k
<1>5. g \in [S -> Nat] /\ g[s] = k /\ \A t \in S : t # s => g[t] = f[t]
  BY <1>1, <1>2, <1>4
<1> HIDE DEF g
<1>6. q \in [Uris -> [S -> Nat]] /\ q[u] = g /\ \A x \in Uris : x # u => q[x] = p[x]
  BY <1>1, <1>2, <1>5
<1>7. q[u][s] = f[s] - 1 /\ \A t \in S : t # s => q[u][t] = f[t]
  BY <1>5, <1>6 DEF k
<1> QED BY <1>3, <1>6, <1>7 DEF f, S

\* Stamps of a session are above those of the session before.
LEMMA StampRange ==
  ASSUME losses \in 0..MaxLosses, NEW v \in 0..MaxVersion
  PROVE  /\ MaxStamp \in Nat /\ losses * MaxVersion \in Nat
         /\ Stamp(v) \in losses * MaxVersion .. MaxStamp
         /\ v # 0 => Stamp(v) \in 1..MaxStamp
         /\ Stamp(v) <= (losses + 1) * MaxVersion
<1> DEFINE M == MaxVersion
<1>1. M \in Nat \ {0} /\ MaxLosses \in Nat /\ losses \in Nat /\ losses <= MaxLosses
  BY BoundsAssumption
<1>2. \A k \in Nat : (k + 1) * M = k * M + M /\ k * M \in Nat
  BY <1>1
<1>3. losses * M <= MaxLosses * M
  BY <1>1
<1> QED BY <1>1, <1>2, <1>3 DEF Stamp, MaxStamp

CallPhase(c) ==
  /\ phase[c] # "idle" => /\ wuri[c] = curi[c] /\ pc[c] \notin {"idle", "read"}
                          /\ base[c] <= seq[curi[c]] /\ result[c].kind = "none"
  /\ phase[c] = "waiting" => /\ pc[c] \in {"synced", "stranded"}
                             /\ pc[c] = "synced" => "pullDiagnostics" \notin caps
  /\ pc[c] # "idle" => tool[c] = "diagnostics"

Types ==
  /\ seq \in [Uris -> 0..MaxSeq]
  /\ diags \in [Uris -> 0..MaxStamp]
  /\ quiet \in [Uris -> BOOLEAN]
  /\ phase \in [Callers -> {"idle", "based", "waiting"}]
  /\ wuri \in [Callers -> Uris]
  /\ base \in [Callers -> 0..MaxSeq]
  /\ DOMAIN result = Callers
  /\ due \in [Uris -> SUBSET (1..MaxVersion)]
  /\ published \in [Uris -> [1..MaxStamp -> Nat]]
  /\ wanted \in [Callers -> 0..MaxStamp]
  /\ calm \in [Callers -> BOOLEAN]
  /\ wrote \in [Callers -> BOOLEAN]
  /\ hurried \in [Callers -> BOOLEAN]

LInv == SInv /\ Types /\ \A c \in Callers : CallPhase(c)

LEMMA LInvType == ASSUME LInv PROVE LookupTypeOK
  BY DEF LInv, SInv, Types, CallPhase, LookupTypeOK

LEMMA LInvInit == LookupInit => LInv
<1> SUFFICES ASSUME LookupInit PROVE LInv
  OBVIOUS
<1>0. SyncInit /\ Cache!CacheInit
  BY DEF LookupInit
<1>1. 0 \in 0..MaxSeq /\ 0 \in 0..MaxStamp
  <2>1. losses \in 0..MaxLosses /\ 0 \in 0..MaxVersion
    BY <1>0, BoundsAssumption DEF SyncInit
  <2> QED BY <2>1, StampRange, LookupAssumption
<1>2. seq \in [Uris -> 0..MaxSeq] /\ quiet \in [Uris -> BOOLEAN] /\ phase \in [Callers -> {"idle", "based", "waiting"}]
  BY <1>0, <1>1 DEF Cache!CacheInit
<1>3. wuri \in [Callers -> Uris] /\ base \in [Callers -> 0..MaxSeq] /\ DOMAIN result = Callers
  BY <1>0, <1>1 DEF Cache!CacheInit
<1>4. /\ diags \in [Uris -> 0..MaxStamp] /\ due \in [Uris -> SUBSET (1..MaxVersion)] /\ wanted \in [Callers -> 0..MaxStamp]
      /\ calm \in [Callers -> BOOLEAN] /\ wrote \in [Callers -> BOOLEAN] /\ hurried \in [Callers -> BOOLEAN]
  BY <1>1 DEF LookupInit
<1>5. published \in [Uris -> [1..MaxStamp -> Nat]]
  BY DEF LookupInit
<1>6. \A c \in Callers : CallPhase(c)
  BY <1>0 DEF CallPhase, Cache!CacheInit, SyncInit
<1> QED BY <1>2, <1>3, <1>4, <1>5, <1>6, SInvInit DEF LInv, Types

\* The three ways through LookupSync.
SyncWrites(c) ==
  /\ phase[c] = "based"
  /\ SyncOpen(c) \/ SyncChange(c)
  /\ wrote' = [wrote EXCEPT ![c] = TRUE]
  /\ wanted' = [wanted EXCEPT ![c] = Stamp(cver'[c])]
  /\ calm' = [d \in Callers |-> calm[d] /\ (d = c \/ pc[d] # "bound" \/ curi[d] # curi[c])]
  /\ UNCHANGED <<cacheVars, due, published, hurried>>
SyncKeeps(c) ==
  /\ phase[c] = "based"
  /\ SyncUnchanged(c)
  /\ wanted' = [wanted EXCEPT ![c] = Stamp(cver'[c])]
  /\ UNCHANGED <<cacheVars, wrote, calm, due, published, hurried>>
SyncBreaks(c) ==
  /\ SyncFails(c)
  /\ Cache!Forgo(c)
  /\ ForgetText(c, TRUE) /\ ForgetWrite(c)
  /\ UNCHANGED <<due, published, hurried>>

LEMMA SyncSplit ==
  ASSUME NEW c \in Callers, LookupSync(c)
  PROVE  SyncWrites(c) \/ SyncKeeps(c) \/ SyncBreaks(c)
  BY DEF LookupSync, SyncWrites, SyncKeeps, SyncBreaks

LEMMA TypesKeep ==
  ASSUME LInv, [LookupNext]_lookupVars
  PROVE  Types'
<1>s. SInv' /\ SyncTypeOK /\ NoteInv
  BY SInvNext DEF LInv, SInv
<1>t. Types /\ losses \in 0..MaxLosses /\ MaxVersion \in Nat /\ MaxSeq \in Nat /\ cver' \in [Callers -> 0..MaxVersion]
      /\ curi \in [Callers -> Uris] /\ wire \in Seq(Messages)
  BY <1>s, BoundsAssumption, LookupAssumption DEF LInv, SInv, SyncTypeOK
<1>z. 0 \in 0..MaxStamp
  <2>1. 0 \in 0..MaxVersion
    BY <1>t
  <2> QED BY <1>t, <2>1, StampRange
<1> USE DEF Types, cacheVars, ghostVars
<1>1. ASSUME NEW c \in Callers, Start(c) PROVE Types'
  BY <1>1, <1>t DEF Start
<1>2. ASSUME NEW c \in Callers, Baseline(c) PROVE Types'
  BY <1>2, <1>t, <1>z DEF Baseline, NewCall, ForgetText, ForgetWrite, Cache!TakeBaseline, Cache!docVars
<1>3. ASSUME NEW c \in Callers, LookupSync(c) PROVE Types'
  <2>1. Stamp(cver'[c]) \in 0..MaxStamp
    <3>1. cver'[c] \in 0..MaxVersion
      BY <1>t
    <3>2. \A v \in 0..MaxVersion : Stamp(v) \in losses * MaxVersion .. MaxStamp /\ losses * MaxVersion \in Nat /\ MaxStamp \in Nat
      BY <1>t, StampRange
    <3> QED BY <3>1, <3>2
  <2>2. ASSUME wanted' = [wanted EXCEPT ![c] = Stamp(cver'[c])] PROVE wanted' \in [Callers -> 0..MaxStamp]
    BY <1>t, <2>1, <2>2
  <2>3. CASE SyncWrites(c)
    <3>1. calm' \in [Callers -> BOOLEAN]
      BY <2>3 DEF SyncWrites
    <3> QED BY <1>t, <2>2, <2>3, <3>1 DEF SyncWrites
  <2>4. CASE SyncKeeps(c)
    BY <1>t, <2>2, <2>4 DEF SyncKeeps
  <2>5. CASE SyncBreaks(c)
    BY <1>t, <1>z, <2>5 DEF SyncBreaks, ForgetText, ForgetWrite, Cache!Forgo, Cache!docVars
  <2> QED BY <1>3, <2>3, <2>4, <2>5, SyncSplit
<1>4. ASSUME NEW c \in Callers, AcquirePush(c) PROVE Types'
  BY <1>4, <1>t DEF AcquirePush, Cache!BeginWait, Cache!docVars
<1>5. ASSUME NEW c \in Callers, PushAnswers(c) PROVE Types'
  BY <1>5, <1>t DEF PushAnswers, ForgetWrite, Cache!WaitReturns, Cache!docVars
<1>6. ASSUME NEW c \in Callers, PushTimesOut(c) PROVE Types'
  <2>1. hurried' \in [Callers -> BOOLEAN]
    BY <1>6, <1>t DEF PushTimesOut
  <2> QED BY <1>6, <1>t, <1>z, <2>1 DEF PushTimesOut, ForgetText, Cache!WaitFails, Cache!docVars
<1>7. ASSUME NEW c \in Callers, AcquirePull(c) PROVE Types'
  BY <1>7, <1>t DEF AcquirePull
<1>8. ASSUME NEW c \in Callers, PullAnswers(c) PROVE Types'
  BY <1>8, <1>t, <1>z DEF PullAnswers, ForgetText, ForgetWrite, Cache!Forgo, Cache!Snapshot, Cache!docVars
<1>9. ASSUME NEW c \in Callers, LookupFails(c) PROVE Types'
  <2>1. CASE Cache!Forgo(c) /\ ForgetText(c, TRUE) /\ ForgetWrite(c)
    BY <1>9, <1>t, <1>z, <2>1 DEF LookupFails, ForgetText, ForgetWrite, Cache!Forgo, Cache!docVars
  <2>2. CASE UNCHANGED <<cacheVars, wanted, calm, wrote>>
    BY <1>9, <1>t, <2>2 DEF LookupFails
  <2> QED BY <1>9, <2>1, <2>2 DEF LookupFails
<1>10. ASSUME NEW u \in Uris, SaveFile(u) PROVE Types'
  BY <1>10, <1>t DEF SaveFile
<1>11. ASSUME NEW u \in Uris, ServerPublishes(u) PROVE Types'
  <2>1. PICK v \in due[u] : /\ published' = [published EXCEPT ![u][Stamp(v)] = @ + 1]
                            /\ due' \in {[due EXCEPT ![u] = @ \ {v}], [due EXCEPT ![u] = {w \in @ : w > v}]}
    BY <1>11 DEF ServerPublishes
  <2>5. due' \in [Uris -> SUBSET (1..MaxVersion)]
    <3>1. due[u] \ {v} \in SUBSET (1..MaxVersion) /\ {w \in due[u] : w > v} \in SUBSET (1..MaxVersion)
      BY <1>t
    <3>2. CASE due' = [due EXCEPT ![u] = @ \ {v}]
      BY <1>t, <3>1, <3>2
    <3>3. CASE due' = [due EXCEPT ![u] = {w \in @ : w > v}]
      BY <1>t, <3>1, <3>3
    <3> QED BY <2>1, <3>2, <3>3
  <2>6. published' \in [Uris -> [1..MaxStamp -> Nat]]
    <3>1. v \in 0..MaxVersion /\ v # 0
      BY <1>t
    <3>2. Stamp(v) \in 1..MaxStamp
      BY <1>t, <3>1, StampRange
    <3> HIDE DEF Stamp, MaxStamp
    <3> QED BY <1>t, <2>1, <3>2, CountUp
  <2> QED BY <1>11, <1>t, <2>5, <2>6 DEF ServerPublishes
<1>12. ASSUME NEW u \in Uris, ServerReconsiders(u) PROVE Types'
  <2>1. srv[u].version \in 1..MaxVersion
    <3>1. srv[u] \in Docs /\ srv[u] # Absent
      BY <1>12, <1>s DEF ServerReconsiders, SyncTypeOK
    <3> QED BY <3>1 DEF Docs
  <2>2. due' \in [Uris -> SUBSET (1..MaxVersion)]
    BY <1>12, <1>t, <2>1 DEF ServerReconsiders
  <2>3. calm' \in [Callers -> BOOLEAN]
    BY <1>12 DEF ServerReconsiders
  <2> QED BY <1>12, <1>t, <2>2, <2>3 DEF ServerReconsiders
<1>13. ASSUME NEW u \in Uris, SettleWindow(u) PROVE Types'
  BY <1>13, <1>t DEF SettleWindow, Cache!Settle
<1>14. CASE ServerReads
  <2>1. wire # <<>> /\ Head(wire).kind \in Syncs
    BY <1>14 DEF ServerReads, ServerSyncs
  <2>2. Head(wire).doc.version \in 1..MaxVersion
    <3>1. 1 \in DOMAIN wire /\ Head(wire) = wire[1]
      BY <1>t, <2>1
    <3> QED BY <1>s, <2>1, <3>1 DEF NoteInv
  <2>3. due' \in [Uris -> SUBSET (1..MaxVersion)]
    BY <1>14, <1>t, <2>2 DEF ServerReads
  <2> QED BY <1>14, <1>t, <2>3 DEF ServerReads
<1>15. CASE ServerReports
  BY <1>15, <1>t DEF ServerReports
<1>16. ASSUME NEW u \in Uris, Dispatch(u) PROVE Types'
  <2>1. PICK s \in 1..MaxStamp : /\ published[u][s] > 0
                                 /\ published' = [published EXCEPT ![u][s] = @ - 1]
                                 /\ Cache!Publish(u, s)
    BY <1>16 DEF Dispatch
  <2>2. published' \in [Uris -> [1..MaxStamp -> Nat]]
    <3> HIDE DEF MaxStamp
    <3> QED BY <1>t, <2>1, CountDown
  <2>3. /\ seq[u] \in 0..MaxSeq /\ seq[u] < MaxSeq
        /\ seq' = [seq EXCEPT ![u] = @ + 1]
        /\ diags' = [diags EXCEPT ![u] = s]
        /\ quiet' = [quiet EXCEPT ![u] = FALSE]
    BY <1>t, <2>1 DEF Cache!Publish
  <2>4. seq' \in [Uris -> 0..MaxSeq] /\ diags' \in [Uris -> 0..MaxStamp] /\ quiet' \in [Uris -> BOOLEAN]
    <3>1. seq[u] + 1 \in 0..MaxSeq /\ s \in 0..MaxStamp
      BY <1>t, <2>3
    <3> QED BY <1>t, <2>3, <3>1
  <2>5. UNCHANGED <<phase, wuri, base, result, due, wanted, calm, wrote, hurried>>
    BY <1>16 DEF Dispatch, Cache!Publish
  <2> QED BY <1>t, <2>2, <2>4, <2>5
<1>19. ASSUME NEW u \in Uris, DropLost(u) PROVE Types'
  <2>1. PICK s \in 1..(losses * MaxVersion) : /\ published[u][s] > 0
                                              /\ published' = [published EXCEPT ![u][s] = @ - 1]
    BY <1>19 DEF DropLost
  <2>2. published' \in [Uris -> [1..MaxStamp -> Nat]]
    <3>1. losses * MaxVersion \in Nat /\ losses * MaxVersion <= MaxStamp /\ MaxStamp \in Nat
      <4>1. 0 \in 0..MaxVersion
        BY <1>t
      <4>2. /\ MaxStamp \in Nat /\ losses * MaxVersion \in Nat /\ Stamp(0) \in losses * MaxVersion .. MaxStamp
        BY <1>t, <4>1, StampRange
      <4> HIDE DEF MaxStamp, Stamp
      <4> QED BY <4>2
    <3> HIDE DEF MaxStamp
    <3>2. s \in 1..MaxStamp
      BY <3>1
    <3> QED BY <1>t, <2>1, <3>2, CountDown
  <2> QED BY <1>19, <1>t, <2>2 DEF DropLost
<1>17. CASE LoseServer
  BY <1>17, <1>t DEF LoseServer
<1>18. CASE UNCHANGED lookupVars
  BY <1>18, <1>t DEF lookupVars
<1> QED
  BY <1>1, <1>2, <1>3, <1>4, <1>5, <1>6, <1>7, <1>8, <1>9, <1>10, <1>11, <1>12, <1>13, <1>14, <1>15, <1>16, <1>17, <1>18, <1>19
  DEF LookupNext, Lookup

LEMMA PhaseNext ==
  ASSUME LInv, [LookupNext]_lookupVars, NEW d \in Callers
  PROVE  CallPhase(d)'
<1>t. /\ Types /\ CallPhase(d) /\ WaitInv /\ MaxSeq \in Nat
      /\ curi \in [Callers -> Uris] /\ tool \in [Callers -> Tools \cup {"none"}] /\ wire \in Seq(Messages)
      /\ pc \in [Callers -> {"idle", "read", "bound", "synced", "asked", "answered", "stranded", "lost"}]
  BY LookupAssumption DEF LInv, SInv, SyncTypeOK
<1>r. seq \in [Uris -> 0..MaxSeq] /\ base \in [Callers -> 0..MaxSeq] /\ wuri \in [Callers -> Uris] /\ DOMAIN result = Callers
      /\ phase \in [Callers -> {"idle", "based", "waiting"}]
  BY <1>t DEF Types
<1> USE DEF CallPhase, cacheVars, ghostVars, callVars, shutVars
<1>b. ASSUME UNCHANGED <<seq, phase, wuri, base, result, curi, caps, pc, tool>> PROVE CallPhase(d)'
  BY <1>b, <1>t
<1>1. ASSUME NEW c \in Callers, Start(c) PROVE CallPhase(d)'
  BY <1>1, <1>t, <1>r, LookupAssumption DEF Start, Read, Bind, Refused, End
<1>2. ASSUME NEW c \in Callers, Baseline(c) PROVE CallPhase(d)'
  <2>1. Cache!TakeBaseline(c, curi[c]) /\ UNCHANGED <<curi, caps, pc, tool>> /\ pc[c] \in {"bound", "stranded"}
    BY <1>2 DEF Baseline, NewCall, syncVars
  <2> QED BY <2>1, <1>t, <1>r DEF Cache!TakeBaseline, Cache!docVars, Cache!NoResult
<1>3. ASSUME NEW c \in Callers, LookupSync(c) PROVE CallPhase(d)'
  <2>3. CASE SyncWrites(c)
    BY <2>3, <1>t, <1>r DEF SyncWrites, SyncOpen, SyncChange, Synced
  <2>4. CASE SyncKeeps(c)
    BY <2>4, <1>t, <1>r DEF SyncKeeps, SyncUnchanged, Synced
  <2>5. CASE SyncBreaks(c)
    BY <2>5, <1>t, <1>r DEF SyncBreaks, SyncFails, End, Cache!Forgo, Cache!docVars
  <2> QED BY <1>3, <2>3, <2>4, <2>5, SyncSplit
<1>4. ASSUME NEW c \in Callers, AcquirePush(c) PROVE CallPhase(d)'
  BY <1>4, <1>t, <1>r DEF AcquirePush, Pushes, Cache!BeginWait, Cache!docVars, syncVars
<1>5. ASSUME NEW c \in Callers, PushAnswers(c) \/ PushTimesOut(c) PROVE CallPhase(d)'
  BY <1>5, <1>t, <1>r DEF PushAnswers, PushTimesOut, AskFails, End, Cache!WaitReturns, Cache!WaitFails, Cache!docVars
<1>7. ASSUME NEW c \in Callers, AcquirePull(c) PROVE CallPhase(d)'
  BY <1>7, <1>t, <1>r DEF AcquirePull, Ask, Send
<1>8. ASSUME NEW c \in Callers, PullAnswers(c) PROVE CallPhase(d)'
  BY <1>8, <1>t, <1>r DEF PullAnswers, Return, End, Cache!Forgo, Cache!Snapshot, Cache!docVars
<1>9. ASSUME NEW c \in Callers, LookupFails(c) PROVE CallPhase(d)'
  <2>1. AskFails(c) /\ (Cache!Forgo(c) \/ (phase[c] = "idle" /\ UNCHANGED cacheVars))
    BY <1>9 DEF LookupFails
  <2> QED BY <2>1, <1>t, <1>r DEF AskFails, End, Cache!Forgo, Cache!docVars
<1>10. ASSUME NEW u \in Uris, SaveFile(u) \/ ServerPublishes(u) \/ ServerReconsiders(u) \/ SettleWindow(u) PROVE CallPhase(d)'
  BY <1>10, <1>b DEF SaveFile, Save, ServerPublishes, ServerReconsiders, SettleWindow, Cache!Settle, syncVars
<1>14. CASE ServerReads
  BY <1>14, <1>b DEF ServerReads, ServerSyncs
<1>15. CASE ServerReports
  <2>1. wire # <<>> /\ \A c \in Callers : pc'[c] = IF c \in Head(wire).waits THEN "answered" ELSE pc[c]
    BY <1>15 DEF ServerReports, ServerAnswers
  <2>2. d \in Head(wire).waits => pc[d] = "asked"
    <3>1. 1 \in DOMAIN wire /\ Head(wire) = wire[1]
      BY <1>t, <2>1
    <3> QED BY <1>t, <3>1 DEF WaitInv
  <2>3. UNCHANGED <<seq, phase, wuri, base, result, curi, caps, tool>>
    BY <1>15 DEF ServerReports, ServerAnswers
  <2> QED BY <2>1, <2>2, <2>3, <1>t
<1>19. ASSUME NEW u \in Uris, DropLost(u) PROVE CallPhase(d)'
  BY <1>19, <1>b DEF DropLost, syncVars
<1>16. ASSUME NEW u \in Uris, Dispatch(u) PROVE CallPhase(d)'
  <2>1. /\ \E v \in Uris : seq' = [seq EXCEPT ![v] = @ + 1]
        /\ UNCHANGED <<phase, wuri, base, result, curi, caps, pc, tool>>
    BY <1>16 DEF Dispatch, Cache!Publish, syncVars
  <2>2. \A v \in Uris : seq'[v] >= seq[v] /\ seq'[v] \in Nat
    BY <2>1, <1>r, <1>t
  <2>3. base[d] \in Nat /\ curi[d] \in Uris /\ seq[curi[d]] \in Nat
    BY <1>r, <1>t
  <2> QED BY <2>1, <2>2, <2>3, <1>t
<1>17. CASE LoseServer
  <2>1. /\ \A c \in Callers : pc'[c] = IF c \in Stranded THEN "stranded" ELSE IF c \in Dropped THEN "lost" ELSE pc[c]
        /\ UNCHANGED <<seq, phase, wuri, base, result, curi, tool>>
    BY <1>17 DEF LoseServer, Lose
  <2> QED BY <2>1, <1>t DEF Stranded, Dropped
<1>18. CASE UNCHANGED lookupVars
  BY <1>18, <1>b DEF lookupVars, syncVars
<1> QED
  BY <1>1, <1>2, <1>3, <1>4, <1>5, <1>7, <1>8, <1>9, <1>10, <1>14, <1>15, <1>16, <1>17, <1>18, <1>19 DEF LookupNext, Lookup

LEMMA LInvNext == LInv /\ [LookupNext]_lookupVars => LInv'
  BY SInvNext, TypesKeep, PhaseNext DEF LInv

\* Every variable stays in its type; a lookup that is under way is about the
\* document it was asked for, and waits only where no request is to be had.
THEOREM LookupTypeOKHolds == LookupSpec => []LookupTypeOK
<1>1. LInv => LookupTypeOK
  BY LInvType
<1> QED BY <1>1, LInvInit, LInvNext, PTL DEF LookupSpec

-----------------------------------------------------------------------------
(* The lookup and the store                                                *)

LEMMA CacheStep ==
  ASSUME LInv, [LookupNext]_lookupVars
  PROVE  [Cache!CacheNext]_(Cache!cacheVars)
<1>t. curi \in [Callers -> Uris] /\ 1..MaxStamp \subseteq 0..MaxStamp
  BY DEF LInv, SInv, SyncTypeOK
<1> USE DEF Cache!cacheVars, Cache!docVars, cacheVars, Cache!CacheNext
<1>1. ASSUME NEW c \in Callers, Start(c) PROVE [Cache!CacheNext]_(Cache!cacheVars)
  BY <1>1 DEF Start
<1>2. ASSUME NEW c \in Callers, Lookup(c) PROVE [Cache!CacheNext]_(Cache!cacheVars)
  <2>1. curi[c] \in Uris
    BY <1>t
  <2>2. \/ Cache!TakeBaseline(c, curi[c]) \/ Cache!Forgo(c) \/ Cache!BeginWait(c) \/ Cache!WaitReturns(c)
        \/ Cache!WaitFails(c) \/ Cache!Snapshot(c) \/ UNCHANGED cacheVars
    BY <1>2 DEF Lookup, Baseline, LookupSync, AcquirePush, PushAnswers, PushTimesOut, AcquirePull, PullAnswers, LookupFails
  <2> QED BY <2>1, <2>2
<1>3. ASSUME NEW u \in Uris, SaveFile(u) \/ ServerPublishes(u) \/ ServerReconsiders(u) \/ DropLost(u) \/ SettleWindow(u)
      PROVE  [Cache!CacheNext]_(Cache!cacheVars)
  BY <1>3 DEF SaveFile, ServerPublishes, ServerReconsiders, DropLost, SettleWindow
<1>4. CASE ServerReads \/ ServerReports \/ LoseServer
  BY <1>4 DEF ServerReads, ServerReports, LoseServer
<1>5. ASSUME NEW u \in Uris, Dispatch(u) PROVE [Cache!CacheNext]_(Cache!cacheVars)
  <2>1. \E s \in 1..MaxStamp : Cache!Publish(u, s)
    BY <1>5 DEF Dispatch
  <2>2. \E s \in 0..MaxStamp : Cache!Publish(u, s)
    BY <2>1, <1>t
  <2> QED BY <2>2
<1>6. CASE UNCHANGED lookupVars
  BY <1>6 DEF lookupVars
<1> QED BY <1>1, <1>2, <1>3, <1>4, <1>5, <1>6 DEF LookupNext

\* A lookup asks of the store nothing but what the abstract cache offers, in an
\* order it allows; DiagnosticsStore implements that cache with goroutines, a
\* lock and a broadcast.
THEOREM LookupUsesCache == LookupSpec => Cache!CacheSpec
<1>1. LookupInit => Cache!CacheInit
  BY DEF LookupInit
<1> QED BY <1>1, LInvInit, LInvNext, CacheStep, PTL DEF LookupSpec, Cache!CacheSpec

-----------------------------------------------------------------------------
(* A new text is answered                                                  *)

\* Something is on its way about u that is stamped above k, or will be: of versions D
\* due, publishes P sent and messages w written.
Coming(u, k, D, P, w) ==
  \/ D # {}
  \/ \E s \in 1..MaxStamp : s > k /\ P[s] > 0
  \/ \E i \in DOMAIN w : w[i].uri = u /\ w[i].kind \in Syncs

LEMMA ComingNow ==
  ASSUME NEW u, NEW k \in Nat, MaxStamp \in Nat
  PROVE  /\ UnderWay(u) <=> Coming(u, 0, due[u], published[u], wire)
         /\ Coming(u, k, due[u], published[u], wire) => UnderWay(u)
<1>1. About(u) # {} <=> \E i \in DOMAIN wire : wire[i].uri = u /\ wire[i].kind \in Syncs
  BY DEF About
<1>2. \A s \in 1..MaxStamp : s > 0
  OBVIOUS
<1> HIDE DEF MaxStamp
<1> QED BY <1>1, <1>2 DEF UnderWay, Coming

\* A text on its way to the server that is in service stays on its way until a publish
\* reaches the store.
LEMMA ComingStays ==
  ASSUME LInv, [LookupNext]_lookupVars, ~LoseServer, NEW u \in Uris,
         Coming(u, losses * MaxVersion, due[u], published[u], wire)
  PROVE  Coming(u, losses' * MaxVersion, due'[u], published'[u], wire') \/ seq'[u] > seq[u]
<1> DEFINE k == losses * MaxVersion
           Goal == Coming(u, k, due'[u], published'[u], wire') \/ seq'[u] > seq[u]
<1>t. /\ wire \in Seq(Messages) /\ DOMAIN wire = 1..Len(wire) /\ Len(wire) \in Nat
      /\ due \in [Uris -> SUBSET (1..MaxVersion)] /\ seq \in [Uris -> 0..MaxSeq]
      /\ published \in [Uris -> [1..MaxStamp -> Nat]] /\ curi \in [Callers -> Uris]
      /\ MaxSeq \in Nat /\ MaxVersion \in Nat /\ losses \in 0..MaxLosses
  <2>1. SyncTypeOK /\ Types
    BY DEF LInv, SInv
  <2>2. wire \in Seq(Messages) /\ curi \in [Callers -> Uris] /\ DOMAIN wire = 1..Len(wire) /\ Len(wire) \in Nat
        /\ losses \in 0..MaxLosses
    BY <2>1, WireType DEF SyncTypeOK
  <2>3. published \in [Uris -> [1..MaxStamp -> Nat]] /\ due \in [Uris -> SUBSET (1..MaxVersion)] /\ seq \in [Uris -> 0..MaxSeq]
    BY <2>1 DEF Types
  <2> QED BY <2>2, <2>3, LookupAssumption, BoundsAssumption
<1>k. k \in Nat /\ MaxStamp \in Nat /\ \A v \in 1..MaxVersion : Stamp(v) \in 1..MaxStamp /\ Stamp(v) > k
  <2>1. \A v \in 0..MaxVersion : MaxStamp \in Nat /\ k \in Nat /\ (v # 0 => Stamp(v) \in 1..MaxStamp)
    BY <1>t, StampRange
  <2> HIDE DEF k, MaxStamp, Stamp
  <2>2. 0 \in 0..MaxVersion /\ \A v \in 1..MaxVersion : v \in 0..MaxVersion /\ v # 0 /\ v > 0
    BY <1>t
  <2>3. k \in Nat /\ MaxStamp \in Nat
    BY <2>1, <2>2
  <2>4. \A v \in 1..MaxVersion : Stamp(v) \in 1..MaxStamp
    BY <2>1, <2>2
  <2>5. \A v \in 1..MaxVersion : Stamp(v) = k + v
    BY DEF Stamp, k
  <2>6. \A v \in 1..MaxVersion : k + v > k
    BY <2>3, <1>t
  <2> QED BY <2>3, <2>4, <2>5, <2>6
<1>x. losses' = losses
  <2> USE DEF callVars, shutVars
  <2>1. ASSUME NEW c \in Callers, Start(c) PROVE losses' = losses
    BY <2>1 DEF Start, Read, Bind, Refused, End
  <2>2. ASSUME NEW c \in Callers, Lookup(c) PROVE losses' = losses
    BY <2>2 DEF Lookup, Baseline, NewCall, LookupSync, SyncOpen, SyncChange, SyncUnchanged, SyncFails, Synced, AcquirePush,
                PushAnswers, PushTimesOut, AskFails, End, AcquirePull, Ask, Send, PullAnswers, Return, LookupFails, syncVars
  <2>3. ASSUME NEW v \in Uris, SaveFile(v) \/ ServerPublishes(v) \/ ServerReconsiders(v) \/ Dispatch(v) \/ DropLost(v) \/ SettleWindow(v)
        PROVE  losses' = losses
    BY <2>3 DEF SaveFile, Save, ServerPublishes, ServerReconsiders, Dispatch, DropLost, SettleWindow, syncVars
  <2>4. CASE ServerReads \/ ServerReports \/ UNCHANGED lookupVars
    BY <2>4 DEF ServerReads, ServerReports, ServerSyncs, ServerAnswers, lookupVars, syncVars
  <2> QED BY <2>1, <2>2, <2>3, <2>4 DEF LookupNext
<1>y. Coming(u, k, due[u], published[u], wire)
  OBVIOUS
<1>z. Goal => Coming(u, losses' * MaxVersion, due'[u], published'[u], wire') \/ seq'[u] > seq[u]
  BY <1>x
<1> HIDE DEF k, MaxStamp
<1> HIDE DEF Goal
<1> USE DEF callVars, shutVars, cacheVars, ghostVars
\* What is written, or keeps its kind and document, hides nothing.
<1>w. ASSUME due' = due, published' = published,
             \A i \in DOMAIN wire : i \in DOMAIN wire' /\ wire'[i].uri = wire[i].uri /\ wire'[i].kind = wire[i].kind
      PROVE  Goal
  BY <1>w, <1>y DEF Goal, Coming
<1>a. ASSUME due' = due, published' = published, NEW m \in Messages, wire' = Append(wire, m) PROVE Goal
  <2>1. /\ DOMAIN wire' = DOMAIN wire \cup {Len(wire) + 1}
        /\ \A i \in DOMAIN wire : wire'[i] = wire[i]
    BY <1>a, <1>t, AppendFacts
  <2> QED BY <1>a, <1>w, <2>1
<1>s. ASSUME due' = due, published' = published, wire' = wire PROVE Goal
  BY <1>s, <1>w
<1>1. ASSUME NEW c \in Callers, Start(c) PROVE Goal
  BY <1>1, <1>s DEF Start, Read, Bind, Refused, End
<1>2. ASSUME NEW c \in Callers, Lookup(c) PROVE Goal
  <2>1. UNCHANGED <<due, published>>
    BY <1>2 DEF Lookup, Baseline, NewCall, LookupSync, AcquirePush, PushAnswers, PushTimesOut, AcquirePull, PullAnswers, LookupFails
  <2>2. CASE Baseline(c) \/ AcquirePush(c) \/ PullAnswers(c)
    BY <2>1, <2>2, <1>s DEF Baseline, NewCall, AcquirePush, PullAnswers, Return, syncVars
  <2>3. CASE PushAnswers(c) \/ PushTimesOut(c) \/ LookupFails(c)
    <3>1. AskFails(c)
      BY <2>3 DEF PushAnswers, PushTimesOut, LookupFails
    <3>2. \A i \in DOMAIN wire : i \in DOMAIN wire' /\ wire'[i].uri = wire[i].uri /\ wire'[i].kind = wire[i].kind
      <4>1. SyncTypeOK
        BY DEF LInv, SInv
      <4> QED BY <3>1, <4>1, DropWait
    <3> QED BY <2>1, <3>2, <1>w
  <2>4. CASE AcquirePull(c)
    <3>1. tool[c] \in Tools \cup {"none"}
      BY DEF LInv, SInv, SyncTypeOK
    <3>2. Request(curi[c], c, Takes(tool[c])) \in Messages
      BY <3>1, <1>t, NeedsType, RequestType
    <3>3. wire' = Append(wire, Request(curi[c], c, Takes(tool[c])))
      BY <2>4 DEF AcquirePull, Ask, Send, Write
    <3> QED BY <2>1, <3>2, <3>3, <1>a
  <2>5. CASE LookupSync(c)
    <3>1. CASE SyncUnchanged(c) \/ SyncFails(c)
      BY <2>1, <3>1, <1>s DEF SyncUnchanged, SyncFails
    <3>2. CASE SyncOpen(c) \/ SyncChange(c)
      <4>1. \E m : wire' = Append(wire, m)
        BY <3>2 DEF SyncOpen, SyncChange, Write
      <4>2. \A i \in DOMAIN wire : i \in DOMAIN wire' /\ wire'[i] = wire[i]
        BY <4>1, <1>t
      <4> QED BY <2>1, <4>2, <1>w
    <3> QED BY <2>5, <3>1, <3>2 DEF LookupSync
  <2> QED BY <1>2, <2>2, <2>3, <2>4, <2>5 DEF Lookup
<1>3. ASSUME NEW v \in Uris, SaveFile(v) \/ SettleWindow(v) PROVE Goal
  BY <1>3, <1>s DEF SaveFile, Save, SettleWindow, syncVars
<1>4. ASSUME NEW x \in Uris, ServerPublishes(x) PROVE Goal
  <2>1. PICK v \in due[x] : /\ published' = [published EXCEPT ![x][Stamp(v)] = @ + 1]
                            /\ due' \in {[due EXCEPT ![x] = @ \ {v}], [due EXCEPT ![x] = {w \in @ : w > v}]}
    BY <1>4 DEF ServerPublishes
  <2>2. v \in 1..MaxVersion
    BY <1>t
  <2>3. Stamp(v) \in 1..MaxStamp /\ Stamp(v) > k
    BY <1>k, <2>2
  <2>4. wire' = wire
    BY <1>4 DEF ServerPublishes, syncVars
  <2> HIDE DEF Stamp
  <2>5. CASE x = u
    <3>1. published'[u][Stamp(v)] = published[u][Stamp(v)] + 1 /\ published[u][Stamp(v)] \in Nat
      <4> DEFINE t == Stamp(v)
      <4>1. published' = [published EXCEPT ![u][t] = @ + 1] /\ t \in 1..MaxStamp
        BY <2>1, <2>3, <2>5
      <4> HIDE DEF t
      <4>2. published'[u][t] = published[u][t] + 1 /\ published[u][t] \in Nat
        <5>1. published \in [Uris -> [1..MaxStamp -> Nat]] /\ u \in Uris
          BY <1>t
        <5> QED BY ONLY <4>1, <5>1, CountUp
      <4> QED BY <4>2 DEF t
    <3>3. published'[u][Stamp(v)] > 0
      BY <3>1
    <3> QED BY <2>3, <3>3 DEF Goal, Coming
  <2>6. CASE x # u
    <3>1. due'[u] = due[u] /\ published'[u] = published[u]
      BY <2>1, <2>6, <1>t
    <3> QED BY <2>4, <3>1, <1>y DEF Goal, Coming
  <2> QED BY <2>5, <2>6
<1>5. ASSUME NEW x \in Uris, ServerReconsiders(x) PROVE Goal
  <2>1. due[u] \subseteq due'[u] /\ published' = published /\ wire' = wire
    BY <1>5, <1>t DEF ServerReconsiders, syncVars
  <2> QED BY <2>1, <1>y DEF Goal, Coming
<1>6. ASSUME ServerReads \/ ServerReports PROVE Goal
  <2>1. /\ wire # <<>> /\ wire' = Tail(wire) /\ published' = published
        /\ Head(wire).kind \notin Syncs => due' = due
        /\ Head(wire).kind \in Syncs => due' = [due EXCEPT ![Head(wire).uri] = @ \cup {Head(wire).doc.version}]
    BY <1>6 DEF ServerReads, ServerReports, ServerSyncs, ServerAnswers, Syncs
  <2>2. /\ Head(wire) = wire[1] /\ DOMAIN wire' = 1..(Len(wire) - 1)
        /\ \A i \in 1..(Len(wire) - 1) : wire'[i] = wire[i + 1]
    BY <2>1, <1>t
  <2>3. due[u] \subseteq due'[u] /\ (Head(wire).kind \in Syncs /\ Head(wire).uri = u => due'[u] # {})
    <3>1. CASE Head(wire).kind \notin Syncs
      BY <2>1, <3>1
    <3>2. CASE Head(wire).kind \in Syncs /\ Head(wire).uri = u
      <4>1. due'[u] = due[u] \cup {Head(wire).doc.version}
        BY <2>1, <3>2, <1>t
      <4> QED BY <3>2, <4>1
    <3>3. CASE Head(wire).kind \in Syncs /\ Head(wire).uri # u
      <4>1. due'[u] = due[u]
        BY <2>1, <3>3, <1>t
      <4> QED BY <3>3, <4>1
    <3> QED BY <3>1, <3>2, <3>3
  <2>4. ASSUME NEW i \in DOMAIN wire, wire[i].uri = u, wire[i].kind \in Syncs PROVE Goal
    <3>1. CASE i = 1
      BY <2>2, <2>3, <2>4, <3>1 DEF Goal, Coming
    <3>2. CASE i # 1
      <4>1. i - 1 \in DOMAIN wire' /\ wire'[i - 1] = wire[i]
        BY <2>2, <3>2, <1>t
      <4> QED BY <2>4, <4>1 DEF Goal, Coming
    <3> QED BY <3>1, <3>2
  <2> QED BY <2>1, <2>3, <2>4, <1>y DEF Goal, Coming
<1>8. ASSUME NEW x \in Uris, Dispatch(x) PROVE Goal
  <2>1. PICK s \in 1..MaxStamp : /\ published' = [published EXCEPT ![x][s] = @ - 1]
                                 /\ seq' = [seq EXCEPT ![x] = @ + 1]
    BY <1>8 DEF Dispatch, Cache!Publish
  <2>2. due' = due /\ wire' = wire
    BY <1>8 DEF Dispatch, syncVars
  <2>3. CASE x = u
    BY <2>1, <2>3, <1>t DEF Goal
  <2>4. CASE x # u
    BY <2>1, <2>2, <2>4, <1>t, <1>y DEF Goal, Coming
  <2> QED BY <2>3, <2>4
\* What the lost server had written is not counted on.
<1>7. ASSUME NEW x \in Uris, DropLost(x) PROVE Goal
  <2>1. PICK s \in 1..k : published' = [published EXCEPT ![x][s] = @ - 1]
    BY <1>7 DEF DropLost, k
  <2>2. due' = due /\ wire' = wire
    BY <1>7 DEF DropLost, syncVars
  <2>3. \A r \in 1..MaxStamp : r > k => published'[u][r] = published[u][r]
    BY <2>1, <1>t, <1>k
  <2> QED BY <2>2, <2>3, <1>y DEF Goal, Coming
<1>9. ASSUME UNCHANGED lookupVars PROVE Goal
  BY <1>9, <1>s DEF lookupVars, syncVars
<1> QED BY <1>1, <1>2, <1>3, <1>4, <1>5, <1>6, <1>7, <1>8, <1>9, <1>z DEF LookupNext

\* A lookup that wrote a text has something to wait for, and fails only in a hurry.
CallAnswered(c) ==
  /\ phase[c] # "idle" /\ pc[c] = "bound" => ~wrote[c]
  /\ wrote[c] /\ phase[c] # "idle" /\ pc[c] = "synced" =>
       Coming(curi[c], losses * MaxVersion, due[curi[c]], published[curi[c]], wire) \/ seq[curi[c]] > base[c]
  /\ wrote[c] /\ result[c].kind = "error" => hurried[c]
AnswerInv == \A c \in Callers : CallAnswered(c)

LEMMA AnswerInit == LookupInit => AnswerInv
  BY DEF LookupInit, Cache!CacheInit, Cache!NoResult, AnswerInv, CallAnswered

LEMMA AnswerNext ==
  ASSUME LInv, AnswerInv, [LookupNext]_lookupVars
  PROVE  AnswerInv'
<1> SUFFICES ASSUME NEW d \in Callers PROVE CallAnswered(d)'
  BY DEF AnswerInv
<1> DEFINE Goal == CallAnswered(d)'
<1>t. /\ Types /\ CallPhase(d) /\ CallAnswered(d) /\ MaxSeq \in Nat
      /\ curi \in [Callers -> Uris] /\ ctext \in [Callers -> 0..MaxEdits] /\ wire \in Seq(Messages) /\ tool \in [Callers -> Tools \cup {"none"}]
      /\ pc \in [Callers -> {"idle", "read", "bound", "synced", "asked", "answered", "stranded", "lost"}]
  BY LookupAssumption DEF LInv, SInv, SyncTypeOK, AnswerInv
<1>r. /\ seq \in [Uris -> 0..MaxSeq] /\ base \in [Callers -> 0..MaxSeq] /\ wuri \in [Callers -> Uris] /\ DOMAIN result = Callers
      /\ phase \in [Callers -> {"idle", "based", "waiting"}] /\ wrote \in [Callers -> BOOLEAN] /\ hurried \in [Callers -> BOOLEAN]
  BY <1>t DEF Types
<1>u. /\ curi[d] \in Uris /\ seq[curi[d]] \in Nat /\ base[d] \in Nat
      /\ seq'[curi[d]] \in Nat /\ seq'[curi[d]] >= seq[curi[d]]
  <2>1. Types' /\ (\A u \in Uris : seq'[u] >= seq[u])
    <3>1. LInv /\ LInv'
      BY LInvNext
    <3>2. [Cache!CacheNext]_(Cache!cacheVars)
      BY CacheStep
    <3>3. \A u \in Uris : seq'[u] >= seq[u]
      BY <3>2, <1>r, <1>t DEF Cache!CacheNext, Cache!cacheVars, Cache!docVars, Cache!Publish, Cache!Settle, Cache!TakeBaseline,
                       Cache!BeginWait, Cache!Snapshot, Cache!Forgo, Cache!WaitReturns, Cache!WaitFails
    <3> QED BY <3>1, <3>3 DEF LInv
  <2>2. seq' \in [Uris -> 0..MaxSeq]
    BY <2>1 DEF Types
  <2> QED BY <2>1, <2>2, <1>t, <1>r
<1>k. losses * MaxVersion \in Nat /\ MaxStamp \in Nat
  <2>1. losses \in 0..MaxLosses /\ 0 \in 0..MaxVersion
    BY BoundsAssumption DEF LInv, SInv, SyncTypeOK
  <2> QED BY <2>1, StampRange
<1> HIDE DEF Goal
<1> USE DEF callVars, shutVars, cacheVars, ghostVars
<1>b. ASSUME ~LoseServer, curi'[d] = curi[d] \/ phase'[d] = "idle", base'[d] = base[d], result'[d] = result[d], hurried'[d] = hurried[d],
             wrote'[d] => wrote[d], phase'[d] # "idle" => phase[d] # "idle", pc'[d] = "synced" /\ phase'[d] # "idle" => pc[d] = "synced",
             pc'[d] = "bound" /\ phase'[d] # "idle" => pc[d] = "bound"
      PROVE  Goal
  <2>1. wrote'[d] /\ phase'[d] # "idle" /\ pc'[d] = "synced" =>
          Coming(curi'[d], losses' * MaxVersion, due'[curi'[d]], published'[curi'[d]], wire') \/ seq'[curi'[d]] > base'[d]
    <3> SUFFICES ASSUME wrote'[d], phase'[d] # "idle", pc'[d] = "synced"
                 PROVE  Coming(curi[d], losses' * MaxVersion, due'[curi[d]], published'[curi[d]], wire') \/ seq'[curi[d]] > base[d]
      BY <1>b
    <3>1. Coming(curi[d], losses * MaxVersion, due[curi[d]], published[curi[d]], wire) \/ seq[curi[d]] > base[d]
      BY <1>b, <1>t DEF CallAnswered
    <3>2. base[d] <= seq[curi[d]]
      BY <1>b, <1>t DEF CallPhase
    <3>3. CASE Coming(curi[d], losses * MaxVersion, due[curi[d]], published[curi[d]], wire)
      <4>1. Coming(curi[d], losses' * MaxVersion, due'[curi[d]], published'[curi[d]], wire') \/ seq'[curi[d]] > seq[curi[d]]
        BY <1>b, <1>u, <3>3, ComingStays
      <4> QED BY <4>1, <3>2, <1>u
    <3>4. CASE seq[curi[d]] > base[d]
      BY <3>4, <1>u
    <3> QED BY <3>1, <3>3, <3>4
  <2> QED BY <1>b, <1>t, <2>1 DEF Goal, CallAnswered
<1>l. ASSUME ~LoseServer, UNCHANGED <<curi, base, result, hurried, wrote, phase, pc>> PROVE Goal
  BY <1>l, <1>b
<1>1. ASSUME NEW c \in Callers, Start(c), ~LoseServer PROVE Goal
  <2>1. CASE c # d
    BY <1>1, <1>b, <2>1, <1>t DEF Start, Read, Bind, Refused, End
  <2>2. CASE c = d
    BY <1>1, <1>b, <2>2, <1>t DEF Start, Read, Bind, Refused, End, CallPhase
  <2> QED BY <2>1, <2>2
<1>2. ASSUME NEW c \in Callers, Baseline(c), ~LoseServer PROVE Goal
  <2>1. CASE c # d
    BY <1>2, <1>b, <2>1, <1>t, <1>r DEF Baseline, NewCall, ForgetWrite, Cache!TakeBaseline, syncVars
  <2>2. CASE c = d
    <3>1. ~wrote'[d]
      BY <1>2, <2>2, <1>r DEF Baseline, NewCall, ForgetWrite
    <3> QED BY <3>1 DEF Goal, CallAnswered
  <2> QED BY <2>1, <2>2
<1>3. ASSUME NEW c \in Callers, SyncWrites(c), ~LoseServer PROVE Goal
  <2>1. CASE c # d
    BY <1>3, <1>b, <2>1, <1>t, <1>r DEF SyncWrites, SyncOpen, SyncChange, Synced
  <2>2. CASE c = d
    <3>1. PICK m : wire' = Append(wire, m) /\ m.uri = curi[d] /\ m.kind \in Syncs
      BY <1>3, <2>2 DEF SyncWrites, SyncOpen, SyncChange, Write, DidOpen, DidChange, Notify, Syncs
    <3>2. Len(wire) + 1 \in DOMAIN wire' /\ wire'[Len(wire) + 1] = m
      BY <3>1, <1>t
    <3>3. curi' = curi /\ result' = result /\ pc'[d] = "synced" /\ phase[d] = "based"
      BY <1>3, <2>2, <1>t DEF SyncWrites, SyncOpen, SyncChange, Synced
    <3>4. result'[d].kind # "error"
      BY <3>3, <1>t DEF CallPhase
    <3>5. Coming(curi'[d], losses' * MaxVersion, due'[curi'[d]], published'[curi'[d]], wire')
      BY <3>1, <3>2, <3>3 DEF Coming
    <3> QED BY <3>3, <3>4, <3>5 DEF Goal, CallAnswered
  <2> QED BY <2>1, <2>2
<1>4. ASSUME NEW c \in Callers, SyncKeeps(c), ~LoseServer PROVE Goal
  <2>1. CASE c # d
    BY <1>4, <1>b, <2>1, <1>t, <1>r DEF SyncKeeps, SyncUnchanged, Synced
  <2>2. CASE c = d
    <3>1. ~wrote'[d]
      BY <1>4, <2>2, <1>t DEF SyncKeeps, SyncUnchanged, CallAnswered
    <3> QED BY <3>1 DEF Goal, CallAnswered
  <2> QED BY <2>1, <2>2
<1>5. ASSUME NEW c \in Callers, SyncBreaks(c), ~LoseServer PROVE Goal
  <2>1. CASE c # d
    BY <1>5, <1>b, <2>1, <1>t, <1>r DEF SyncBreaks, SyncFails, End, Cache!Forgo, Cache!docVars, ForgetWrite
  <2>2. CASE c = d
    <3>1. ~wrote'[d]
      BY <1>5, <2>2, <1>r DEF SyncBreaks, ForgetWrite
    <3> QED BY <3>1 DEF Goal, CallAnswered
  <2> QED BY <2>1, <2>2
<1>6. ASSUME NEW c \in Callers, AcquirePush(c), ~LoseServer PROVE Goal
  BY <1>6, <1>b, <1>t, <1>r DEF AcquirePush, Cache!BeginWait, Cache!docVars, syncVars
<1>7. ASSUME NEW c \in Callers, PushAnswers(c) \/ PullAnswers(c), ~LoseServer PROVE Goal
  <2>1. CASE c # d
    BY <1>7, <1>b, <2>1, <1>t, <1>r DEF PushAnswers, PullAnswers, AskFails, Return, End, ForgetWrite, Cache!WaitReturns, Cache!Forgo,
                                       Cache!Snapshot, Cache!docVars
  <2>2. CASE c = d
    <3>1. ~wrote'[d]
      BY <1>7, <2>2, <1>r DEF PushAnswers, PullAnswers, ForgetWrite
    <3> QED BY <3>1 DEF Goal, CallAnswered
  <2> QED BY <2>1, <2>2
<1>8. ASSUME NEW c \in Callers, PushTimesOut(c), ~LoseServer PROVE Goal
  <2>1. CASE c # d
    BY <1>8, <1>b, <2>1, <1>t, <1>r DEF PushTimesOut, AskFails, End, Cache!WaitFails, Cache!docVars
  <2>2. CASE c = d
    <3>1. /\ phase[d] = "waiting" /\ pc[d] \in {"synced", "stranded"} /\ wrote' = wrote /\ phase'[d] = "idle"
          /\ ~Stuck(d) \/ pc[d] = "stranded" => hurried'[d]
      BY <1>8, <2>2, <1>t, <1>r DEF PushTimesOut, Cache!WaitFails, CallPhase
    <3>2. wrote[d] /\ pc[d] = "synced" => UnderWay(curi[d]) \/ seq[curi[d]] > base[d]
      <4>1. losses * MaxVersion \in Nat /\ MaxStamp \in Nat
        BY <1>k
      <4> QED BY <3>1, <1>t, <4>1, ComingNow DEF CallAnswered
    <3>3. wrote[d] => hurried'[d]
      BY <3>1, <3>2, <1>u DEF Stuck
    <3> QED BY <3>1, <3>3 DEF Goal, CallAnswered
  <2> QED BY <2>1, <2>2
<1>9. ASSUME NEW c \in Callers, AcquirePull(c), ~LoseServer PROVE Goal
  BY <1>9, <1>b, <1>t, <1>r DEF AcquirePull, Ask, Send
<1>10. ASSUME NEW c \in Callers, LookupFails(c), ~LoseServer PROVE Goal
  <2>1. /\ pc' = [pc EXCEPT ![c] = "idle"] /\ UNCHANGED <<curi, hurried, result, base>>
        /\ phase' = [phase EXCEPT ![c] = "idle"] \/ phase' = phase
        /\ wrote' = [wrote EXCEPT ![c] = FALSE] \/ wrote' = wrote
    BY <1>10 DEF LookupFails, AskFails, End, ForgetWrite, Cache!Forgo, Cache!docVars
  <2> QED BY <1>10, <1>b, <2>1, <1>t, <1>r
<1>11. ASSUME NEW u \in Uris, SaveFile(u) \/ ServerPublishes(u) \/ ServerReconsiders(u) \/ SettleWindow(u), ~LoseServer PROVE Goal
  BY <1>11, <1>l DEF SaveFile, Save, ServerPublishes, ServerReconsiders, SettleWindow, Cache!Settle, syncVars
<1>16. ASSUME NEW u \in Uris, Dispatch(u) \/ DropLost(u), ~LoseServer PROVE Goal
  BY <1>16, <1>l DEF Dispatch, DropLost, Cache!Publish, syncVars
<1>12. ASSUME ServerReads, ~LoseServer PROVE Goal
  BY <1>12, <1>l DEF ServerReads, ServerSyncs
<1>13. ASSUME ServerReports, ~LoseServer PROVE Goal
  <2>1. pc'[d] = "answered" \/ pc'[d] = pc[d]
    BY <1>13 DEF ServerReports, ServerAnswers
  <2> QED BY <1>13, <1>b, <2>1 DEF ServerReports, ServerAnswers
<1>14. ASSUME LoseServer PROVE Goal
  <2>1. /\ pc'[d] = IF d \in Stranded THEN "stranded" ELSE IF d \in Dropped THEN "lost" ELSE pc[d]
        /\ UNCHANGED <<result, hurried, wrote>>
    BY <1>14 DEF LoseServer, Lose
  <2>2. pc'[d] \notin {"synced", "bound"}
    BY <2>1 DEF Dropped, Stranded
  <2> QED BY <2>1, <2>2, <1>t DEF Goal, CallAnswered
<1>15. ASSUME UNCHANGED lookupVars, ~LoseServer PROVE Goal
  BY <1>15, <1>l DEF lookupVars, syncVars
<1> QED
  <2>1. ASSUME NEW c \in Callers, LookupSync(c), ~LoseServer PROVE Goal
    BY <2>1, <1>3, <1>4, <1>5, SyncSplit
  <2> QED BY <2>1, <1>1, <1>2, <1>6, <1>7, <1>8, <1>9, <1>10, <1>11, <1>12, <1>13, <1>14, <1>15, <1>16
          DEF LookupNext, Lookup, Goal

\* A lookup that brought the server a new text fails only in a hurry or with its
\* server: from the notification to the store there is always something on its way,
\* or the publish counter has moved past the baseline, which was taken before
\* (diagnostics.go:72-77).
THEOREM ChangeAnsweredHolds == LookupSpec => []ChangeAnswered
<1>1. AnswerInv => ChangeAnswered
  BY DEF AnswerInv, CallAnswered, ChangeAnswered
<1>2. LInv /\ AnswerInv /\ [LookupNext]_lookupVars => AnswerInv'
  BY AnswerNext
<1> QED BY <1>1, <1>2, LInvInit, LInvNext, AnswerInit, PTL DEF LookupSpec

-----------------------------------------------------------------------------
(* An undisturbed answer is about the text of its call                     *)

\* Whatever is or will be on its way about u, or has the session remember, is stamped
\* n or above: s is the version it remembers, D, P and w as in Coming, k the last stamp of the sessions before.
After(u, k, n, s, D, P, w) ==
  /\ n <= k + s
  /\ \A v \in D : n <= k + v
  /\ \A t \in 1..MaxStamp : P[t] > 0 => n <= t
  /\ \A i \in DOMAIN w : w[i].uri = u /\ w[i].kind \in Syncs => n <= k + w[i].doc.version

LEMMA AfterStays ==
  ASSUME LInv, [LookupNext]_lookupVars, NEW u \in Uris, NEW n \in Nat,
         ServerReconsiders(u) => n <= Stamp(srv[u].version),
         After(u, losses * MaxVersion, n, openDocs[u].version, due[u], published[u], wire)
  PROVE  /\ After(u, losses' * MaxVersion, n, openDocs'[u].version, due'[u], published'[u], wire')
         /\ seq'[u] > seq[u] => diags'[u] >= n
<1> DEFINE k == losses * MaxVersion
           Goal == /\ After(u, losses' * MaxVersion, n, openDocs'[u].version, due'[u], published'[u], wire')
                   /\ seq'[u] > seq[u] => diags'[u] >= n
<1>t. /\ wire \in Seq(Messages) /\ DOMAIN wire = 1..Len(wire) /\ Len(wire) \in Nat
      /\ published \in [Uris -> [1..MaxStamp -> Nat]] /\ due \in [Uris -> SUBSET (1..MaxVersion)] /\ seq \in [Uris -> 0..MaxSeq]
      /\ diags \in [Uris -> 0..MaxStamp]
      /\ curi \in [Callers -> Uris]
      /\ MaxSeq \in Nat /\ openDocs \in [Uris -> Docs] /\ MaxVersion \in Nat /\ losses \in Nat
  <2>1. SyncTypeOK /\ Types
    BY DEF LInv, SInv
  <2>2. /\ wire \in Seq(Messages) /\ curi \in [Callers -> Uris] /\ DOMAIN wire = 1..Len(wire) /\ Len(wire) \in Nat
        /\ openDocs \in [Uris -> Docs] /\ losses \in 0..MaxLosses
    BY <2>1, WireType DEF SyncTypeOK
  <2>3. /\ published \in [Uris -> [1..MaxStamp -> Nat]] /\ due \in [Uris -> SUBSET (1..MaxVersion)] /\ seq \in [Uris -> 0..MaxSeq]
        /\ diags \in [Uris -> 0..MaxStamp]
    BY <2>1 DEF Types
  <2> QED BY <2>2, <2>3, LookupAssumption, BoundsAssumption
<1>k. k \in Nat
  BY <1>t
<1>m. (losses + 1) * MaxVersion = k + MaxVersion /\ \A v \in Nat : Stamp(v) = k + v
  BY <1>t DEF Stamp
<1>o. After(u, k, n, openDocs[u].version, due[u], published[u], wire)
  OBVIOUS
<1>d. /\ openDocs[u].version \in Nat /\ openDocs[u].version <= MaxVersion
      /\ \A i \in DOMAIN wire : wire[i].doc.version \in Nat
      /\ \A x \in Uris : openDocs[x].version \in Nat
  <2>1. \A i \in DOMAIN wire : wire[i].doc \in Docs
    BY WireType DEF LInv, SInv
  <2> QED BY <1>t, <2>1, DocFields
<1>j. losses' = losses => losses' * MaxVersion = k
  OBVIOUS
<1> HIDE DEF k, Goal
<1>q. seq[u] \in Nat
  BY <1>t
<1> USE DEF callVars, shutVars, cacheVars, ghostVars
<1>w. ASSUME UNCHANGED <<losses, openDocs, due, published, seq>>,
             \A i \in DOMAIN wire' : i \in DOMAIN wire /\ wire'[i].uri = wire[i].uri /\ wire'[i].kind = wire[i].kind /\ wire'[i].doc = wire[i].doc
      PROVE  Goal
  <2>1. After(u, k, n, openDocs'[u].version, due'[u], published'[u], wire')
    BY <1>w, <1>o DEF After
  <2> QED BY <1>w, <1>j, <1>q, <2>1 DEF Goal
\* A message of its own session is about what the session remembers.
<1>a. ASSUME UNCHANGED <<losses, due, published, seq>>, NEW m \in Messages, wire' = Append(wire, m),
             openDocs'[u].version \in Nat, openDocs'[u].version >= openDocs[u].version,
             m.uri = u /\ m.kind \in Syncs => m.doc.version = openDocs'[u].version
      PROVE  Goal
  <2>1. /\ DOMAIN wire' = DOMAIN wire \cup {Len(wire) + 1} /\ wire'[Len(wire) + 1] = m
        /\ \A i \in DOMAIN wire : wire'[i] = wire[i]
    BY <1>a, <1>t, AppendFacts
  <2>2. n <= k + openDocs'[u].version
    BY <1>a, <1>o, <1>k, <1>d DEF After
  <2>3. After(u, k, n, openDocs'[u].version, due'[u], published'[u], wire')
    BY <1>a, <1>o, <2>1, <2>2 DEF After
  <2> QED BY <1>a, <1>j, <1>q, <2>3 DEF Goal
<1>s. ASSUME UNCHANGED <<losses, openDocs, due, published, wire, seq>> PROVE Goal
  BY <1>s, <1>w
<1>1. ASSUME NEW c \in Callers, Start(c) PROVE Goal
  BY <1>1, <1>s DEF Start, Read, Bind, Refused, End
<1>2. ASSUME NEW c \in Callers, Lookup(c) PROVE Goal
  <2>1. UNCHANGED <<due, published, losses>>
    BY <1>2 DEF Lookup, Baseline, NewCall, LookupSync, SyncOpen, SyncChange, SyncUnchanged, SyncFails, Synced, AcquirePush,
                PushAnswers, PushTimesOut, AskFails, End, AcquirePull, Ask, Send, PullAnswers, Return, LookupFails,
                syncVars
  <2>s. UNCHANGED seq
    BY <1>2 DEF Lookup, Baseline, LookupSync, AcquirePush, PushAnswers, PushTimesOut, AcquirePull, PullAnswers, LookupFails,
                Cache!TakeBaseline, Cache!Forgo, Cache!BeginWait, Cache!WaitReturns, Cache!WaitFails, Cache!Snapshot,
                Cache!docVars
  <2>2. CASE Baseline(c) \/ AcquirePush(c) \/ PullAnswers(c)
    BY <2>1, <2>2, <2>s, <1>s DEF Baseline, NewCall, AcquirePush, PullAnswers, Return, syncVars
  <2>3. CASE PushAnswers(c) \/ PushTimesOut(c) \/ LookupFails(c)
    <3>1. AskFails(c)
      BY <2>3 DEF PushAnswers, PushTimesOut, LookupFails
    <3>2. \A i \in DOMAIN wire' : i \in DOMAIN wire /\ wire'[i].uri = wire[i].uri /\ wire'[i].kind = wire[i].kind /\ wire'[i].doc = wire[i].doc
      <4>1. SyncTypeOK
        BY DEF LInv, SInv
      <4> QED BY <3>1, <4>1, DropWait
    <3>3. UNCHANGED openDocs
      BY <3>1 DEF AskFails
    <3> QED BY <2>1, <2>s, <3>2, <3>3, <1>w
  <2>4. CASE AcquirePull(c)
    <3>1. tool[c] \in Tools \cup {"none"}
      BY DEF LInv, SInv, SyncTypeOK
    <3> DEFINE m == Request(curi[c], c, Takes(tool[c]))
    <3>2. m \in Messages /\ m.kind \notin Syncs
      BY <3>1, <1>t, NeedsType, RequestType DEF Request, Syncs
    <3>3. wire' = Append(wire, m) /\ openDocs' = openDocs
      BY <2>4 DEF AcquirePull, Ask, Send, Write
    <3> HIDE DEF m
    <3> QED BY <2>1, <2>s, <3>2, <3>3, <1>a, <1>d
  <2>5. CASE LookupSync(c)
    <3>1. CASE SyncUnchanged(c) \/ SyncFails(c)
      BY <2>1, <2>s, <3>1, <1>s DEF SyncUnchanged, SyncFails
    <3>2. CASE SyncOpen(c)
      <4> DEFINE m == DidOpen(curi[c], ctext[c])
      <4>1. 1 \in 1..MaxVersion /\ ctext[c] \in 0..MaxEdits
        BY BoundsAssumption DEF LInv, SInv, SyncTypeOK
      <4>2. m \in Messages /\ m.uri = curi[c] /\ m.doc.version = 1
        BY <1>t, <4>1, DocType, NotifyType DEF DidOpen, Notify, Doc, Syncs, Late
      <4>3. wire' = Append(wire, m) /\ openDocs' = [openDocs EXCEPT ![curi[c]] = Doc(1, ctext[c])] /\ openDocs[curi[c]].version = 0
        BY <3>2 DEF SyncOpen, Write, Known, Absent
      <4> HIDE DEF m
      <4>4. openDocs'[u].version = IF u = curi[c] THEN 1 ELSE openDocs[u].version
        BY <4>3, <1>t DEF Doc
      <4> QED BY <2>1, <2>s, <4>2, <4>3, <4>4, <1>a, <1>d
    <3>3. CASE SyncChange(c)
      <4> DEFINE m == DidChange(curi[c], NextVersion(c), ctext[c])
      <4>a. NextVersion(c) = openDocs[curi[c]].version + 1 /\ NextVersion(c) <= MaxVersion
        BY <3>3 DEF SyncChange, NextVersion
      <4>b. openDocs[curi[c]].version \in Nat
        BY <1>t, <1>d
      <4>c. ctext[c] \in 0..MaxEdits
        BY DEF LInv, SInv, SyncTypeOK
      <4>1. NextVersion(c) \in 1..MaxVersion /\ ctext[c] \in 0..MaxEdits /\ NextVersion(c) = openDocs[curi[c]].version + 1
        BY <4>a, <4>b, <4>c, BoundsAssumption
      <4>2. m \in Messages /\ m.uri = curi[c] /\ m.doc.version = NextVersion(c)
        BY <1>t, <4>1, DocType, NotifyType DEF DidChange, Notify, Doc, Syncs, Late
      <4>3. wire' = Append(wire, m) /\ openDocs' = [openDocs EXCEPT ![curi[c]] = Doc(NextVersion(c), ctext[c])]
        BY <3>3 DEF SyncChange, Write
      <4> HIDE DEF m
      <4>4. openDocs'[u].version = IF u = curi[c] THEN openDocs[u].version + 1 ELSE openDocs[u].version
        BY <4>1, <4>3, <1>t DEF Doc
      <4> QED BY <2>1, <2>s, <4>1, <4>2, <4>3, <4>4, <1>a, <1>d
    <3> QED BY <2>5, <3>1, <3>2, <3>3 DEF LookupSync
  <2> QED BY <1>2, <2>2, <2>3, <2>4, <2>5 DEF Lookup
<1>3. ASSUME NEW v \in Uris, SaveFile(v) \/ SettleWindow(v) PROVE Goal
  BY <1>3, <1>s DEF SaveFile, Save, SettleWindow, Cache!Settle, syncVars
<1>4. ASSUME NEW x \in Uris, ServerPublishes(x) PROVE Goal
  <2>1. PICK v \in due[x] : /\ published' = [published EXCEPT ![x][Stamp(v)] = @ + 1]
                            /\ due' \in {[due EXCEPT ![x] = @ \ {v}], [due EXCEPT ![x] = {w \in @ : w > v}]}
    BY <1>4 DEF ServerPublishes
  <2>2. v \in Nat
    <3>1. v \in 1..MaxVersion
      BY <1>t
    <3> QED BY <3>1, <1>t
  <2>3. Stamp(v) = k + v
    BY <2>2, <1>m
  <2> HIDE DEF Stamp, MaxStamp
  <2>4. \A t \in 1..MaxStamp : published'[u][t] > 0 => published[u][t] > 0 \/ (x = u /\ t = k + v)
    BY <2>1, <2>3, <1>t
  <2>5. due'[u] \subseteq due[u] /\ (x = u => v \in due[u])
    BY <2>1, <1>t
  <2>6. UNCHANGED <<losses, openDocs, wire, seq>>
    BY <1>4 DEF ServerPublishes, syncVars
  <2>7. After(u, k, n, openDocs'[u].version, due'[u], published'[u], wire')
    BY <2>4, <2>5, <2>6, <1>o DEF After
  <2> QED BY <2>6, <2>7, <1>j, <1>q DEF Goal
<1>5. ASSUME NEW x \in Uris, ServerReconsiders(x) PROVE Goal
  <2>1. UNCHANGED <<losses, openDocs, wire, seq, published>> /\ due' = [due EXCEPT ![x] = @ \cup {srv[x].version}]
    BY <1>5 DEF ServerReconsiders, syncVars
  <2>2. srv[u].version \in Nat
    <3>1. srv[u] \in Docs
      BY DEF LInv, SInv, SyncTypeOK
    <3> QED BY <3>1, <1>t, DocFields
  <2>3. x = u => n <= k + srv[u].version
    BY <1>5, <2>2, <1>m
  <2>4. due'[u] = IF x = u THEN due[u] \cup {srv[u].version} ELSE due[u]
    BY <2>1, <1>t
  <2>5. After(u, k, n, openDocs'[u].version, due'[u], published'[u], wire')
    BY <2>1, <2>3, <2>4, <1>o DEF After
  <2> QED BY <2>1, <2>5, <1>j, <1>q DEF Goal
<1>6. ASSUME ServerReads \/ ServerReports PROVE Goal
  <2>1. /\ wire # <<>> /\ wire' = Tail(wire) /\ UNCHANGED <<published, losses, openDocs, seq>>
        /\ Head(wire).kind \notin Syncs => due' = due
        /\ Head(wire).kind \in Syncs => due' = [due EXCEPT ![Head(wire).uri] = @ \cup {Head(wire).doc.version}]
    BY <1>6 DEF ServerReads, ServerReports, ServerSyncs, ServerAnswers, Syncs
  <2>2. /\ 1 \in DOMAIN wire /\ Head(wire) = wire[1] /\ DOMAIN wire' = 1..(Len(wire) - 1)
        /\ \A i \in DOMAIN wire' : wire'[i] = wire[i + 1] /\ i + 1 \in DOMAIN wire
    BY <2>1, <1>t
  <2>3. ASSUME NEW v \in due'[u] PROVE n <= k + v
    <3>1. CASE Head(wire).kind \notin Syncs \/ Head(wire).uri # u
      <4>1. v \in due[u]
        BY <2>1, <2>3, <3>1, <1>t
      <4> QED BY <4>1, <1>o DEF After
    <3>2. CASE Head(wire).kind \in Syncs /\ Head(wire).uri = u
      <4>1. v \in due[u] \/ v = Head(wire).doc.version
        BY <2>1, <2>3, <3>2, <1>t
      <4> QED BY <4>1, <3>2, <2>2, <1>o DEF After
    <3> QED BY <3>1, <3>2
  <2>4. After(u, k, n, openDocs'[u].version, due'[u], published'[u], wire')
    BY <2>1, <2>2, <2>3, <1>o DEF After
  <2> QED BY <2>1, <2>4, <1>j, <1>q DEF Goal
<1>8. ASSUME NEW x \in Uris, Dispatch(x) PROVE Goal
  <2>1. PICK s \in 1..MaxStamp : /\ published[x][s] > 0
                                 /\ published' = [published EXCEPT ![x][s] = @ - 1]
                                 /\ Cache!Publish(x, s)
    BY <1>8 DEF Dispatch
  <2>2. /\ UNCHANGED <<losses, openDocs, due, wire>>
        /\ seq' = [seq EXCEPT ![x] = @ + 1] /\ diags' = [diags EXCEPT ![x] = s]
    BY <1>8, <2>1 DEF Dispatch, Cache!Publish, syncVars
  <2> HIDE DEF MaxStamp
  <2>3. \A t \in 1..MaxStamp : published'[u][t] > 0 => published[u][t] > 0
    BY <2>1, <1>t
  <2>4. After(u, k, n, openDocs'[u].version, due'[u], published'[u], wire')
    BY <2>2, <2>3, <1>o DEF After
  <2>5. ASSUME seq'[u] > seq[u] PROVE diags'[u] >= n
    <3>1. x = u
      BY <2>2, <2>5, <1>t, <1>q
    <3>2. diags'[u] = s /\ s \in Int
      BY <2>2, <3>1, <1>t
    <3>3. n <= s
      BY <2>1, <3>1, <1>o DEF After
    <3> QED BY <3>2, <3>3
  <2> QED BY <2>2, <2>4, <2>5, <1>j DEF Goal
<1>7. ASSUME NEW x \in Uris, DropLost(x) PROVE Goal
  <2>1. PICK s \in 1..k : published[x][s] > 0 /\ published' = [published EXCEPT ![x][s] = @ - 1]
    BY <1>7 DEF DropLost, k
  <2>2. UNCHANGED <<losses, openDocs, due, wire, seq>>
    BY <1>7 DEF DropLost, syncVars
  <2>5. k <= MaxStamp /\ MaxStamp \in Nat
    <3>1. losses \in 0..MaxLosses /\ 0 \in 0..MaxVersion
      BY BoundsAssumption DEF LInv, SInv, SyncTypeOK
    <3>2. MaxStamp \in Nat /\ Stamp(0) \in k .. MaxStamp
      BY <3>1, StampRange DEF k
    <3> HIDE DEF MaxStamp, Stamp
    <3> QED BY <3>2, <1>k
  <2> HIDE DEF MaxStamp
  <2>6. s \in 1..MaxStamp
    BY <2>5, <1>k
  <2>3. \A t \in 1..MaxStamp : published'[u][t] > 0 => published[u][t] > 0
    <3>1. ASSUME NEW t \in 1..MaxStamp PROVE published'[u][t] > 0 => published[u][t] > 0
      <4>1. published[u][t] \in Nat
        BY <1>t
      <4>2. published'[u][t] \in {published[u][t], published[u][t] - 1}
        <5>1. CASE x # u
          BY <2>1, <2>6, <1>t, <5>1, CountDown
        <5>2. CASE x = u
          BY <2>1, <2>6, <1>t, <5>2, CountDown
        <5> QED BY <5>1, <5>2
      <4> QED BY <4>1, <4>2
    <3> QED BY <3>1
  <2>4. After(u, k, n, openDocs'[u].version, due'[u], published'[u], wire')
    BY <2>2, <2>3, <1>o DEF After
  <2> QED BY <2>2, <2>4, <1>j, <1>q DEF Goal
<1>9. ASSUME LoseServer PROVE Goal
  <2>1. losses' = losses + 1 /\ seq' = seq /\ published' = published /\ due'[u] = {} /\ wire' = <<>> /\ openDocs'[u].version = 0
    BY <1>9 DEF LoseServer, Lose, Absent
  <2>2. n <= k + MaxVersion + 0
    BY <1>o, <1>k, <1>d, <1>t DEF After
  <2>3. losses' * MaxVersion = k + MaxVersion
    BY <1>m, <2>1
  <2>4. After(u, k + MaxVersion, n, openDocs'[u].version, due'[u], published'[u], wire')
    BY <2>1, <2>2, <1>o DEF After
  <2> QED BY <2>1, <2>3, <2>4, <1>q DEF Goal
<1>10. ASSUME UNCHANGED lookupVars PROVE Goal
  BY <1>10, <1>s DEF lookupVars, syncVars
<1> QED BY <1>1, <1>2, <1>3, <1>4, <1>5, <1>6, <1>7, <1>8, <1>9, <1>10 DEF LookupNext, Goal

\* Nothing comes for a document nobody writes about and the server does not turn to.
LEMMA NothingComes ==
  ASSUME LInv, [LookupNext]_lookupVars, NEW u \in Uris, ~Coming(u, 0, due[u], published[u], wire),
         ~ServerReconsiders(u), \A c \in Callers : SyncWrites(c) => curi[c] # u
  PROVE  ~Coming(u, 0, due'[u], published'[u], wire') /\ seq'[u] = seq[u]
<1> DEFINE Goal == ~Coming(u, 0, due'[u], published'[u], wire') /\ seq'[u] = seq[u]
<1>t. /\ wire \in Seq(Messages) /\ DOMAIN wire = 1..Len(wire) /\ Len(wire) \in Nat
      /\ published \in [Uris -> [1..MaxStamp -> Nat]] /\ due \in [Uris -> SUBSET (1..MaxVersion)] /\ seq \in [Uris -> 0..MaxSeq]
      /\ curi \in [Callers -> Uris]
      /\ MaxSeq \in Nat
  <2>1. SyncTypeOK /\ Types
    BY DEF LInv, SInv
  <2>2. wire \in Seq(Messages) /\ curi \in [Callers -> Uris] /\ DOMAIN wire = 1..Len(wire) /\ Len(wire) \in Nat
    BY <2>1, WireType DEF SyncTypeOK
  <2>3. published \in [Uris -> [1..MaxStamp -> Nat]] /\ due \in [Uris -> SUBSET (1..MaxVersion)] /\ seq \in [Uris -> 0..MaxSeq]
    BY <2>1 DEF Types
  <2> QED BY <2>2, <2>3, LookupAssumption
<1>l. MaxStamp \in Nat
  <2>1. losses \in 0..MaxLosses /\ 0 \in 0..MaxVersion
    BY BoundsAssumption DEF LInv, SInv, SyncTypeOK
  <2> QED BY <2>1, StampRange
<1>o. /\ due[u] = {} /\ \A t \in 1..MaxStamp : published[u][t] = 0
      /\ \A i \in DOMAIN wire : wire[i].uri = u => wire[i].kind \notin Syncs
  <2> HIDE DEF MaxStamp
  <2>1. \A t \in 1..MaxStamp : t > 0 /\ published[u][t] \in Nat
    BY <1>t, <1>l
  <2>2. \A t \in 1..MaxStamp : ~(published[u][t] > 0)
    BY <2>1 DEF Coming
  <2>3. \A t \in 1..MaxStamp : published[u][t] = 0
    BY <2>1, <2>2
  <2> QED BY <2>3 DEF Coming
<1>c. ASSUME due'[u] = {}, published'[u] = published[u], seq'[u] = seq[u],
             \A i \in DOMAIN wire' : wire'[i].uri = u => wire'[i].kind \notin Syncs
      PROVE  Goal
  <2> HIDE DEF MaxStamp
  <2>1. \A t \in 1..MaxStamp : ~(published[u][t] > 0)
    BY <1>o
  <2> QED BY <1>c, <2>1 DEF Coming
<1> HIDE DEF Goal
<1> USE DEF callVars, shutVars, cacheVars, ghostVars
<1>w. ASSUME UNCHANGED <<due, published, seq>>,
             \A i \in DOMAIN wire' : i \in DOMAIN wire /\ wire'[i].uri = wire[i].uri /\ wire'[i].kind = wire[i].kind
      PROVE  Goal
  BY <1>w, <1>o, <1>c
<1>a. ASSUME UNCHANGED <<due, published, seq>>, NEW m \in Messages, wire' = Append(wire, m), m.kind \notin Syncs \/ m.uri # u PROVE Goal
  <2>1. /\ DOMAIN wire' = DOMAIN wire \cup {Len(wire) + 1} /\ wire'[Len(wire) + 1] = m
        /\ \A i \in DOMAIN wire : wire'[i] = wire[i]
    BY <1>a, <1>t, AppendFacts
  <2> QED BY <1>a, <1>o, <1>c, <2>1
<1>s. ASSUME UNCHANGED <<due, published, wire, seq>> PROVE Goal
  BY <1>s, <1>w
<1>1. ASSUME NEW c \in Callers, Start(c) PROVE Goal
  BY <1>1, <1>s DEF Start, Read, Bind, Refused, End
<1>2. ASSUME NEW c \in Callers, Lookup(c) PROVE Goal
  <2>1. UNCHANGED <<due, published>>
    BY <1>2 DEF Lookup, Baseline, NewCall, LookupSync, AcquirePush, PushAnswers, PushTimesOut, AcquirePull, PullAnswers, LookupFails
  <2>s. UNCHANGED seq
    BY <1>2 DEF Lookup, Baseline, LookupSync, AcquirePush, PushAnswers, PushTimesOut, AcquirePull, PullAnswers, LookupFails,
                Cache!TakeBaseline, Cache!Forgo, Cache!BeginWait, Cache!WaitReturns, Cache!WaitFails, Cache!Snapshot,
                Cache!docVars
  <2>2. CASE Baseline(c) \/ AcquirePush(c) \/ PullAnswers(c)
    BY <2>1, <2>2, <2>s, <1>s DEF Baseline, NewCall, AcquirePush, PullAnswers, Return, syncVars
  <2>3. CASE PushAnswers(c) \/ PushTimesOut(c) \/ LookupFails(c)
    <3>1. AskFails(c)
      BY <2>3 DEF PushAnswers, PushTimesOut, LookupFails
    <3>2. \A i \in DOMAIN wire' : i \in DOMAIN wire /\ wire'[i].uri = wire[i].uri /\ wire'[i].kind = wire[i].kind
      <4>1. SyncTypeOK
        BY DEF LInv, SInv
      <4> QED BY <3>1, <4>1, DropWait
    <3> QED BY <2>1, <2>s, <3>2, <1>w
  <2>4. CASE AcquirePull(c)
    <3>1. tool[c] \in Tools \cup {"none"}
      BY DEF LInv, SInv, SyncTypeOK
    <3> DEFINE m == Request(curi[c], c, Takes(tool[c]))
    <3>2. m \in Messages /\ m.kind \notin Syncs
      BY <3>1, <1>t, NeedsType, RequestType DEF Request, Syncs
    <3>3. wire' = Append(wire, m)
      BY <2>4 DEF AcquirePull, Ask, Send, Write
    <3> HIDE DEF m
    <3> QED BY <2>1, <2>s, <3>2, <3>3, <1>a
  <2>5. CASE SyncKeeps(c) \/ SyncBreaks(c)
    BY <2>1, <2>s, <2>5, <1>s DEF SyncKeeps, SyncUnchanged, SyncBreaks, SyncFails
  <2>6. CASE SyncWrites(c)
    <3>1. PICK m : wire' = Append(wire, m) /\ m.uri = curi[c]
      BY <2>6 DEF SyncWrites, SyncOpen, SyncChange, Write, DidOpen, DidChange, Notify
    <3>2. m.uri # u
      BY <2>6, <3>1
    <3>3. /\ DOMAIN wire' = DOMAIN wire \cup {Len(wire) + 1} /\ wire'[Len(wire) + 1] = m
          /\ \A i \in DOMAIN wire : wire'[i] = wire[i]
      BY <3>1, <1>t
    <3> QED BY <2>1, <2>s, <3>2, <3>3, <1>o, <1>c
  <2> QED BY <1>2, <2>2, <2>3, <2>4, <2>5, <2>6, SyncSplit DEF Lookup
<1>3. ASSUME NEW v \in Uris, SaveFile(v) \/ SettleWindow(v) PROVE Goal
  BY <1>3, <1>s DEF SaveFile, Save, SettleWindow, Cache!Settle, syncVars
<1>4. ASSUME NEW x \in Uris, ServerPublishes(x) PROVE Goal
  <2>1. PICK v \in due[x] : /\ published' = [published EXCEPT ![x][Stamp(v)] = @ + 1]
                            /\ due' \in {[due EXCEPT ![x] = @ \ {v}], [due EXCEPT ![x] = {w \in @ : w > v}]}
    BY <1>4 DEF ServerPublishes
  <2>2. x # u
    BY <1>o
  <2>3. due'[u] = due[u] /\ published'[u] = published[u]
    BY <2>1, <2>2, <1>t
  <2>4. UNCHANGED <<wire, seq>>
    BY <1>4 DEF ServerPublishes, syncVars
  <2> QED BY <2>3, <2>4, <1>o, <1>c
<1>5. ASSUME NEW x \in Uris, ServerReconsiders(x) PROVE Goal
  <2>1. x # u
    BY <1>5
  <2>2. due'[u] = due[u] /\ UNCHANGED <<published, wire, seq>>
    BY <1>5, <2>1, <1>t DEF ServerReconsiders, syncVars
  <2> QED BY <2>2, <1>o, <1>c
<1>6. ASSUME ServerReads \/ ServerReports PROVE Goal
  <2>1. /\ wire # <<>> /\ wire' = Tail(wire) /\ UNCHANGED <<published, seq>>
        /\ Head(wire).kind \notin Syncs => due' = due
        /\ Head(wire).kind \in Syncs => due' = [due EXCEPT ![Head(wire).uri] = @ \cup {Head(wire).doc.version}]
    BY <1>6 DEF ServerReads, ServerReports, ServerSyncs, ServerAnswers, Syncs
  <2>2. /\ 1 \in DOMAIN wire /\ Head(wire) = wire[1] /\ DOMAIN wire' = 1..(Len(wire) - 1)
        /\ \A i \in DOMAIN wire' : wire'[i] = wire[i + 1] /\ i + 1 \in DOMAIN wire
    BY <2>1, <1>t
  <2>3. due'[u] = due[u]
    <3>1. Head(wire).kind \notin Syncs \/ Head(wire).uri # u
      BY <2>2, <1>o
    <3> QED BY <2>1, <3>1, <1>t
  <2> QED BY <2>1, <2>2, <2>3, <1>o, <1>c
<1>8. ASSUME NEW x \in Uris, Dispatch(x) \/ DropLost(x) PROVE Goal
  <2>1. PICK s \in Nat : /\ published[x][s] > 0
                         /\ published' = [published EXCEPT ![x][s] = @ - 1]
                         /\ seq' = seq \/ seq' = [seq EXCEPT ![x] = @ + 1]
                         /\ s \in 1..MaxStamp
    <3>1. losses * MaxVersion \in Nat /\ losses * MaxVersion <= MaxStamp /\ MaxStamp \in Nat
      <4>1. losses \in 0..MaxLosses /\ 0 \in 0..MaxVersion
        BY BoundsAssumption DEF LInv, SInv, SyncTypeOK
      <4>2. /\ MaxStamp \in Nat /\ losses * MaxVersion \in Nat /\ Stamp(0) \in losses * MaxVersion .. MaxStamp
        BY <4>1, StampRange
      <4> HIDE DEF MaxStamp, Stamp
      <4> QED BY <4>2
    <3> HIDE DEF MaxStamp
    <3>2. 1..(losses * MaxVersion) \subseteq 1..MaxStamp /\ 1..MaxStamp \subseteq Nat
      BY <3>1
    <3>3. CASE Dispatch(x)
      BY <3>2, <3>3 DEF Dispatch, Cache!Publish
    <3>4. CASE DropLost(x)
      BY <3>2, <3>4 DEF DropLost
    <3> QED BY <1>8, <3>3, <3>4
  <2> HIDE DEF MaxStamp
  <2>2. x # u
    BY <2>1, <1>o
  <2>3. published'[u] = published[u] /\ seq'[u] = seq[u]
    BY <2>1, <2>2, <1>t
  <2>4. UNCHANGED <<due, wire>>
    BY <1>8 DEF Dispatch, DropLost, syncVars
  <2> QED BY <2>3, <2>4, <1>o, <1>c
<1>9. ASSUME LoseServer PROVE Goal
  <2>1. due'[u] = {} /\ published' = published /\ wire' = <<>> /\ seq' = seq
    BY <1>9 DEF LoseServer, Lose
  <2> QED BY <2>1, <1>c
<1>10. ASSUME UNCHANGED lookupVars PROVE Goal
  BY <1>10, <1>s DEF lookupVars, syncVars
<1> QED BY <1>1, <1>2, <1>3, <1>4, <1>5, <1>6, <1>8, <1>9, <1>10 DEF LookupNext, Goal

\* Before its sync a call that is calm has everything about its document behind it;
\* after it, everything from now on is about its text or a later one.
CallFresh(c) ==
  /\ phase[c] # "idle" /\ pc[c] = "bound" =>
       /\ wanted[c] = 0
       /\ calm[c] => ~Coming(curi[c], 0, due[curi[c]], published[curi[c]], wire) /\ seq[curi[c]] = base[c]
  /\ phase[c] # "idle" /\ pc[c] \in {"synced", "stranded"} /\ calm[c] =>
       /\ After(curi[c], losses * MaxVersion, wanted[c], openDocs[curi[c]].version, due[curi[c]], published[curi[c]], wire)
       /\ seq[curi[c]] > base[c] => diags[curi[c]] >= wanted[c]
  /\ result[c].kind = "diags" /\ calm[c] => result[c].diags >= wanted[c]
FreshInv == \A c \in Callers : CallFresh(c)

LEMMA FreshInit == LookupInit => FreshInv
  BY DEF LookupInit, Cache!CacheInit, Cache!NoResult, FreshInv, CallFresh

LEMMA FreshNext ==
  ASSUME LInv, FreshInv, [LookupNext]_lookupVars
  PROVE  FreshInv'
<1> SUFFICES ASSUME NEW d \in Callers PROVE CallFresh(d)'
  BY DEF FreshInv
<1> DEFINE u == curi[d]
           n == wanted[d]
           Goal == CallFresh(d)'
<1>t. /\ CallPhase(d) /\ CallFresh(d)
      /\ MaxSeq \in Nat /\ MaxVersion \in Nat /\ MaxStamp \in Nat /\ losses \in 0..MaxLosses /\ losses \in Nat
      /\ curi \in [Callers -> Uris] /\ wire \in Seq(Messages) /\ openDocs \in [Uris -> Docs]
      /\ pc \in [Callers -> {"idle", "read", "bound", "synced", "asked", "answered", "stranded", "lost"}]
      /\ cver \in [Callers -> 0..MaxVersion]
  <2>1. losses \in 0..MaxLosses /\ losses \in Nat /\ MaxVersion \in Nat /\ 0 \in 0..MaxVersion
    BY BoundsAssumption DEF LInv, SInv, SyncTypeOK
  <2> QED BY <2>1, LookupAssumption, StampRange DEF LInv, SInv, SyncTypeOK, FreshInv
<1>r. /\ seq \in [Uris -> 0..MaxSeq] /\ base \in [Callers -> 0..MaxSeq] /\ wuri \in [Callers -> Uris] /\ DOMAIN result = Callers
      /\ phase \in [Callers -> {"idle", "based", "waiting"}] /\ diags \in [Uris -> 0..MaxStamp]
      /\ wanted \in [Callers -> 0..MaxStamp] /\ calm \in [Callers -> BOOLEAN]
  BY DEF LInv, Types
<1>u. /\ u \in Uris /\ n \in Nat /\ seq[u] \in Nat /\ base[d] \in Nat /\ diags[u] \in Nat /\ seq[u] <= MaxSeq
      /\ openDocs[u].version \in Nat /\ openDocs[u].version <= MaxVersion
  <2>1. u \in Uris /\ n \in 0..MaxStamp /\ diags[u] \in 0..MaxStamp /\ openDocs[u] \in Docs
    BY <1>t, <1>r
  <2> QED BY <2>1, <1>t, <1>r, DocFields
<1>k. losses * MaxVersion \in Nat /\ \A v \in Nat : Stamp(v) = losses * MaxVersion + v
  BY <1>t DEF Stamp
<1> HIDE DEF Goal, n
<1> USE DEF callVars, shutVars, cacheVars, ghostVars
\* The caller stays where it is, or leaves.
<1>b. ASSUME ~LoseServer, curi'[d] = curi[d] \/ phase'[d] = "idle", base'[d] = base[d], result'[d] = result[d], wanted'[d] = n,
             calm'[d] => calm[d], phase'[d] # "idle" => phase[d] # "idle",
             phase'[d] # "idle" /\ pc'[d] \in {"bound", "synced", "stranded"} => pc'[d] = pc[d]
      PROVE  Goal
  <2>1. ASSUME phase'[d] # "idle", pc'[d] = "bound"
        PROVE  wanted'[d] = 0 /\ (calm'[d] => ~Coming(curi'[d], 0, due'[curi'[d]], published'[curi'[d]], wire') /\ seq'[curi'[d]] = base'[d])
    <3>1. wanted[d] = 0 /\ pc[d] = "bound" /\ curi'[d] = u
      BY <1>b, <1>t, <2>1 DEF CallFresh
    <3>2. ASSUME calm'[d] PROVE ~Coming(u, 0, due'[u], published'[u], wire') /\ seq'[u] = base[d]
      <4>1. ~Coming(u, 0, due[u], published[u], wire) /\ seq[u] = base[d]
        BY <1>b, <1>t, <2>1, <3>1, <3>2 DEF CallFresh
      <4>2. ~ServerReconsiders(u)
        BY <3>1, <3>2 DEF ServerReconsiders
      <4>3. ASSUME NEW c \in Callers, SyncWrites(c) PROVE curi[c] # u
        <5>1. CASE c = d
          BY <2>1, <4>3, <5>1, <1>t DEF SyncWrites, SyncOpen, SyncChange, Synced
        <5>2. CASE c # d
          BY <3>1, <3>2, <4>3, <5>2 DEF SyncWrites
        <5> QED BY <5>1, <5>2
      <4> QED BY <4>1, <4>2, <4>3, <1>u, NothingComes
    <3> QED BY <3>1, <3>2, <1>b DEF n
  <2>2. ASSUME phase'[d] # "idle", pc'[d] \in {"synced", "stranded"}, calm'[d]
        PROVE  /\ After(curi'[d], losses' * MaxVersion, wanted'[d], openDocs'[curi'[d]].version, due'[curi'[d]], published'[curi'[d]], wire')
               /\ seq'[curi'[d]] > base'[d] => diags'[curi'[d]] >= wanted'[d]
    <3>1. pc[d] = pc'[d] /\ curi'[d] = u /\ phase[d] # "idle" /\ calm[d]
      BY <1>b, <2>2
    <3>2. After(u, losses * MaxVersion, n, openDocs[u].version, due[u], published[u], wire) /\ (seq[u] > base[d] => diags[u] >= n)
      BY <1>t, <2>2, <3>1 DEF CallFresh, n
    <3>3. ServerReconsiders(u) => n <= Stamp(srv[u].version)
      <4>1. ServerReconsiders(u) => Stamp(srv[u].version) >= wanted[d]
        BY <2>2 DEF ServerReconsiders
      <4>2. Stamp(srv[u].version) \in Int
        <5>1. srv[u] \in Docs
          BY <1>u DEF LInv, SInv, SyncTypeOK
        <5>2. srv[u].version \in Nat
          BY <5>1, <1>t, DocFields
        <5> QED BY <5>2, <1>k
      <4> QED BY <4>1, <4>2, <1>u DEF n
    <3>4. /\ After(u, losses' * MaxVersion, n, openDocs'[u].version, due'[u], published'[u], wire')
          /\ seq'[u] > seq[u] => diags'[u] >= n
      BY <3>2, <3>3, <1>u, AfterStays
    <3>5. seq'[u] > base[d] => diags'[u] >= n
      <4>1. CASE seq'[u] > seq[u]
        BY <3>4, <4>1
      <4>2. CASE ~(seq'[u] > seq[u])
        <5>1. seq'[u] = seq[u] /\ diags'[u] = diags[u]
          <6>1. [Cache!CacheNext]_(Cache!cacheVars)
            BY CacheStep
          <6>2. \/ \E v \in Uris : seq' = [seq EXCEPT ![v] = @ + 1] /\ \E g : diags' = [diags EXCEPT ![v] = g]
                \/ UNCHANGED <<seq, diags>>
            BY <6>1 DEF Cache!CacheNext, Cache!cacheVars, Cache!docVars, Cache!Publish, Cache!Settle,
                     Cache!TakeBaseline, Cache!BeginWait, Cache!Snapshot, Cache!Forgo, Cache!WaitReturns, Cache!WaitFails
          <6> QED BY <4>2, <6>2, <1>r, <1>u
        <5> QED BY <3>2, <5>1
      <4> QED BY <4>1, <4>2
    <3> QED BY <3>1, <3>4, <3>5, <1>b
  <2>3. result'[d].kind = "diags" /\ calm'[d] => result'[d].diags >= wanted'[d]
    BY <1>b, <1>t DEF CallFresh, n
  <2> QED BY <2>1, <2>2, <2>3 DEF Goal, CallFresh
<1>l. ASSUME ~LoseServer, UNCHANGED <<curi, base, result, wanted, phase, pc>>, calm'[d] => calm[d] PROVE Goal
  BY <1>l, <1>b DEF n
\* The call is over, with diagnostics or without.
<1>e. ASSUME phase'[d] = "idle", result'[d].kind = "diags" /\ calm'[d] => result'[d].diags >= wanted'[d] PROVE Goal
  BY <1>e DEF Goal, CallFresh
<1>1. ASSUME NEW c \in Callers, Start(c), ~LoseServer PROVE Goal
  <2>1. CASE c # d
    BY <1>1, <1>b, <2>1, <1>t DEF Start, Read, Bind, Refused, End, n
  <2>2. CASE c = d
    BY <1>1, <1>e, <2>2, <1>t DEF Start, Read, Bind, Refused, End, CallPhase, CallFresh
  <2> QED BY <2>1, <2>2
<1>2. ASSUME NEW c \in Callers, Baseline(c), ~LoseServer PROVE Goal
  <2>1. CASE c # d
    BY <1>2, <1>b, <2>1, <1>t, <1>r DEF Baseline, NewCall, ForgetText, Cache!TakeBaseline, syncVars, n
  <2>2. CASE c = d
    <3>1. /\ wanted'[d] = 0 /\ calm'[d] = ~UnderWay(u) /\ base'[d] = seq[u] /\ result'[d].kind = "none"
          /\ UNCHANGED <<curi, seq, diags, due, published, wire, losses, openDocs>>
      BY <1>2, <2>2, <1>r DEF Baseline, NewCall, ForgetText, Cache!TakeBaseline, Cache!docVars, Cache!NoResult, syncVars
    <3>2. calm'[d] => ~Coming(u, 0, due[u], published[u], wire)
      BY <3>1, <1>t, ComingNow
    <3>3. After(u, losses * MaxVersion, 0, openDocs[u].version, due[u], published[u], wire)
      <4>1. \A v \in due[u] : v \in Nat
        BY <1>u, <1>t DEF LInv, Types
      <4>2. \A t \in 1..MaxStamp : 0 <= t
        BY <1>t
      <4>3. \A i \in DOMAIN wire : wire[i].doc.version \in Nat
        <5>1. \A i \in DOMAIN wire : wire[i].doc \in Docs
          BY WireType DEF LInv, SInv
        <5> QED BY <5>1, <1>t, DocFields
      <4> QED BY <4>1, <4>2, <4>3, <1>k, <1>u DEF After
    <3>4. ~(seq[u] > seq[u])
      BY <1>u
    <3> QED BY <3>1, <3>2, <3>3, <3>4 DEF Goal, CallFresh
  <2> QED BY <2>1, <2>2
<1>3. ASSUME NEW c \in Callers, SyncWrites(c), ~LoseServer PROVE Goal
  <2>1. CASE c # d
    <3>1. calm'[d] => calm[d]
      BY <1>3 DEF SyncWrites
    <3> QED BY <1>3, <1>b, <2>1, <3>1, <1>t, <1>r DEF SyncWrites, SyncOpen, SyncChange, Synced, n
  <2>2. CASE c = d
    <3>1. /\ UNCHANGED <<curi, seq, base, result, diags, due, published, losses, phase>> /\ pc[d] = "bound" /\ pc'[d] = "synced" /\ phase[d] = "based"
          /\ wanted'[d] = Stamp(cver'[d])
          /\ calm'[d] => calm[d]
      BY <1>3, <2>2, <1>t, <1>r DEF SyncWrites, SyncOpen, SyncChange, Synced
    <3>2. PICK m : /\ wire' = Append(wire, m) /\ m.uri = u /\ m.doc.version = cver'[d] /\ openDocs'[u].version = cver'[d]
      BY <1>3, <2>2, <1>t, <1>u DEF SyncWrites, SyncOpen, SyncChange, Synced, Write, DidOpen, DidChange, Notify, Doc
    <3>3. cver'[d] \in Nat
      <4>1. cver' \in [Callers -> 0..MaxVersion]
        BY SInvNext DEF LInv, SInv, SyncTypeOK
      <4> QED BY <4>1
    <3>4. result'[d].kind = "none"
      BY <3>1, <1>t DEF CallPhase
    <3>5. ASSUME calm'[d] PROVE /\ After(u, losses * MaxVersion, Stamp(cver'[d]), cver'[d], due[u], published[u], wire')
                                /\ ~(seq[u] > base[d])
      <4>1. ~Coming(u, 0, due[u], published[u], wire) /\ seq[u] = base[d]
        BY <3>1, <3>5, <1>t DEF CallFresh
      <4>2. /\ DOMAIN wire' = DOMAIN wire \cup {Len(wire) + 1} /\ wire'[Len(wire) + 1] = m
            /\ \A i \in DOMAIN wire : wire'[i] = wire[i]
        BY <3>2, <1>t
      <4>3. Stamp(cver'[d]) = losses * MaxVersion + cver'[d] /\ Stamp(cver'[d]) <= losses * MaxVersion + cver'[d]
        BY <3>3, <1>k
      <4> QED BY <4>1, <4>2, <4>3, <3>2, <1>u DEF After, Coming
    <3> QED BY <3>1, <3>2, <3>4, <3>5 DEF Goal, CallFresh
  <2> QED BY <2>1, <2>2
<1>4. ASSUME NEW c \in Callers, SyncKeeps(c), ~LoseServer PROVE Goal
  <2>1. CASE c # d
    BY <1>4, <1>b, <2>1, <1>t, <1>r DEF SyncKeeps, SyncUnchanged, Synced, n
  <2>2. CASE c = d
    <3>1. /\ UNCHANGED <<curi, seq, base, result, diags, due, published, losses, phase, openDocs, wire, calm>>
          /\ pc[d] = "bound" /\ pc'[d] = "synced" /\ phase[d] = "based"
          /\ wanted'[d] = Stamp(cver'[d]) /\ cver'[d] = openDocs[u].version
      BY <1>4, <2>2, <1>t, <1>r DEF SyncKeeps, SyncUnchanged, Synced
    <3>2. result'[d].kind = "none"
      BY <3>1, <1>t DEF CallPhase
    <3>3. ASSUME calm[d] PROVE /\ After(u, losses * MaxVersion, Stamp(cver'[d]), openDocs[u].version, due[u], published[u], wire)
                               /\ ~(seq[u] > base[d])
      <4>1. ~Coming(u, 0, due[u], published[u], wire) /\ seq[u] = base[d]
        BY <3>1, <3>3, <1>t DEF CallFresh
      <4>2. Stamp(cver'[d]) <= losses * MaxVersion + openDocs[u].version
        BY <3>1, <1>k, <1>u
      <4> QED BY <4>1, <4>2, <1>u DEF After, Coming
    <3> QED BY <3>1, <3>2, <3>3 DEF Goal, CallFresh
  <2> QED BY <2>1, <2>2
<1>5. ASSUME NEW c \in Callers, SyncBreaks(c), ~LoseServer PROVE Goal
  <2>1. CASE c # d
    BY <1>5, <1>b, <2>1, <1>t, <1>r DEF SyncBreaks, SyncFails, End, Cache!Forgo, Cache!docVars, ForgetText, n
  <2>2. CASE c = d
    BY <1>5, <1>e, <2>2, <1>t, <1>r DEF SyncBreaks, Cache!Forgo, CallPhase
  <2> QED BY <2>1, <2>2
<1>6. ASSUME NEW c \in Callers, AcquirePush(c), ~LoseServer PROVE Goal
  BY <1>6, <1>b, <1>t, <1>r DEF AcquirePush, Cache!BeginWait, Cache!docVars, syncVars, n
<1>7. ASSUME NEW c \in Callers, PushAnswers(c), ~LoseServer PROVE Goal
  <2>1. CASE c # d
    BY <1>7, <1>b, <2>1, <1>t, <1>r DEF PushAnswers, AskFails, End, Cache!WaitReturns, Cache!docVars, n
  <2>2. CASE c = d
    <3>1. /\ phase[d] = "waiting" /\ wuri[d] = u /\ pc[d] \in {"synced", "stranded"} /\ seq[u] > base[d]
          /\ phase'[d] = "idle" /\ result'[d].diags = diags[u] /\ UNCHANGED <<wanted, calm>>
      BY <1>7, <2>2, <1>t, <1>r DEF PushAnswers, Cache!WaitReturns, Cache!Diags, CallPhase
    <3>2. calm[d] => diags[u] >= wanted[d]
      BY <3>1, <1>t DEF CallFresh
    <3> QED BY <3>1, <3>2, <1>e
  <2> QED BY <2>1, <2>2
<1>8. ASSUME NEW c \in Callers, PullAnswers(c), ~LoseServer PROVE Goal
  <2>1. CASE c # d
    BY <1>8, <1>b, <2>1, <1>t, <1>r DEF PullAnswers, Return, End, ForgetText, Cache!Forgo, Cache!Snapshot, Cache!docVars, n
  <2>2. CASE c = d
    <3>1. phase'[d] = "idle" /\ result'[d].kind # "diags"
      BY <1>8, <2>2, <1>t, <1>r DEF PullAnswers, Cache!Forgo, Cache!Snapshot, Cache!Cached, CallPhase
    <3> QED BY <3>1, <1>e
  <2> QED BY <2>1, <2>2
<1>9. ASSUME NEW c \in Callers, PushTimesOut(c), ~LoseServer PROVE Goal
  <2>1. CASE c # d
    BY <1>9, <1>b, <2>1, <1>t, <1>r DEF PushTimesOut, AskFails, End, ForgetText, Cache!WaitFails, Cache!docVars, n
  <2>2. CASE c = d
    <3>1. phase'[d] = "idle" /\ result'[d].kind # "diags"
      BY <1>9, <2>2, <1>t, <1>r DEF PushTimesOut, Cache!WaitFails, Cache!Error
    <3> QED BY <3>1, <1>e
  <2> QED BY <2>1, <2>2
<1>10. ASSUME NEW c \in Callers, AcquirePull(c), ~LoseServer PROVE Goal
  BY <1>10, <1>b, <1>t, <1>r DEF AcquirePull, Ask, Send, CallPhase, n
<1>11. ASSUME NEW c \in Callers, LookupFails(c), ~LoseServer PROVE Goal
  <2>1. CASE c # d
    BY <1>11, <1>b, <2>1, <1>t, <1>r DEF LookupFails, AskFails, End, ForgetText, Cache!Forgo, Cache!docVars, n
  <2>2. CASE c = d
    <3>1. CASE Cache!Forgo(d)
      BY <3>1, <1>e, <1>t, <1>r DEF Cache!Forgo, CallPhase
    <3>2. CASE phase[d] = "idle" /\ UNCHANGED <<cacheVars, wanted, calm, wrote>>
      BY <3>2, <1>e, <1>t DEF CallFresh
    <3> QED BY <1>11, <2>2, <3>1, <3>2 DEF LookupFails
  <2> QED BY <2>1, <2>2
<1>12. ASSUME NEW x \in Uris, SaveFile(x) \/ ServerPublishes(x) \/ SettleWindow(x), ~LoseServer PROVE Goal
  BY <1>12, <1>l DEF SaveFile, Save, ServerPublishes, SettleWindow, Cache!Settle, syncVars
<1>18. ASSUME NEW x \in Uris, Dispatch(x) \/ DropLost(x), ~LoseServer PROVE Goal
  BY <1>18, <1>l DEF Dispatch, DropLost, Cache!Publish, syncVars
<1>13. ASSUME NEW x \in Uris, ServerReconsiders(x), ~LoseServer PROVE Goal
  <2>1. calm'[d] => calm[d]
    BY <1>13 DEF ServerReconsiders
  <2> QED BY <1>13, <1>l, <2>1 DEF ServerReconsiders, syncVars
<1>14. ASSUME ServerReads, ~LoseServer PROVE Goal
  BY <1>14, <1>l DEF ServerReads, ServerSyncs
<1>15. ASSUME ServerReports, ~LoseServer PROVE Goal
  <2>1. /\ pc'[d] = "answered" \/ pc'[d] = pc[d]
        /\ UNCHANGED <<curi, base, result, wanted, phase, calm>>
    BY <1>15 DEF ServerReports, ServerAnswers
  <2> QED BY <1>15, <1>b, <2>1 DEF n
<1>16. ASSUME LoseServer PROVE Goal
  <2>1. /\ pc'[d] = IF d \in Stranded THEN "stranded" ELSE IF d \in Dropped THEN "lost" ELSE pc[d]
        /\ UNCHANGED <<curi, base, result, wanted, phase, calm, seq, diags>>
        /\ published' = published /\ due'[u] = {} /\ wire' = <<>> /\ openDocs'[u].version = 0 /\ losses' = losses + 1
    BY <1>16, <1>u DEF LoseServer, Lose, Absent
  <2>2. pc'[d] \notin {"synced", "bound"} /\ (pc'[d] = "stranded" => pc[d] \in {"synced", "bound", "stranded"})
    BY <2>1 DEF Dropped, Stranded, NeedsNoWrite
  <2> DEFINE K == losses * MaxVersion
  <2>k. K \in Nat
    BY <1>k
  <2>3. losses' * MaxVersion = K + MaxVersion
    BY <2>1, <1>t
  <2> HIDE DEF K
  <2>4. ASSUME phase[d] # "idle", pc'[d] = "stranded", calm[d]
        PROVE  n <= K + MaxVersion + 0 /\ (seq[u] > base[d] => diags[u] >= n)
    <3>1. CASE pc[d] = "bound"
      <4>1. n = 0
        BY <2>4, <3>1, <1>t DEF CallFresh, n
      <4> QED BY <4>1, <1>t, <1>u, <2>k
    <3>2. CASE pc[d] # "bound"
      <4>2. /\ After(u, losses * MaxVersion, n, openDocs[u].version, due[u], published[u], wire)
            /\ seq[u] > base[d] => diags[u] >= n
        BY <2>2, <2>4, <3>2, <1>t DEF CallFresh, n
      <4>1. n <= K + openDocs[u].version /\ (seq[u] > base[d] => diags[u] >= n)
        BY <4>2 DEF After, K
      <4> QED BY <4>1, <1>u, <2>k, <1>t
    <3> QED BY <3>1, <3>2
  <2>6. ASSUME phase[d] # "idle", pc'[d] = "stranded", calm[d]
        PROVE  \A t \in 1..MaxStamp : published[u][t] > 0 => n <= t
    <3>1. CASE pc[d] = "bound"
      <4>1. n = 0
        BY <2>6, <3>1, <1>t DEF CallFresh, n
      <4> QED BY <4>1, <1>t
    <3>2. CASE pc[d] # "bound"
      <4>1. After(u, losses * MaxVersion, n, openDocs[u].version, due[u], published[u], wire)
        BY <2>2, <2>6, <3>2, <1>t DEF CallFresh, n
      <4> QED BY <4>1 DEF After
    <3> QED BY <3>1, <3>2
  <2>5. phase[d] # "idle" /\ pc'[d] = "stranded" /\ calm[d] =>
          /\ After(u, losses' * MaxVersion, n, openDocs'[u].version, due'[u], published'[u], wire')
          /\ seq[u] > base[d] => diags[u] >= n
    BY <2>1, <2>3, <2>4, <2>6 DEF After
  <2> QED BY <2>1, <2>2, <2>5, <1>t DEF Goal, CallFresh, n
<1>17. ASSUME UNCHANGED lookupVars, ~LoseServer PROVE Goal
  BY <1>17, <1>l DEF lookupVars, syncVars
<1> QED
  <2>1. ASSUME NEW c \in Callers, LookupSync(c), ~LoseServer PROVE Goal
    BY <2>1, <1>3, <1>4, <1>5, SyncSplit
  <2> QED BY <2>1, <1>1, <1>2, <1>6, <1>7, <1>8, <1>9, <1>10, <1>11, <1>12, <1>13, <1>14, <1>15, <1>16, <1>17, <1>18
          DEF LookupNext, Lookup, Goal

\* Diagnostics a waiting lookup returns are not about an older text than the one its
\* sync established, if nothing about the document was under way when it took its
\* baseline and nobody else turned to it before its own text arrived
\* (diagnostics.go:72-77).
THEOREM FreshIfCalmHolds == LookupSpec => []FreshIfCalm
<1>1. FreshInv => FreshIfCalm
  BY DEF FreshInv, CallFresh, FreshIfCalm
<1>2. LInv /\ FreshInv /\ [LookupNext]_lookupVars => FreshInv'
  BY FreshNext
<1> QED BY <1>1, <1>2, LInvInit, LInvNext, FreshInit, PTL DEF LookupSpec
=============================================================================
