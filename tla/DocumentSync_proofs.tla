------------------------- MODULE DocumentSync_proofs -------------------------
(***************************************************************************)
(* Proofs about DocumentSync, for any number of callers, documents, tools  *)
(* and contents and any bounds.  What is on the wire decides what the      *)
(* server will have: the lemmas about Has say what a write and a read do   *)
(* to that.  The invariants then build on one another: types, ServerFollows*)
(* (openDocs is the server's copy once it has read everything), and from   *)
(* it that requests are answered from no older document and that every     *)
(* message is legal when it is read.                                       *)
(***************************************************************************)
EXTENDS DocumentSync, SequenceTheorems, TLAPS

\* WillHave, of a wire w and a server s.
Entries(w, u) == {i \in DOMAIN w : w[i].uri = u /\ w[i].kind \in Syncs}
Has(w, s, u, i, d) ==
  \/ (\A j \in Entries(w, u) : j >= i) /\ d = s[u]
  \/ \E j \in Entries(w, u) : j < i /\ (\A k \in Entries(w, u) : k < i => k <= j) /\ d = w[j].doc

LEMMA HasNow == ASSUME NEW u, NEW i, NEW d PROVE WillHave(u, i, d) <=> Has(wire, srv, u, i, d)
  BY DEF WillHave, Has, About, Entries

LEMMA HasNext == ASSUME NEW u, NEW i, NEW d PROVE WillHave(u, i, d)' <=> Has(wire', srv', u, i, d)
  BY DEF WillHave, Has, About, Entries

LEMMA AppendFacts ==
  ASSUME NEW S, NEW w \in Seq(S), NEW m \in S
  PROVE  /\ Len(w) \in Nat
         /\ DOMAIN w = 1..Len(w)
         /\ DOMAIN Append(w, m) = 1..(Len(w) + 1)
         /\ Len(Append(w, m)) = Len(w) + 1
         /\ Append(w, m)[Len(w) + 1] = m
         /\ \A i \in 1..Len(w) : Append(w, m)[i] = w[i]
  OBVIOUS

LEMMA TailFacts ==
  ASSUME NEW S, NEW w \in Seq(S), w # <<>>
  PROVE  /\ Len(w) \in Nat /\ Len(w) >= 1
         /\ DOMAIN w = 1..Len(w)
         /\ DOMAIN Tail(w) = 1..(Len(w) - 1)
         /\ Len(Tail(w)) = Len(w) - 1
         /\ Head(w) = w[1] /\ Head(w) \in S
         /\ \A i \in 1..(Len(w) - 1) : Tail(w)[i] = w[i + 1]
  OBVIOUS

\* There is one document the server will have.
LEMMA HasOne ==
  ASSUME NEW w \in Seq(Messages), NEW s, NEW u, NEW i \in Nat, NEW d1, NEW d2, Has(w, s, u, i, d1), Has(w, s, u, i, d2)
  PROVE  d1 = d2
<1>1. Entries(w, u) \subseteq Nat
  BY DEF Entries
<1> QED BY <1>1 DEF Has

\* Before the first message it has what it has.
LEMMA HasFirst ==
  ASSUME NEW w \in Seq(Messages), NEW s, NEW u, NEW d
  PROVE  Has(w, s, u, 1, d) <=> d = s[u]
<1>1. Entries(w, u) \subseteq Nat \ {0}
  BY DEF Entries
<1> QED BY <1>1 DEF Has

\* A message written does not change what the server has before it ...
LEMMA HasBefore ==
  ASSUME NEW w \in Seq(Messages), NEW m \in Messages, NEW s, NEW u, NEW i \in 1..(Len(w) + 1), NEW d
  PROVE  Has(Append(w, m), s, u, i, d) <=> Has(w, s, u, i, d)
<1> DEFINE v == Append(w, m)
<1>1. /\ DOMAIN v = DOMAIN w \cup {Len(w) + 1}
      /\ DOMAIN w = 1..Len(w) /\ Len(w) \in Nat
      /\ \A j \in DOMAIN w : v[j] = w[j]
  BY AppendFacts
<1> HIDE DEF v
<1>2. Entries(w, u) \subseteq 1..Len(w)
  BY <1>1 DEF Entries
<1>3. Entries(v, u) = Entries(w, u) \/ Entries(v, u) = Entries(w, u) \cup {Len(w) + 1}
  BY <1>1 DEF Entries
<1>4. \A j \in Entries(w, u) : v[j] = w[j]
  BY <1>1, <1>2
<1>5. Has(v, s, u, i, d) <=> Has(w, s, u, i, d)
  <2>1. CASE Entries(v, u) = Entries(w, u)
    BY <2>1, <1>4 DEF Has
  <2>2. CASE Entries(v, u) = Entries(w, u) \cup {Len(w) + 1}
    <3>1. (\A j \in Entries(v, u) : j >= i) <=> (\A j \in Entries(w, u) : j >= i)
      BY <1>1, <1>2, <2>2
    <3>2. \A j \in Entries(v, u) : j < i => j \in Entries(w, u)
      BY <1>1, <1>2, <2>2
    <3> QED BY <1>2, <1>4, <2>2, <3>1, <3>2 DEF Has
  <2> QED BY <1>3, <2>1, <2>2
<1> QED BY <1>5 DEF v

\* ... and decides what it has after it, if it is about the document.
LEMMA HasAfter ==
  ASSUME NEW w \in Seq(Messages), NEW m \in Messages, NEW s, NEW u, NEW d
  PROVE  /\ m.kind \in Syncs /\ m.uri = u => (Has(Append(w, m), s, u, Len(w) + 2, d) <=> d = m.doc)
         /\ m.kind \notin Syncs \/ m.uri # u =>
              (Has(Append(w, m), s, u, Len(w) + 2, d) <=> Has(w, s, u, Len(w) + 1, d))
<1> DEFINE v == Append(w, m)
           n == Len(w) + 1
<1>1. /\ DOMAIN v = DOMAIN w \cup {n} /\ v[n] = m
      /\ DOMAIN w = 1..Len(w) /\ n \in Nat /\ n = Len(w) + 1 /\ Len(w) \in Nat
      /\ \A j \in DOMAIN w : v[j] = w[j]
  BY AppendFacts
<1> HIDE DEF v
<1>2. Entries(w, u) \subseteq 1..Len(w)
  BY <1>1 DEF Entries
<1>4. \A j \in Entries(w, u) : v[j] = w[j]
  BY <1>1, <1>2
<1>5. ASSUME m.kind \in Syncs, m.uri = u PROVE Has(v, s, u, Len(w) + 2, d) <=> d = m.doc
  <2>1. Entries(v, u) = Entries(w, u) \cup {n}
    BY <1>1, <1>5 DEF Entries
  <2>2. \A j \in Entries(v, u) : j < Len(w) + 2 /\ j <= n /\ j \in Nat
    BY <1>1, <1>2, <2>1
  <2>3. \A j \in Entries(v, u) : n <= j => j = n
    BY <2>2, <1>1
  <2>4. ~(n >= Len(w) + 2) /\ n \in Entries(v, u)
    BY <1>1, <2>1
  <2> QED BY <1>1, <2>2, <2>3, <2>4 DEF Has
<1>6. ASSUME m.kind \notin Syncs \/ m.uri # u
      PROVE  Has(v, s, u, Len(w) + 2, d) <=> Has(w, s, u, Len(w) + 1, d)
  <2>1. Entries(v, u) = Entries(w, u)
    BY <1>1, <1>6 DEF Entries
  <2>2. \A j \in Entries(w, u) : j < Len(w) + 2 /\ j < n /\ j \in Nat
    BY <1>1, <1>2
  <2>3. \A j \in Entries(w, u) : (j >= Len(w) + 2 <=> j >= n) /\ (j < Len(w) + 2 <=> j < n)
    BY <1>1, <2>2
  <2> QED BY <1>4, <2>1, <2>3 DEF Has
<1> QED BY <1>5, <1>6 DEF v

\* A message read has happened to the server instead.
LEMMA HasRead ==
  ASSUME NEW w \in Seq(Messages), w # <<>>, NEW s, NEW t, NEW u, NEW i \in 1..Len(w), NEW d,
         Head(w).kind \in Syncs /\ Head(w).uri = u => t[u] = Head(w).doc,
         Head(w).kind \notin Syncs \/ Head(w).uri # u => t[u] = s[u]
  PROVE  Has(Tail(w), t, u, i, d) <=> Has(w, s, u, i + 1, d)
<1> DEFINE v == Tail(w)
<1>1. /\ Len(w) \in Nat /\ Len(w) >= 1
      /\ DOMAIN w = 1..Len(w) /\ DOMAIN v = 1..(Len(w) - 1)
      /\ Head(w) = w[1]
      /\ \A j \in 1..(Len(w) - 1) : v[j] = w[j + 1]
  BY TailFacts
<1> HIDE DEF v
<1>2. \A j : j \in Entries(v, u) => j \in Nat /\ j >= 1 /\ j + 1 \in Entries(w, u) /\ v[j] = w[j + 1]
  BY <1>1 DEF Entries
<1>3. \A j : j \in Entries(w, u) => j \in Nat /\ j >= 1 /\ (j = 1 \/ j - 1 \in Entries(v, u))
  BY <1>1 DEF Entries
<1>4. 1 \in Entries(w, u) => t[u] = w[1].doc
  BY <1>1 DEF Entries
<1>5. 1 \notin Entries(w, u) => t[u] = s[u]
  BY <1>1 DEF Entries
<1>6. (\A j \in Entries(v, u) : j >= i) <=> (\A j \in Entries(w, u) : j >= i + 1 \/ j = 1)
  <2>1. ASSUME \A j \in Entries(v, u) : j >= i, NEW j \in Entries(w, u) PROVE j >= i + 1 \/ j = 1
    BY <1>3, <2>1
  <2>2. ASSUME \A j \in Entries(w, u) : j >= i + 1 \/ j = 1, NEW j \in Entries(v, u) PROVE j >= i
    BY <1>2, <2>2
  <2> QED BY <2>1, <2>2
<1>7. ASSUME Has(v, t, u, i, d) PROVE Has(w, s, u, i + 1, d)
  <2>1. CASE (\A j \in Entries(v, u) : j >= i) /\ d = t[u]
    <3>1. CASE 1 \in Entries(w, u)
      <4>1. 1 < i + 1 /\ d = w[1].doc
        BY <2>1, <3>1, <1>4
      <4>2. \A k \in Entries(w, u) : k < i + 1 => k <= 1
        BY <1>6, <1>3, <2>1
      <4> QED BY <3>1, <4>1, <4>2 DEF Has
    <3>2. CASE 1 \notin Entries(w, u)
      BY <1>5, <1>6, <2>1, <3>2 DEF Has
    <3> QED BY <3>1, <3>2
  <2>2. ASSUME NEW j \in Entries(v, u), j < i, \A k \in Entries(v, u) : k < i => k <= j, d = v[j].doc
        PROVE  Has(w, s, u, i + 1, d)
    <3>1. j + 1 \in Entries(w, u) /\ j + 1 < i + 1 /\ d = w[j + 1].doc
      BY <1>2, <2>2
    <3>2. ASSUME NEW k \in Entries(w, u), k < i + 1 PROVE k <= j + 1
      <4>1. k \in Nat /\ j \in Nat /\ (k = 1 \/ k - 1 \in Entries(v, u))
        BY <1>2, <1>3, <2>2, <3>2
      <4>2. k - 1 \in Entries(v, u) => k - 1 <= j
        BY <2>2, <3>2, <4>1
      <4> QED BY <4>1, <4>2
    <3> QED BY <3>1, <3>2 DEF Has
  <2> QED BY <1>7, <2>1, <2>2 DEF Has
<1>8. ASSUME Has(w, s, u, i + 1, d) PROVE Has(v, t, u, i, d)
  <2>1. CASE (\A j \in Entries(w, u) : j >= i + 1) /\ d = s[u]
    <3>1. 1 \notin Entries(w, u)
      BY <2>1
    <3> QED BY <1>5, <1>6, <2>1, <3>1 DEF Has
  <2>2. ASSUME NEW j \in Entries(w, u), j < i + 1, \A k \in Entries(w, u) : k < i + 1 => k <= j, d = w[j].doc
        PROVE  Has(v, t, u, i, d)
    <3>1. CASE j = 1
      <4>1. \A k \in Entries(w, u) : k >= i + 1 \/ k = 1
        BY <1>3, <2>2, <3>1
      <4> QED BY <1>4, <1>6, <2>2, <3>1, <4>1 DEF Has
    <3>2. CASE j # 1
      <4>1. j - 1 \in Entries(v, u) /\ j - 1 < i
        BY <1>3, <2>2, <3>2
      <4>2. d = v[j - 1].doc
        BY <1>2, <1>3, <2>2, <4>1
      <4>3. ASSUME NEW k \in Entries(v, u), k < i PROVE k <= j - 1
        <5>1. k \in Nat /\ k + 1 \in Entries(w, u) /\ k + 1 < i + 1 /\ j \in Nat
          BY <1>2, <1>3, <4>3
        <5>2. k + 1 <= j
          BY <2>2, <5>1
        <5> QED BY <5>1, <5>2
      <4> QED BY <4>1, <4>2, <4>3 DEF Has
    <3> QED BY <3>1, <3>2
  <2> QED BY <1>8, <2>1, <2>2 DEF Has
<1> QED BY <1>7, <1>8 DEF v

\* Who waits for an answer makes no difference to it.
LEMMA HasSame ==
  ASSUME NEW w, NEW v, NEW s, NEW u, NEW i, NEW d, DOMAIN v = DOMAIN w,
         \A j \in DOMAIN w : v[j].uri = w[j].uri /\ v[j].kind = w[j].kind /\ v[j].doc = w[j].doc
  PROVE  Has(v, s, u, i, d) <=> Has(w, s, u, i, d)
<1>1. Entries(v, u) = Entries(w, u)
  BY DEF Entries
<1>2. \A j \in Entries(w, u) : v[j].doc = w[j].doc
  BY DEF Entries
<1> QED BY <1>1, <1>2 DEF Has

-----------------------------------------------------------------------------
(* Types                                                                   *)

LEMMA NotifyType ==
  ASSUME NEW u \in Uris, NEW d \in Docs, NEW k \in Syncs, NEW l \in BOOLEAN
  PROVE  Notify(k, u, d, l) \in Messages
  BY DEF Notify, Messages

LEMMA StopType == ASSUME NEW k \in Stops PROVE Stop(k) \in Messages
  BY DEF Stop, Notify, Messages

LEMMA RequestType ==
  ASSUME NEW u \in Uris, NEW c \in Callers, NEW needs \in SUBSET Capabilities
  PROVE  Request(u, c, needs) \in Messages
<1>1. Absent \in Docs
  BY DEF Docs
<1>2. Late \in BOOLEAN
  BY DEF Late
<1> QED BY <1>1, <1>2 DEF Request, Messages

LEMMA NeedsType ==
  ASSUME NEW t \in Tools \cup {"none"}
  PROVE  /\ Takes(t) \in SUBSET Capabilities
         /\ Resolves(t) \in SUBSET Capabilities
  BY DEF Takes, Gate, Resolves, Capabilities, Gated

LEMMA DocType ==
  ASSUME NEW v \in 1..MaxVersion, NEW t \in 0..MaxEdits
  PROVE  Doc(v, t) \in Docs
  BY DEF Doc, Docs

LEMMA DocFields ==
  ASSUME NEW d \in Docs
  PROVE  d.version \in 0..MaxVersion /\ d.text \in 0..MaxEdits
  BY BoundsAssumption DEF Docs, Absent

LEMMA WireType ==
  ASSUME SyncTypeOK
  PROVE  /\ Len(wire) \in Nat
         /\ DOMAIN wire = 1..Len(wire)
         /\ \A i \in DOMAIN wire :
              /\ wire[i] \in Messages
              /\ wire[i].kind \in Syncs \cup Stops \cup {"request"}
              /\ wire[i].kind \notin Stops => wire[i].uri \in Uris
              /\ wire[i].doc \in Docs /\ wire[i].waits \in SUBSET Callers
              /\ wire[i].needs \in SUBSET Capabilities /\ wire[i].late \in BOOLEAN
<1>1. wire \in Seq(Messages)
  BY DEF SyncTypeOK
<1>2. \A i \in DOMAIN wire : wire[i] \in Messages
  BY <1>1
<1>3. ASSUME NEW m \in Messages
      PROVE  /\ m.kind \in Syncs \cup Stops \cup {"request"}
             /\ m.kind \notin Stops => m.uri \in Uris
             /\ m.doc \in Docs /\ m.waits \in SUBSET Callers
             /\ m.needs \in SUBSET Capabilities /\ m.late \in BOOLEAN
  BY DEF Messages, Docs, Syncs, Stops
<1> QED BY <1>1, <1>2, <1>3

\* A call that fails is waited for no more; the messages stay otherwise as they are.
LEMMA DropWait ==
  ASSUME SyncTypeOK, NEW c \in Callers, AskFails(c)
  PROVE  /\ DOMAIN wire' = DOMAIN wire /\ Len(wire') = Len(wire)
         /\ \A j \in DOMAIN wire :
              /\ wire'[j].uri = wire[j].uri /\ wire'[j].kind = wire[j].kind /\ wire'[j].doc = wire[j].doc
              /\ wire'[j].needs = wire[j].needs /\ wire'[j].late = wire[j].late
              /\ wire'[j].waits = wire[j].waits \ {c}
<1>1. /\ DOMAIN wire = 1..Len(wire) /\ Len(wire) \in Nat
      /\ wire' = [i \in DOMAIN wire |-> [wire[i] EXCEPT !.waits = @ \ {c}]]
  BY WireType DEF AskFails
<1>2. DOMAIN wire' = DOMAIN wire /\ Len(wire') = Len(wire)
  BY <1>1
<1>3. ASSUME NEW m \in Messages
      PROVE  LET n == [m EXCEPT !.waits = @ \ {c}]
             IN  /\ n.uri = m.uri /\ n.kind = m.kind /\ n.doc = m.doc /\ n.needs = m.needs /\ n.late = m.late
                 /\ n.waits = m.waits \ {c}
  BY DEF Messages
<1>4. \A j \in DOMAIN wire : wire[j] \in Messages /\ wire'[j] = [wire[j] EXCEPT !.waits = @ \ {c}]
  BY <1>1, WireType
<1> QED BY <1>2, <1>3, <1>4

LEMMA SyncTypeInit == SyncInit => SyncTypeOK
<1> SUFFICES ASSUME SyncInit PROVE SyncTypeOK
  OBVIOUS
<1>1. 0 \in 0..MaxEdits /\ 0 \in 0..MaxVersion /\ 0 \in 0..MaxLosses /\ Absent \in Docs
  BY BoundsAssumption DEF Docs
<1>2. caps \in SUBSET Capabilities
  BY BoundsAssumption DEF SyncInit
<1>3. wire \in Seq(Messages)
  BY DEF SyncInit
<1> QED BY <1>1, <1>2, <1>3 DEF SyncInit, SyncTypeOK

LEMMA SyncTypeNext == SyncTypeOK /\ [SyncNext]_syncVars => SyncTypeOK'
<1> SUFFICES ASSUME SyncTypeOK, [SyncNext]_syncVars PROVE SyncTypeOK'
  OBVIOUS
<1> USE DEF SyncTypeOK, callVars, shutVars
<1>b. /\ 0 \in 0..MaxEdits /\ 0 \in 0..MaxVersion /\ 1 \in 1..MaxVersion /\ MaxLosses \in Nat
      /\ MaxEdits \in Nat /\ MaxVersion \in Nat /\ Absent \in Docs
  BY BoundsAssumption DEF Docs
<1>w. ASSUME NEW m \in Messages PROVE Append(wire, m) \in Seq(Messages)
  OBVIOUS
<1>d. ASSUME NEW u \in Uris PROVE openDocs[u].version \in 0..MaxVersion /\ openDocs[u].text \in 0..MaxEdits
  <2>1. openDocs[u] \in Docs
    OBVIOUS
  <2> QED BY <2>1, DocFields
<1>1. ASSUME NEW u \in Uris, Save(u) PROVE SyncTypeOK'
  BY <1>1, <1>b DEF Save
<1>2. ASSUME NEW c \in Callers, NEW u \in Uris, NEW t \in Tools, Read(c, u, t) PROVE SyncTypeOK'
  BY <1>2 DEF Read
<1>3. ASSUME NEW c \in Callers, Bind(c) PROVE SyncTypeOK'
  BY <1>3 DEF Bind
<1>4. ASSUME NEW c \in Callers, Refused(c) PROVE SyncTypeOK'
  BY <1>4, <1>b DEF Refused, End
<1>5. ASSUME NEW c \in Callers, SyncOpen(c) PROVE SyncTypeOK'
  <2>1. Doc(1, ctext[c]) \in Docs
    BY <1>b, DocType
  <2>2. DidOpen(curi[c], ctext[c]) \in Messages
    BY <2>1, NotifyType DEF DidOpen, Syncs, Late
  <2> QED BY <1>5, <1>b, <1>w, <2>1, <2>2 DEF SyncOpen, Synced, Write
<1>6. ASSUME NEW c \in Callers, SyncUnchanged(c) PROVE SyncTypeOK'
  BY <1>6, <1>d DEF SyncUnchanged, Synced
<1>7. ASSUME NEW c \in Callers, SyncChange(c) PROVE SyncTypeOK'
  <2>0. NextVersion(c) \in 1..MaxVersion
    BY <1>7, <1>b, <1>d DEF SyncChange, NextVersion
  <2>1. Doc(NextVersion(c), ctext[c]) \in Docs
    BY <2>0, DocType
  <2>2. DidChange(curi[c], NextVersion(c), ctext[c]) \in Messages
    BY <2>1, NotifyType DEF DidChange, Syncs, Late
  <2>3. NextVersion(c) \in 0..MaxVersion
    BY <2>0
  <2> HIDE DEF NextVersion
  <2> QED BY <1>7, <1>w, <2>1, <2>2, <2>3 DEF SyncChange, Synced, Write
<1>8. ASSUME NEW c \in Callers, SyncFails(c) PROVE SyncTypeOK'
  BY <1>8, <1>b DEF SyncFails, End
<1>9. ASSUME NEW c \in Callers, NEW needs \in SUBSET Capabilities, Send(c, needs) PROVE SyncTypeOK'
  <2>1. Request(curi[c], c, needs) \in Messages
    BY RequestType
  <2> QED BY <1>9, <1>w, <2>1 DEF Send, Write
<1>10. ASSUME NEW c \in Callers, Ask(c) PROVE SyncTypeOK'
  BY <1>9, <1>10, NeedsType DEF Ask
<1>11. ASSUME NEW c \in Callers, Resolve(c) PROVE SyncTypeOK'
  BY <1>9, <1>11, NeedsType DEF Resolve
<1>12. ASSUME NEW c \in Callers, Return(c) PROVE SyncTypeOK'
  BY <1>12, <1>b DEF Return, End
<1>13. ASSUME NEW c \in Callers, AskFails(c) PROVE SyncTypeOK'
  <2>a. ASSUME NEW m \in Messages PROVE [m EXCEPT !.waits = @ \ {c}] \in Messages
    <3>1. CASE m.kind \in Stops
      <4>1. m.waits = {}
        BY <3>1 DEF Messages, Stops, Syncs
      <4> QED BY <3>1, <4>1 DEF Messages
    <3>2. CASE m.kind \notin Stops
      BY <3>2 DEF Messages
    <3> QED BY <3>1, <3>2
  <2>1. \A i \in DOMAIN wire : [wire[i] EXCEPT !.waits = @ \ {c}] \in Messages
    BY <2>a, WireType
  <2>2. wire' \in [1..Len(wire) -> Messages] /\ Len(wire) \in Nat
    BY <1>13, <2>1, WireType DEF AskFails
  <2>3. wire' \in Seq(Messages)
    <3>1. \E n \in Nat : wire' \in [1..n -> Messages]
      BY <2>2
    <3>2. wire' \in UNION {[1..n -> Messages] : n \in Nat}
      BY <3>1
    <3> QED BY <3>2, SeqDef, Zenon
  <2> QED BY <1>13, <1>b, <2>3 DEF AskFails, End
<1>14. CASE ServerSyncs
  <2>1. Tail(wire) \in Seq(Messages) /\ Head(wire) \in Messages
    BY <1>14 DEF ServerSyncs
  <2>2. Head(wire).doc \in Docs
    BY <2>1 DEF Messages, Docs
  <2> QED BY <1>14, <2>1, <2>2 DEF ServerSyncs
<1>15. CASE ServerAnswers
  <2>1. Tail(wire) \in Seq(Messages) /\ Head(wire) \in Messages /\ Head(wire).kind = "request"
    BY <1>15 DEF ServerAnswers
  <2>2. Head(wire).uri \in Uris
    BY <2>1 DEF Messages, Stops
  <2>3. srv[Head(wire).uri] \in Docs
    BY <2>2
  <2> QED BY <1>15, <2>1, <2>3 DEF ServerAnswers
<1>16. CASE Lose
  <2>1. caps' \in SUBSET Capabilities
    BY <1>16, BoundsAssumption DEF Lose
  <2>2. losses' \in 0..MaxLosses
    BY <1>16, <1>b DEF Lose
  <2> QED BY <1>16, <1>b, <2>1, <2>2 DEF Lose
<1>17. CASE TakeDocs
  BY <1>17, <1>b DEF TakeDocs
<1>18. ASSUME NEW u \in Uris, CloseOne(u) PROVE SyncTypeOK'
  <2>1. DidClose(u) \in Messages
    BY <1>b, NotifyType DEF DidClose, Syncs
  <2>2. wire' \in Seq(Messages)
    BY <1>18, <1>w, <2>1 DEF CloseOne, Write
  <2> QED BY <1>18, <2>2 DEF CloseOne
<1>19. CASE ShutdownCall \/ ExitCall
  <2>1. Stop("shutdown") \in Messages /\ Stop("exit") \in Messages
    BY StopType DEF Stops
  <2>2. wire' \in Seq(Messages)
    BY <1>19, <1>w, <2>1 DEF ShutdownCall, ExitCall, Write
  <2> QED BY <1>19, <2>2 DEF ShutdownCall, ExitCall
<1>20. CASE CloseConn
  BY <1>20 DEF CloseConn
<1>21. CASE ServerStops \/ ServerRefuses
  <2>1. Tail(wire) \in Seq(Messages)
    BY <1>21 DEF ServerStops, ServerRefuses
  <2> QED BY <1>21, <2>1 DEF ServerStops, ServerRefuses
<1>22. CASE UNCHANGED syncVars
  BY <1>22 DEF syncVars
<1> QED
  BY <1>1, <1>2, <1>3, <1>4, <1>5, <1>6, <1>7, <1>8, <1>10, <1>11, <1>12, <1>13, <1>14, <1>15, <1>16, <1>17, <1>18,
     <1>19, <1>20, <1>21, <1>22
  DEF SyncNext, Call, Sync, Server, Shutdown

\* Every variable has its type, in every behaviour: versions and texts of open
\* documents are recorded together or not at all (sync.go:48-66).
THEOREM SyncTypeOKHolds == SyncSpec => []SyncTypeOK
  BY SyncTypeInit, SyncTypeNext, PTL DEF SyncSpec

\* Shutdown is not taken back.
LEMMA StaysClosed == ASSUME [SyncNext]_syncVars, closing' = "no" PROVE closing = "no"
<1> USE DEF callVars, shutVars
<1>1. ASSUME NEW c \in Callers, Call(c) PROVE closing' = closing
  BY <1>1 DEF Call, Read, Bind, Refused, Sync, SyncOpen, SyncUnchanged, SyncChange, SyncFails, Synced, Ask, Resolve,
              Send, Return, AskFails, End
<1>2. CASE (\E u \in Uris : Save(u)) \/ Server \/ Lose \/ UNCHANGED syncVars
  BY <1>2 DEF Save, Server, ServerSyncs, ServerAnswers, ServerStops, ServerRefuses, Lose, syncVars
<1>3. CASE Shutdown
  BY <1>3 DEF Shutdown, TakeDocs, CloseOne, ShutdownCall, ExitCall, CloseConn
<1> QED BY <1>1, <1>2, <1>3 DEF SyncNext

-----------------------------------------------------------------------------
(* shutdown and exit                                                       *)

\* InOrder, of a wire w and what the server has heard.
HasHeard(w, h, i, k) == k \in h \/ \E j \in DOMAIN w : j < i /\ w[j].kind = k
Ordered(w, h, i) == ~HasHeard(w, h, i, "exit") /\ (w[i].kind # "exit" => ~HasHeard(w, h, i, "shutdown"))

\* Before it is through with the documents, shutdown has written neither, and before
\* it has called Exit no exit.
StopFor(w, h, cl) ==
  /\ cl = "no" => \A i \in DOMAIN w : ~w[i].late
  /\ cl \in {"no", "sending"} => h = {} /\ \A i \in DOMAIN w : w[i].kind \notin Stops
  /\ cl = "shut" => "exit" \notin h /\ \A i \in DOMAIN w : w[i].kind # "exit"
  /\ \A i \in DOMAIN w : ~w[i].late => Ordered(w, h, i)
StopInv == StopFor(wire, heard, closing)

LEMMA StopInit == SyncInit => StopInv
  BY DEF SyncInit, StopInv, StopFor

\* Stages of shutdown follow one another.
Later(cl, cm) ==
  \/ cm = cl
  \/ cl = "no" /\ cm = "sending"
  \/ cl = "shut" /\ cm = "sent"
  \/ cl = "sent" /\ cm = "closed"
  \/ cl = "sending" /\ cm = "shut"

LEMMA StopLater ==
  ASSUME NEW w, NEW h, NEW cl, NEW cm, StopFor(w, h, cl), Later(cl, cm)
  PROVE  StopFor(w, h, cm)
  BY DEF StopFor, Later, Stops

\* A message may be written at its time.
LEMMA StopWrite ==
  ASSUME NEW w \in Seq(Messages), NEW h, NEW cl, NEW m \in Messages, NEW cm, StopFor(w, h, cl), Later(cl, cm),
         cl = "no" => ~m.late,
         m.kind \notin Stops => m.late \/ cl \in {"no", "sending"},
         m.kind = "shutdown" => cl = "sending" /\ cm = "shut",
         m.kind = "exit" => cl = "shut" /\ cm = "sent"
  PROVE  StopFor(Append(w, m), h, cm)
<1> DEFINE v == Append(w, m)
           n == Len(w) + 1
<1>1. /\ DOMAIN v = DOMAIN w \cup {n} /\ v[n] = m /\ DOMAIN w = 1..Len(w) /\ Len(w) \in Nat
      /\ \A i \in DOMAIN w : v[i] = w[i]
  BY AppendFacts
<1>n. \A i \in DOMAIN w : i < n /\ ~(n < i) /\ ~(n < n)
  BY <1>1
<1> HIDE DEF v, n
<1>2. ASSUME NEW i \in DOMAIN w \cup {n}, NEW k PROVE HasHeard(v, h, i, k) <=> HasHeard(w, h, i, k)
  BY <1>1, <1>n DEF HasHeard
<1>3. \A i \in DOMAIN w : Ordered(w, h, i) <=> Ordered(v, h, i)
  BY <1>1, <1>2 DEF Ordered
<1>4. ~m.late => Ordered(v, h, n)
  BY <1>1, <1>2 DEF Ordered, HasHeard, StopFor, Stops
<1>5. \A i \in DOMAIN v : ~v[i].late => Ordered(v, h, i)
  BY <1>1, <1>3, <1>4 DEF StopFor
<1>6. StopFor(v, h, cm)
  BY <1>1, <1>5 DEF StopFor, Later, Stops
<1> QED BY <1>6 DEF v

\* What the server reads it has heard.
LEMMA StopRead ==
  ASSUME NEW w \in Seq(Messages), w # <<>>, NEW h, NEW cl, NEW g, StopFor(w, h, cl),
         g = h \/ (g = h \cup {Head(w).kind} /\ Head(w).kind \in Stops)
  PROVE  StopFor(Tail(w), g, cl)
<1> DEFINE v == Tail(w)
<1>1. /\ 1 \in DOMAIN w /\ Head(w) = w[1]
      /\ \A i \in DOMAIN v : i \in Nat /\ i + 1 \in DOMAIN w /\ v[i] = w[i + 1] /\ 1 < i + 1
  BY TailFacts
<1> HIDE DEF v
<1>2. ASSUME NEW i \in DOMAIN v, NEW k, HasHeard(v, g, i, k) PROVE HasHeard(w, h, i + 1, k)
  <2>1. CASE k \in g
    BY <1>1, <2>1 DEF HasHeard
  <2>2. ASSUME NEW j \in DOMAIN v, j < i, v[j].kind = k PROVE HasHeard(w, h, i + 1, k)
    <3>1. j + 1 \in DOMAIN w /\ j + 1 < i + 1 /\ w[j + 1].kind = k
      BY <1>1, <2>2
    <3> QED BY <3>1 DEF HasHeard
  <2> QED BY <1>2, <2>1, <2>2 DEF HasHeard
<1>3. \A i \in DOMAIN v : ~v[i].late => Ordered(v, g, i)
  BY <1>1, <1>2 DEF Ordered, StopFor
<1>4. StopFor(v, g, cl)
  BY <1>1, <1>3 DEF StopFor, Stops
<1> QED BY <1>4 DEF v

LEMMA StopNext == SyncTypeOK /\ StopInv /\ [SyncNext]_syncVars => StopInv'
<1> SUFFICES ASSUME SyncTypeOK, StopInv, [SyncNext]_syncVars PROVE StopFor(wire', heard', closing')
  BY DEF StopInv
<1> DEFINE Goal == StopFor(wire', heard', closing')
<1>t. /\ wire \in Seq(Messages) /\ Len(wire) \in Nat /\ DOMAIN wire = 1..Len(wire)
      /\ curi \in [Callers -> Uris] /\ openDocs \in [Uris -> Docs] /\ ctext \in [Callers -> 0..MaxEdits]
  BY WireType DEF SyncTypeOK
<1>0. StopFor(wire, heard, closing)
  BY DEF StopInv
<1> USE DEF callVars, shutVars
<1>k. ASSUME wire' = wire, heard' = heard, Later(closing, closing') PROVE Goal
  BY <1>0, <1>k, StopLater
<1>s. \A cl : Later(cl, cl)
  BY DEF Later
\* A call writes a notification or a request.
<1>n. ASSUME NEW m \in Messages, m.kind \notin Stops, m.late = Late, wire' = Append(wire, m),
             UNCHANGED <<heard, closing>>
      PROVE  Goal
  <2>1. m.kind # "shutdown" /\ m.kind # "exit"
    BY <1>n DEF Stops
  <2> QED BY <1>0, <1>n, <1>s, <1>t, <2>1, StopWrite DEF Late
<1>1. ASSUME NEW v \in Uris, Save(v) PROVE Goal
  BY <1>1, <1>k, <1>s DEF Save
<1>2. ASSUME NEW c \in Callers, NEW v \in Uris, NEW t \in Tools, Read(c, v, t) PROVE Goal
  BY <1>2, <1>k, <1>s DEF Read
<1>3. ASSUME NEW c \in Callers, Bind(c) \/ Refused(c) \/ SyncFails(c) \/ Return(c) PROVE Goal
  BY <1>3, <1>k, <1>s DEF Bind, Refused, SyncFails, Return, End
<1>5. ASSUME NEW c \in Callers, SyncOpen(c) PROVE Goal
  <2>1. Doc(1, ctext[c]) \in Docs
    BY <1>t, BoundsAssumption, DocType
  <2>2. DidOpen(curi[c], ctext[c]) \in Messages
    BY <1>t, <2>1, NotifyType DEF DidOpen, Syncs, Late
  <2>3. DidOpen(curi[c], ctext[c]).kind \notin Stops /\ DidOpen(curi[c], ctext[c]).late = Late
    BY DEF DidOpen, Notify, Stops
  <2> QED BY <1>5, <1>n, <2>2, <2>3 DEF SyncOpen, Synced, Write
<1>6. ASSUME NEW c \in Callers, SyncUnchanged(c) PROVE Goal
  BY <1>6, <1>k, <1>s DEF SyncUnchanged, Synced
<1>7. ASSUME NEW c \in Callers, SyncChange(c) PROVE Goal
  <2> DEFINE m == DidChange(curi[c], NextVersion(c), ctext[c])
  <2>0. openDocs[curi[c]].version \in Nat
    BY <1>t, DocFields, BoundsAssumption
  <2>1. NextVersion(c) \in 1..MaxVersion
    BY <1>7, <2>0, BoundsAssumption DEF SyncChange, NextVersion
  <2>2. m \in Messages
    BY <1>t, <2>1, DocType, NotifyType DEF DidChange, Syncs, Late
  <2>3. m.kind \notin Stops /\ m.late = Late
    BY DEF DidChange, Notify, Stops
  <2>4. wire' = Append(wire, m) /\ UNCHANGED <<heard, closing>>
    BY <1>7 DEF SyncChange, Synced, Write
  <2> QED BY <1>n, <2>2, <2>3, <2>4
<1>9. ASSUME NEW c \in Callers, NEW needs \in SUBSET Capabilities, Send(c, needs) PROVE Goal
  <2>1. Request(curi[c], c, needs) \in Messages
    BY <1>t, RequestType
  <2>2. Request(curi[c], c, needs).kind \notin Stops /\ Request(curi[c], c, needs).late = Late
    BY DEF Request, Stops
  <2> QED BY <1>9, <1>n, <2>1, <2>2 DEF Send, Write
<1>10. ASSUME NEW c \in Callers, Ask(c) \/ Resolve(c) PROVE Goal
  <2>1. Takes(tool[c]) \in SUBSET Capabilities /\ Resolves(tool[c]) \in SUBSET Capabilities
    BY NeedsType DEF SyncTypeOK
  <2> QED BY <1>9, <1>10, <2>1 DEF Ask, Resolve
<1>13. ASSUME NEW c \in Callers, AskFails(c) PROVE Goal
  <2>1. /\ DOMAIN wire' = DOMAIN wire /\ heard' = heard /\ closing' = closing
        /\ \A j \in DOMAIN wire : wire'[j].kind = wire[j].kind /\ wire'[j].late = wire[j].late
    BY <1>13, DropWait DEF AskFails, End
  <2>2. \A i, k : HasHeard(wire', heard', i, k) <=> HasHeard(wire, heard, i, k)
    BY <2>1 DEF HasHeard
  <2>3. \A i \in DOMAIN wire : Ordered(wire', heard', i) <=> Ordered(wire, heard, i)
    BY <2>1, <2>2 DEF Ordered
  <2> QED BY <1>0, <2>1, <2>3 DEF StopFor
<1>14. CASE Server
  <2>1. /\ wire # <<>> /\ wire' = Tail(wire) /\ closing' = closing
        /\ heard' = heard \/ (heard' = heard \cup {Head(wire).kind} /\ Head(wire).kind \in Stops)
    BY <1>14 DEF Server, ServerSyncs, ServerAnswers, ServerStops, ServerRefuses
  <2> QED BY <1>0, <1>t, <2>1, StopRead
<1>16. CASE Lose
  <2>1. DOMAIN wire' = {} /\ closing' = "no" /\ closing = "no" /\ heard' = heard
    BY <1>16 DEF Lose
  <2> QED BY <1>0, <2>1 DEF StopFor
<1>17. CASE TakeDocs
  BY <1>17, <1>k DEF TakeDocs, Later
<1>18. ASSUME NEW v \in Uris, CloseOne(v) PROVE Goal
  <2>1. DidClose(v) \in Messages
    BY NotifyType DEF DidClose, Syncs, Docs
  <2>2. DidClose(v).kind = "didClose" /\ DidClose(v).late = FALSE
    BY DEF DidClose, Notify
  <2>3. closing = "sending" /\ UNCHANGED <<heard, closing>> /\ (wire' = Append(wire, DidClose(v)) \/ wire' = wire)
    BY <1>18 DEF CloseOne, Write
  <2>4. CASE wire' = wire
    BY <1>k, <1>s, <2>3, <2>4
  <2>5. CASE wire' = Append(wire, DidClose(v))
    <3>1. DidClose(v).kind \notin Stops /\ DidClose(v).kind # "shutdown" /\ DidClose(v).kind # "exit"
      BY <2>2 DEF Stops
    <3> QED BY <1>0, <1>s, <1>t, <2>1, <2>2, <2>3, <2>5, <3>1, StopWrite
  <2> QED BY <2>3, <2>4, <2>5
<1>19. ASSUME ShutdownCall \/ ExitCall PROVE Goal
  <2>1. PICK k \in Stops : /\ wire' = Append(wire, Stop(k)) \/ wire' = wire
                           /\ k = "shutdown" => closing = "sending" /\ closing' = "shut"
                           /\ k = "exit" => closing = "shut" /\ closing' = "sent"
                           /\ heard' = heard
    BY <1>19 DEF ShutdownCall, ExitCall, Write, Stops
  <2>2. Stop(k) \in Messages /\ Stop(k).kind = k /\ Stop(k).late = FALSE
    BY StopType DEF Stop, Notify
  <2>3. Later(closing, closing') /\ closing # "no"
    BY <2>1 DEF Stops, Later
  <2>4. CASE wire' = wire
    BY <1>k, <2>1, <2>3, <2>4
  <2>5. CASE wire' = Append(wire, Stop(k))
    BY <1>0, <1>t, <2>1, <2>2, <2>3, <2>5, StopWrite
  <2> QED BY <2>1, <2>4, <2>5
<1>20. CASE CloseConn
  BY <1>20, <1>k DEF CloseConn, Later
<1>21. CASE UNCHANGED syncVars
  BY <1>21, <1>k, <1>s DEF syncVars
<1> QED
  BY <1>1, <1>2, <1>3, <1>5, <1>6, <1>7, <1>10, <1>13, <1>14, <1>16, <1>17, <1>18, <1>19, <1>20, <1>21
  DEF SyncNext, Call, Sync, Shutdown

\* Until Shutdown is called the server reads and answers everything.
LEMMA ServerOpen ==
  ASSUME SyncTypeOK, StopInv, Server, closing \in {"no", "sending"}
  PROVE  ServerSyncs \/ ServerAnswers
<1>1. wire \in Seq(Messages) /\ heard = {} /\ \A i \in DOMAIN wire : wire[i].kind \notin Stops
  BY DEF StopInv, StopFor, SyncTypeOK
<1>2. wire # <<>> => Head(wire).kind \notin Stops
  BY <1>1, TailFacts
<1> QED BY <1>1, <1>2 DEF Server, ServerStops, ServerRefuses

-----------------------------------------------------------------------------
(* What the session remembers is what the server will have                 *)

LEMMA FollowsInit == SyncInit => ServerFollows
<1> SUFFICES ASSUME SyncInit, NEW u \in Uris PROVE WillHave(u, Len(wire) + 1, openDocs[u])
  BY DEF ServerFollows
<1>1. About(u) = {} /\ openDocs[u] = srv[u]
  BY DEF SyncInit, About
<1> QED BY <1>1 DEF WillHave

LEMMA FollowsNext == SyncTypeOK /\ StopInv /\ ServerFollows /\ [SyncNext]_syncVars => ServerFollows'
<1> SUFFICES ASSUME SyncTypeOK, StopInv, ServerFollows, [SyncNext]_syncVars, closing' = "no", NEW u \in Uris
             PROVE  Has(wire', srv', u, Len(wire') + 1, openDocs'[u])
  BY DEF ServerFollows, WillHave, Has, About, Entries
<1> DEFINE Goal == Has(wire', srv', u, Len(wire') + 1, openDocs'[u])
<1>0. closing = "no" /\ Has(wire, srv, u, Len(wire) + 1, openDocs[u])
  BY StaysClosed, HasNow DEF ServerFollows
<1>t. /\ wire \in Seq(Messages) /\ Len(wire) \in Nat /\ openDocs \in [Uris -> Docs] /\ srv \in [Uris -> Docs]
      /\ curi \in [Callers -> Uris] /\ ctext \in [Callers -> 0..MaxEdits]
      /\ \A v \in Uris : openDocs[v] \in Docs
  BY WireType DEF SyncTypeOK
<1> USE DEF callVars, shutVars
<1>k. ASSUME UNCHANGED <<wire, srv, openDocs>> PROVE Goal
  BY <1>0, <1>k
\* A document is written and recorded.
<1>d. ASSUME NEW c \in Callers, NEW k \in Syncs, NEW d \in Docs, NEW l \in BOOLEAN,
             wire' = Append(wire, Notify(k, curi[c], d, l)), srv' = srv, openDocs' = [openDocs EXCEPT ![curi[c]] = d]
      PROVE  Goal
  <2> DEFINE m == Notify(k, curi[c], d, l)
  <2>1. m \in Messages /\ m.kind \in Syncs /\ m.uri = curi[c] /\ m.doc = d
    BY <1>t, NotifyType DEF Notify
  <2> HIDE DEF m
  <2>2. wire' = Append(wire, m) /\ Len(wire') + 1 = Len(wire) + 2
    BY <1>d, <1>t, <2>1, AppendFacts DEF m
  <2>3. CASE u = curi[c]
    BY <1>d, <1>t, <2>1, <2>2, <2>3, HasAfter
  <2>4. CASE u # curi[c]
    BY <1>0, <1>d, <1>t, <2>1, <2>2, <2>4, HasAfter
  <2> QED BY <2>3, <2>4
<1>1. ASSUME NEW v \in Uris, Save(v) PROVE Goal
  BY <1>1, <1>k DEF Save
<1>2. ASSUME NEW c \in Callers, NEW v \in Uris, NEW t \in Tools, Read(c, v, t) PROVE Goal
  BY <1>2, <1>k DEF Read
<1>3. ASSUME NEW c \in Callers, Bind(c) \/ Refused(c) PROVE Goal
  BY <1>3, <1>k DEF Bind, Refused, End
<1>5. ASSUME NEW c \in Callers, SyncOpen(c) PROVE Goal
  <2>1. Doc(1, ctext[c]) \in Docs
    BY <1>t, BoundsAssumption, DocType
  <2> QED BY <1>5, <1>d, <2>1 DEF SyncOpen, Synced, Write, DidOpen, Syncs, Late
<1>6. ASSUME NEW c \in Callers, SyncUnchanged(c) PROVE Goal
  BY <1>6, <1>k DEF SyncUnchanged, Synced
<1>7. ASSUME NEW c \in Callers, SyncChange(c) PROVE Goal
  <2>1. Doc(NextVersion(c), ctext[c]) \in Docs
    <3>1. openDocs[curi[c]].version \in Nat
      BY <1>t, DocFields, BoundsAssumption
    <3>2. NextVersion(c) \in 1..MaxVersion
      BY <1>7, <3>1, BoundsAssumption DEF SyncChange, NextVersion
    <3> QED BY <1>t, <3>2, DocType
  <2> QED BY <1>7, <1>d, <2>1 DEF SyncChange, Synced, Write, DidChange, Syncs, Late
<1>8. ASSUME NEW c \in Callers, SyncFails(c) PROVE Goal
  BY <1>8, <1>k DEF SyncFails, End
<1>9. ASSUME NEW c \in Callers, NEW needs \in SUBSET Capabilities, Send(c, needs) PROVE Goal
  <2> DEFINE m == Request(curi[c], c, needs)
  <2>1. m \in Messages /\ m.kind \notin Syncs
    BY <1>t, RequestType DEF Request, Syncs
  <2> HIDE DEF m
  <2>2. wire' = Append(wire, m) /\ srv' = srv /\ openDocs' = openDocs
    BY <1>9 DEF Send, Write, m
  <2>3. Len(wire') + 1 = Len(wire) + 2
    BY <1>t, <2>1, <2>2, AppendFacts
  <2> QED BY <1>0, <1>t, <2>1, <2>2, <2>3, HasAfter
<1>10. ASSUME NEW c \in Callers, Ask(c) \/ Resolve(c) PROVE Goal
  <2>1. Takes(tool[c]) \in SUBSET Capabilities /\ Resolves(tool[c]) \in SUBSET Capabilities
    BY NeedsType DEF SyncTypeOK
  <2> QED BY <1>9, <1>10, <2>1 DEF Ask, Resolve
<1>12. ASSUME NEW c \in Callers, Return(c) PROVE Goal
  BY <1>12, <1>k DEF Return, End
<1>13. ASSUME NEW c \in Callers, AskFails(c) PROVE Goal
  <2>1. /\ DOMAIN wire' = DOMAIN wire /\ Len(wire') = Len(wire)
        /\ \A j \in DOMAIN wire :
             wire'[j].uri = wire[j].uri /\ wire'[j].kind = wire[j].kind /\ wire'[j].doc = wire[j].doc
    BY <1>13, DropWait
  <2> QED BY <1>0, <1>13, <2>1, HasSame DEF AskFails, End
<1>14. CASE Server
  <2>0. ServerSyncs \/ ServerAnswers
    BY <1>0, <1>14, ServerOpen
  <2>1. wire # <<>> /\ wire' = Tail(wire) /\ openDocs' = openDocs
    BY <2>0 DEF ServerSyncs, ServerAnswers
  <2>a. Len(wire) \in 1..Len(wire) /\ Len(wire') + 1 = Len(wire)
    BY <1>t, <2>1, TailFacts
  <2>3. /\ Head(wire).kind \in Syncs /\ Head(wire).uri = u => srv'[u] = Head(wire).doc
        /\ Head(wire).kind \notin Syncs \/ Head(wire).uri # u => srv'[u] = srv[u]
    BY <1>t, <2>0 DEF ServerSyncs, ServerAnswers, Syncs
  <2> QED BY <1>0, <1>t, <2>1, <2>a, <2>3, HasRead
<1>16. CASE Lose
  <2>1. Entries(wire', u) = {} /\ srv'[u] = openDocs'[u]
    BY <1>16 DEF Lose, Entries
  <2> QED BY <2>1 DEF Has
<1>17. CASE Shutdown
  BY <1>0, <1>17, <1>k DEF Shutdown, TakeDocs, CloseOne, ShutdownCall, ExitCall, CloseConn
<1>18. CASE UNCHANGED syncVars
  BY <1>18, <1>k DEF syncVars
<1> QED
  BY <1>1, <1>2, <1>3, <1>5, <1>6, <1>7, <1>8, <1>10, <1>12, <1>13, <1>14, <1>16, <1>17, <1>18
  DEF SyncNext, Call, Sync

\* Until shutdown, openDocs is what the server has or will have once it has read
\* everything written (sync.go:48-66), in every behaviour.
THEOREM ServerFollowsHolds == SyncSpec => []ServerFollows
  BY SyncTypeInit, SyncTypeNext, StopInit, StopNext, FollowsInit, FollowsNext, PTL DEF SyncSpec

-----------------------------------------------------------------------------
(* Answers come from the document as it was synchronized or later          *)

\* A call waits for one request, about its document.
WaitInv ==
  \A i \in DOMAIN wire : \A c \in wire[i].waits :
    /\ wire[i].kind = "request" /\ pc[c] = "asked" /\ wire[i].uri = curi[c]
    /\ \A j \in DOMAIN wire : c \in wire[j].waits => j = i

LEMMA WaitInit == SyncInit => WaitInv
  BY DEF SyncInit, WaitInv

LEMMA WaitNext == SyncTypeOK /\ WaitInv /\ [SyncNext]_syncVars => WaitInv'
<1> SUFFICES ASSUME SyncTypeOK, WaitInv, [SyncNext]_syncVars PROVE WaitInv'
  OBVIOUS
<1>t. /\ wire \in Seq(Messages) /\ Len(wire) \in Nat /\ DOMAIN wire = 1..Len(wire)
      /\ curi \in [Callers -> Uris] /\ pc \in [Callers -> {"idle", "read", "bound", "synced", "asked", "answered", "stranded", "lost"}]
      /\ \A i \in DOMAIN wire : wire[i].waits \in SUBSET Callers
      /\ \A c \in Callers : ctext[c] \in 0..MaxEdits
  BY WireType DEF SyncTypeOK
<1> USE DEF callVars, shutVars
\* The wire stays as it is, and so do the calls that wait.
<1>k. ASSUME wire' = wire, \A c \in Callers : pc[c] = "asked" => pc'[c] = "asked" /\ curi'[c] = curi[c]
      PROVE  WaitInv'
  BY <1>k, <1>t DEF WaitInv
\* A message is written that nobody waits for.
<1>n. ASSUME NEW m \in Messages, m.waits = {}, wire' = Append(wire, m),
             \A c \in Callers : pc[c] = "asked" => pc'[c] = "asked" /\ curi'[c] = curi[c]
      PROVE  WaitInv'
  <2>1. /\ DOMAIN wire' = DOMAIN wire \cup {Len(wire) + 1}
        /\ \A i \in DOMAIN wire' : wire'[i].waits # {} => i \in DOMAIN wire /\ wire'[i] = wire[i]
    BY <1>n, <1>t, AppendFacts
  <2> QED BY <1>n, <1>t, <2>1 DEF WaitInv
<1>1. ASSUME NEW v \in Uris, Save(v) PROVE WaitInv'
  BY <1>1, <1>k DEF Save
<1>2. ASSUME NEW c \in Callers, NEW v \in Uris, NEW t \in Tools, Read(c, v, t) PROVE WaitInv'
  BY <1>2, <1>k, <1>t DEF Read
<1>3. ASSUME NEW c \in Callers, Bind(c) \/ Refused(c) PROVE WaitInv'
  BY <1>3, <1>k, <1>t DEF Bind, Refused, End
<1>5. ASSUME NEW c \in Callers, SyncOpen(c) PROVE WaitInv'
  <2>a. Doc(1, ctext[c]) \in Docs
    BY <1>t, BoundsAssumption, DocType
  <2>1. DidOpen(curi[c], ctext[c]) \in Messages /\ DidOpen(curi[c], ctext[c]).waits = {}
    BY <1>t, <2>a, NotifyType DEF DidOpen, Notify, Syncs, Late
  <2> QED BY <1>5, <1>n, <1>t, <2>1 DEF SyncOpen, Synced, Write
<1>6. ASSUME NEW c \in Callers, SyncUnchanged(c) PROVE WaitInv'
  BY <1>6, <1>k, <1>t DEF SyncUnchanged, Synced
<1>7. ASSUME NEW c \in Callers, SyncChange(c) PROVE WaitInv'
  <2>0. openDocs[curi[c]].version \in Nat
    BY <1>t, DocFields, BoundsAssumption DEF SyncTypeOK
  <2>a. NextVersion(c) \in 1..MaxVersion
    BY <1>7, <2>0, BoundsAssumption DEF SyncChange, NextVersion
  <2> HIDE DEF NextVersion
  <2>1. DidChange(curi[c], NextVersion(c), ctext[c]) \in Messages /\ DidChange(curi[c], NextVersion(c), ctext[c]).waits = {}
    BY <1>t, <2>a, DocType, NotifyType DEF DidChange, Notify, Syncs, Late
  <2> QED BY <1>7, <1>n, <1>t, <2>1 DEF SyncChange, Synced, Write
<1>8. ASSUME NEW c \in Callers, SyncFails(c) PROVE WaitInv'
  BY <1>8, <1>k, <1>t DEF SyncFails, End
<1>9. ASSUME NEW c \in Callers, NEW needs \in SUBSET Capabilities, Send(c, needs), pc[c] # "asked" PROVE WaitInv'
  <2> DEFINE m == Request(curi[c], c, needs)
  <2>1. m \in Messages /\ m.kind = "request" /\ m.uri = curi[c] /\ m.waits = {c}
    BY <1>t, RequestType DEF Request
  <2> HIDE DEF m
  <2>2. wire' = Append(wire, m) /\ pc' = [pc EXCEPT ![c] = "asked"] /\ curi' = curi
    BY <1>9 DEF Send, Write, m
  <2>3. /\ DOMAIN wire' = DOMAIN wire \cup {Len(wire) + 1} /\ wire'[Len(wire) + 1] = m
        /\ \A i \in DOMAIN wire : wire'[i] = wire[i] /\ i # Len(wire) + 1
    BY <1>t, <2>1, <2>2, AppendFacts
  <2>4. \A i \in DOMAIN wire : c \notin wire[i].waits
    BY <1>9 DEF WaitInv
  <2> QED BY <1>t, <2>1, <2>2, <2>3, <2>4 DEF WaitInv
<1>10. ASSUME NEW c \in Callers, Ask(c) \/ Resolve(c) PROVE WaitInv'
  <2>1. Takes(tool[c]) \in SUBSET Capabilities /\ Resolves(tool[c]) \in SUBSET Capabilities
    BY NeedsType DEF SyncTypeOK
  <2> QED BY <1>9, <1>10, <2>1 DEF Ask, Resolve
<1>12. ASSUME NEW c \in Callers, Return(c) PROVE WaitInv'
  BY <1>12, <1>k, <1>t DEF Return, End
<1>13. ASSUME NEW c \in Callers, AskFails(c) PROVE WaitInv'
  <2>1. /\ DOMAIN wire' = DOMAIN wire
        /\ \A j \in DOMAIN wire :
             wire'[j].uri = wire[j].uri /\ wire'[j].kind = wire[j].kind /\ wire'[j].waits = wire[j].waits \ {c}
    BY <1>13, DropWait
  <2>2. curi' = curi /\ \A b \in Callers : b # c => pc'[b] = pc[b]
    BY <1>13, <1>t DEF AskFails, End
  <2> QED BY <1>t, <2>1, <2>2 DEF WaitInv
<1>14. CASE Server
  <2>1. wire # <<>> /\ wire' = Tail(wire) /\ curi' = curi
    BY <1>14 DEF Server, ServerSyncs, ServerAnswers, ServerStops, ServerRefuses
  <2>2. /\ DOMAIN wire' = 1..(Len(wire) - 1) /\ Head(wire) = wire[1] /\ 1 \in DOMAIN wire
        /\ \A i \in 1..(Len(wire) - 1) : wire'[i] = wire[i + 1] /\ i + 1 \in DOMAIN wire /\ i + 1 # 1
    BY <1>t, <2>1, TailFacts
  <2>3. \A c \in Callers : c \notin wire[1].waits => pc'[c] = pc[c]
    BY <1>14, <2>2 DEF Server, ServerSyncs, ServerAnswers, ServerStops, ServerRefuses
  <2>4. ASSUME NEW i \in DOMAIN wire', NEW c \in wire'[i].waits
        PROVE  c \in Callers /\ c \notin wire[1].waits
    <3>1. wire'[i] = wire[i + 1] /\ i + 1 \in DOMAIN wire /\ i + 1 # 1
      BY <2>2, <2>4
    <3>2. c \in Callers
      BY <2>4, <3>1, WireType
    <3>3. c \in wire[1].waits => 1 = i + 1
      BY <2>2, <2>4, <3>1 DEF WaitInv
    <3> QED BY <3>1, <3>2, <3>3
  <2>5. ASSUME NEW i \in DOMAIN wire', NEW c \in wire'[i].waits, NEW j \in DOMAIN wire', c \in wire'[j].waits
        PROVE  j = i
    <3>1. i + 1 = j + 1
      BY <2>2, <2>5 DEF WaitInv
    <3> QED BY <2>2, <3>1
  <2> QED BY <2>1, <2>2, <2>3, <2>4, <2>5 DEF WaitInv
<1>16. CASE Lose
  BY <1>16 DEF Lose, WaitInv
<1>17. CASE Shutdown
  <2>1. ASSUME NEW u \in Uris, CloseOne(u) PROVE WaitInv'
    <3>1. DidClose(u) \in Messages /\ DidClose(u).waits = {}
      BY NotifyType DEF DidClose, Notify, Docs, Syncs
    <3> QED BY <1>k, <1>n, <2>1, <3>1 DEF CloseOne, Write
  <2>2. ASSUME ShutdownCall \/ ExitCall PROVE WaitInv'
    <3>1. PICK k \in Stops : wire' = Append(wire, Stop(k)) \/ wire' = wire
      BY <2>2 DEF ShutdownCall, ExitCall, Write, Stops
    <3>2. Stop(k) \in Messages /\ Stop(k).waits = {}
      BY StopType DEF Stop, Notify
    <3>3. pc' = pc /\ curi' = curi
      BY <2>2 DEF ShutdownCall, ExitCall
    <3> QED BY <1>k, <1>n, <3>1, <3>2, <3>3
  <2> QED BY <1>17, <1>k, <2>1, <2>2 DEF Shutdown, TakeDocs, CloseConn
<1>18. CASE UNCHANGED syncVars
  BY <1>18, <1>k DEF syncVars
<1> QED
  BY <1>1, <1>2, <1>3, <1>5, <1>6, <1>7, <1>8, <1>10, <1>12, <1>13, <1>14, <1>16, <1>17, <1>18
  DEF SyncNext, Call, Sync

\* A call that has synchronized finds its document, and its answer, as it did so or
\* later ...
DocSince(c) ==
  tool[c] # "workspaceSymbol" =>
    /\ pc[c] \in {"synced", "asked", "answered"} => SinceSync(c, openDocs[curi[c]])
    /\ pc[c] = "answered" => SinceSync(c, answer[c])
\* ... and so will the server when it reads the request.
RequestSince(c, i) ==
  tool[c] # "workspaceSymbol" => \A d \in Docs : WillHave(curi[c], i, d) => SinceSync(c, d)

SinceInv ==
  closing = "no" =>
    /\ \A c \in Callers : DocSince(c)
    /\ \A i \in DOMAIN wire : \A c \in wire[i].waits : RequestSince(c, i)

LEMMA SinceInit == SyncInit => SinceInv
  BY DEF SyncInit, SinceInv, DocSince

LEMMA SinceNext == SyncTypeOK /\ StopInv /\ ServerFollows /\ WaitInv /\ SinceInv /\ [SyncNext]_syncVars => SinceInv'
<1> SUFFICES ASSUME SyncTypeOK, StopInv, ServerFollows, WaitInv, SinceInv, [SyncNext]_syncVars, closing' = "no"
             PROVE  /\ \A c \in Callers : DocSince(c)'
                    /\ \A i \in DOMAIN wire' : \A c \in wire'[i].waits : RequestSince(c, i)'
  BY DEF SinceInv
<1> DEFINE AllDocs == \A c \in Callers : DocSince(c)'
           AllRequests == \A i \in DOMAIN wire' : \A c \in wire'[i].waits : RequestSince(c, i)'
<1>t. /\ wire \in Seq(Messages) /\ Len(wire) \in Nat /\ DOMAIN wire = 1..Len(wire)
      /\ curi \in [Callers -> Uris] /\ pc \in [Callers -> {"idle", "read", "bound", "synced", "asked", "answered", "stranded", "lost"}]
      /\ openDocs \in [Uris -> Docs] /\ tool \in [Callers -> Tools \cup {"none"}] /\ srv \in [Uris -> Docs]
      /\ ctext \in [Callers -> 0..MaxEdits] /\ cver \in [Callers -> 0..MaxVersion] /\ answer \in [Callers -> Docs]
      /\ MaxVersion \in Nat /\ MaxEdits \in Nat
      /\ \A i \in DOMAIN wire : wire[i].waits \in SUBSET Callers
  BY WireType, BoundsAssumption DEF SyncTypeOK
<1>0. /\ closing = "no"
      /\ \A c \in Callers : DocSince(c)
      /\ \A i \in DOMAIN wire : \A c \in wire[i].waits : RequestSince(c, i)
  BY StaysClosed DEF SinceInv
<1>f. \A u \in Uris : Has(wire, srv, u, Len(wire) + 1, openDocs[u])
  BY <1>0, HasNow DEF ServerFollows
<1>w. \A i \in DOMAIN wire : \A c \in wire[i].waits : pc[c] = "asked"
  BY DEF WaitInv
<1>h. ASSUME NEW i \in DOMAIN wire, NEW c \in wire[i].waits, tool[c] # "workspaceSymbol",
             NEW d \in Docs, Has(wire, srv, curi[c], i, d)
      PROVE  SinceSync(c, d)
  BY <1>0, <1>h, HasNow DEF RequestSince
<1>g. ASSUME \A i \in DOMAIN wire' : \A c \in wire'[i].waits : tool'[c] # "workspaceSymbol" =>
               \A d \in Docs : Has(wire', srv', curi'[c], i, d) => SinceSync(c, d)'
      PROVE  AllRequests
  BY <1>g DEF RequestSince, WillHave, About, Has, Entries
<1> USE DEF callVars, shutVars
\* Calls that wait keep what they synchronized.
<1> DEFINE Kept == \A c \in Callers : pc[c] = "asked" =>
                     /\ pc'[c] = "asked" /\ tool'[c] = tool[c] /\ curi'[c] = curi[c]
                     /\ cver'[c] = cver[c] /\ ctext'[c] = ctext[c]
<1>k. ASSUME wire' = wire, srv' = srv, Kept PROVE AllRequests
  <2> SUFFICES ASSUME NEW i \in DOMAIN wire, NEW c \in wire[i].waits, tool'[c] # "workspaceSymbol",
                      NEW d \in Docs, Has(wire, srv, curi'[c], i, d)
               PROVE  SinceSync(c, d)'
    BY <1>g, <1>k
  <2>1. c \in Callers /\ pc[c] = "asked"
    BY <1>t, <1>w
  <2>2. SinceSync(c, d)
    BY <1>h, <1>k, <2>1
  <2> QED BY <1>k, <2>1, <2>2 DEF SinceSync
<1>n. ASSUME NEW m \in Messages, m.waits = {}, wire' = Append(wire, m), srv' = srv, Kept PROVE AllRequests
  <2>1. /\ DOMAIN wire' = DOMAIN wire \cup {Len(wire) + 1}
        /\ \A i \in DOMAIN wire' : wire'[i].waits # {} => i \in DOMAIN wire /\ wire'[i] = wire[i]
    BY <1>n, <1>t, AppendFacts
  <2> SUFFICES ASSUME NEW i \in DOMAIN wire, NEW c \in wire[i].waits, tool'[c] # "workspaceSymbol",
                      NEW d \in Docs, Has(wire', srv, curi'[c], i, d)
               PROVE  SinceSync(c, d)'
    BY <1>g, <1>n, <2>1
  <2>2. c \in Callers /\ pc[c] = "asked"
    BY <1>t, <1>w
  <2>3. Has(wire, srv, curi[c], i, d)
    BY <1>n, <1>t, <2>2, HasBefore
  <2>4. SinceSync(c, d)
    BY <1>h, <1>n, <2>2, <2>3
  <2> QED BY <1>n, <2>2, <2>4 DEF SinceSync
\* The session's documents only get later, by the calls that synchronize.
<1>d. ASSUME NEW c \in Callers, pc[c] = "bound", NEW d \in Docs, d.text = ctext[c],
             d = openDocs[curi[c]] \/ d.version > openDocs[curi[c]].version,
             openDocs' = [openDocs EXCEPT ![curi[c]] = d],
             pc' = [pc EXCEPT ![c] = "synced"], cver' = [cver EXCEPT ![c] = d.version],
             UNCHANGED <<tool, curi, ctext, answer>>
      PROVE  AllDocs /\ Kept
  <2>1. ASSUME NEW b \in Callers PROVE DocSince(b)'
    <3>v. d.version \in Nat /\ openDocs[curi[b]].version \in Nat /\ cver[b] \in Nat
      BY <1>t, DocFields
    <3>1. CASE b = c
      BY <1>d, <1>t, <3>1, <3>v DEF DocSince, SinceSync
    <3>2. CASE b # c /\ curi[b] # curi[c]
      BY <1>d, <1>t, <1>0, <3>2 DEF DocSince, SinceSync
    <3>3. CASE b # c /\ curi[b] = curi[c]
      <4>1. openDocs'[curi[b]] = d
        BY <1>d, <1>t, <3>3
      <4>2. DocSince(b) /\ pc'[b] = pc[b] /\ cver'[b] = cver[b] /\ ctext'[b] = ctext[b]
        BY <1>d, <1>t, <1>0, <3>3
      <4>3. ASSUME SinceSync(b, openDocs[curi[b]]) PROVE SinceSync(b, d)
        BY <1>d, <3>3, <3>v, <4>3 DEF SinceSync
      <4> QED BY <1>d, <4>1, <4>2, <4>3 DEF DocSince, SinceSync
    <3> QED BY <3>1, <3>2, <3>3
  <2> QED BY <1>d, <1>t, <2>1
\* One call, that waits for nothing, changes its state.
<1>c. ASSUME NEW c \in Callers, pc[c] # "asked", pc'[c] \notin {"synced", "asked", "answered"}, openDocs' = openDocs,
             \A b \in Callers \ {c} : /\ pc'[b] = pc[b] /\ tool'[b] = tool[b] /\ curi'[b] = curi[b]
                                      /\ cver'[b] = cver[b] /\ ctext'[b] = ctext[b] /\ answer'[b] = answer[b]
      PROVE  AllDocs /\ Kept
  <2>1. ASSUME NEW b \in Callers PROVE DocSince(b)'
    BY <1>c, <1>0 DEF DocSince, SinceSync
  <2> QED BY <1>c, <2>1
<1>u. ASSUME UNCHANGED <<openDocs, callVars>> PROVE AllDocs /\ Kept
  BY <1>u, <1>0 DEF DocSince, SinceSync
<1>1. ASSUME NEW v \in Uris, Save(v) PROVE AllDocs /\ AllRequests
  BY <1>1, <1>k, <1>u DEF Save
<1>2. ASSUME NEW c \in Callers, NEW v \in Uris, NEW t \in Tools, Read(c, v, t) PROVE AllDocs /\ AllRequests
  <2>1. AllDocs /\ Kept
    BY <1>2, <1>t, <1>c DEF Read
  <2> QED BY <1>2, <1>k, <2>1 DEF Read
<1>3. ASSUME NEW c \in Callers, Bind(c) PROVE AllDocs /\ AllRequests
  <2>1. AllDocs
    <3>1. ASSUME NEW b \in Callers PROVE DocSince(b)'
      BY <1>3, <1>t, <1>0 DEF Bind, DocSince, SinceSync
    <3> QED BY <3>1
  <2>2. Kept
    BY <1>3, <1>t DEF Bind
  <2> QED BY <1>3, <1>k, <2>1, <2>2 DEF Bind
<1>4. ASSUME NEW c \in Callers, Refused(c) \/ SyncFails(c) \/ Return(c) PROVE AllDocs /\ AllRequests
  <2>0. pc[c] # "asked" /\ openDocs' = openDocs /\ End(c)
    BY <1>4 DEF Refused, SyncFails, Return, End
  <2>1. AllDocs /\ Kept
    BY <2>0, <1>t, <1>c DEF End
  <2>2. wire' = wire /\ srv' = srv
    BY <1>4 DEF Refused, SyncFails, Return, End
  <2> QED BY <1>k, <2>1, <2>2
<1>5. ASSUME NEW c \in Callers, SyncOpen(c) PROVE AllDocs /\ AllRequests
  <2> DEFINE d == Doc(1, ctext[c])
  <2>0. 1 \in 1..MaxVersion /\ ctext[c] \in 0..MaxEdits
    BY <1>t, BoundsAssumption
  <2>1. d \in Docs
    BY <2>0, DocType
  <2>2. d.text = ctext[c] /\ d.version = 1 /\ openDocs[curi[c]].version = 0
    BY <1>5 DEF SyncOpen, Doc, Known, Absent
  <2>3. DidOpen(curi[c], ctext[c]) \in Messages /\ DidOpen(curi[c], ctext[c]).waits = {}
    BY <1>t, <2>1, NotifyType DEF DidOpen, Notify, Syncs, Late
  <2>a. /\ pc[c] = "bound" /\ openDocs' = [openDocs EXCEPT ![curi[c]] = d]
        /\ pc' = [pc EXCEPT ![c] = "synced"] /\ cver' = [cver EXCEPT ![c] = d.version]
        /\ UNCHANGED <<tool, curi, ctext, answer>>
    BY <1>5, <2>2 DEF SyncOpen, Synced
  <2>b. d.version > openDocs[curi[c]].version
    BY <2>2
  <2> HIDE DEF d
  <2>4. AllDocs /\ Kept
    BY <1>d, <2>1, <2>2, <2>a, <2>b
  <2> QED BY <1>5, <1>n, <2>3, <2>4 DEF SyncOpen, Synced, Write
<1>6. ASSUME NEW c \in Callers, SyncUnchanged(c) PROVE AllDocs /\ AllRequests
  <2> DEFINE d == openDocs[curi[c]]
  <2>1. d \in Docs /\ openDocs = [openDocs EXCEPT ![curi[c]] = d]
    BY <1>t
  <2>2. AllDocs /\ Kept
    BY <1>6, <1>d, <2>1 DEF SyncUnchanged, Synced
  <2> QED BY <1>6, <1>k, <2>2 DEF SyncUnchanged, Synced
<1>7. ASSUME NEW c \in Callers, SyncChange(c) PROVE AllDocs /\ AllRequests
  <2> DEFINE d == Doc(NextVersion(c), ctext[c])
  <2>0. openDocs[curi[c]].version \in Nat
    BY <1>t, DocFields
  <2>a. NextVersion(c) \in 1..MaxVersion /\ NextVersion(c) > openDocs[curi[c]].version
    BY <1>7, <1>t, <2>0 DEF SyncChange, NextVersion
  <2> HIDE DEF NextVersion
  <2>1. d \in Docs
    BY <1>t, <2>a, DocType
  <2>2. d.text = ctext[c] /\ d.version = NextVersion(c)
    BY DEF Doc
  <2>3. DidChange(curi[c], NextVersion(c), ctext[c]) \in Messages /\ DidChange(curi[c], NextVersion(c), ctext[c]).waits = {}
    BY <1>t, <2>1, NotifyType DEF DidChange, Notify, Syncs, Late
  <2>4. AllDocs /\ Kept
    BY <1>7, <1>d, <2>a, <2>1, <2>2 DEF SyncChange, Synced
  <2> QED BY <1>7, <1>n, <2>3, <2>4 DEF SyncChange, Synced, Write
<1>9. ASSUME NEW c \in Callers, NEW needs \in SUBSET Capabilities, Send(c, needs), pc[c] \in {"synced", "answered"}
      PROVE  AllDocs /\ AllRequests
  <2> DEFINE m == Request(curi[c], c, needs)
  <2>1. m \in Messages /\ m.kind = "request" /\ m.waits = {c}
    BY <1>t, RequestType DEF Request
  <2> HIDE DEF m
  <2>2. /\ wire' = Append(wire, m) /\ pc' = [pc EXCEPT ![c] = "asked"] /\ srv' = srv
        /\ UNCHANGED <<tool, curi, ctext, cver, answer, openDocs>>
    BY <1>9 DEF Send, Write, m
  <2>3. /\ DOMAIN wire' = DOMAIN wire \cup {Len(wire) + 1} /\ wire'[Len(wire) + 1] = m
        /\ \A i \in DOMAIN wire : wire'[i] = wire[i]
    BY <1>t, <2>1, <2>2, AppendFacts
  <2>4. AllDocs
    <3>1. ASSUME NEW b \in Callers PROVE DocSince(b)'
      BY <1>9, <1>t, <1>0, <2>2 DEF DocSince, SinceSync
    <3> QED BY <3>1
  <2>5. AllRequests
    <3> SUFFICES ASSUME NEW i \in DOMAIN wire', NEW b \in wire'[i].waits, tool[b] # "workspaceSymbol",
                        NEW d \in Docs, Has(wire', srv, curi[b], i, d)
                 PROVE  SinceSync(b, d)'
      BY <1>g, <2>2
    <3>1. Has(wire, srv, curi[b], i, d)
      BY <1>t, <2>1, <2>2, <2>3, HasBefore
    <3>2. CASE i \in DOMAIN wire
      <4>1. SinceSync(b, d)
        BY <1>h, <2>3, <3>1, <3>2
      <4> QED BY <2>2, <4>1 DEF SinceSync
    <3>3. CASE i = Len(wire) + 1
      <4>1. b = c
        BY <2>1, <2>3, <3>3
      <4>2. d = openDocs[curi[c]]
        BY <1>f, <1>t, <3>1, <3>3, <4>1, HasOne
      <4>3. SinceSync(c, d)
        BY <1>0, <1>9, <4>1, <4>2 DEF DocSince
      <4> QED BY <2>2, <4>1, <4>3 DEF SinceSync
    <3> QED BY <2>3, <3>2, <3>3
  <2> QED BY <2>4, <2>5
<1>10. ASSUME NEW c \in Callers, Ask(c) \/ Resolve(c) PROVE AllDocs /\ AllRequests
  <2>1. Takes(tool[c]) \in SUBSET Capabilities /\ Resolves(tool[c]) \in SUBSET Capabilities
    BY NeedsType DEF SyncTypeOK
  <2> QED BY <1>9, <1>10, <2>1 DEF Ask, Resolve
<1>13. ASSUME NEW c \in Callers, AskFails(c) PROVE AllDocs /\ AllRequests
  <2>1. /\ DOMAIN wire' = DOMAIN wire
        /\ \A j \in DOMAIN wire :
             wire'[j].uri = wire[j].uri /\ wire'[j].kind = wire[j].kind /\ wire'[j].doc = wire[j].doc
        /\ \A j \in DOMAIN wire : wire'[j].waits = wire[j].waits \ {c}
    BY <1>13, DropWait
  <2>2. /\ srv' = srv /\ curi' = curi /\ openDocs' = openDocs /\ pc'[c] = "idle"
        /\ \A b \in Callers \ {c} : /\ pc'[b] = pc[b] /\ tool'[b] = tool[b]
                                     /\ cver'[b] = cver[b] /\ ctext'[b] = ctext[b] /\ answer'[b] = answer[b]
    BY <1>13, <1>t DEF AskFails, End
  <2>3. AllDocs
    <3>1. ASSUME NEW b \in Callers PROVE DocSince(b)'
      BY <1>0, <2>2 DEF DocSince, SinceSync
    <3> QED BY <3>1
  <2>4. AllRequests
    <3> SUFFICES ASSUME NEW i \in DOMAIN wire, NEW b \in wire[i].waits \ {c}, tool'[b] # "workspaceSymbol",
                        NEW d \in Docs, Has(wire', srv, curi[b], i, d)
                 PROVE  SinceSync(b, d)'
      BY <1>g, <2>1, <2>2
    <3>1. Has(wire, srv, curi[b], i, d)
      BY <2>1, HasSame
    <3>2. b \in Callers \ {c}
      BY <1>t
    <3>3. SinceSync(b, d)
      BY <1>h, <2>2, <3>1, <3>2
    <3> QED BY <2>2, <3>2, <3>3 DEF SinceSync
  <2> QED BY <2>3, <2>4
<1>14. CASE Server
  <2>0. ServerSyncs \/ ServerAnswers
    BY <1>0, <1>14, ServerOpen
  <2>1. wire # <<>> /\ wire' = Tail(wire) /\ UNCHANGED <<curi, tool, ctext, cver, openDocs>>
    BY <2>0 DEF ServerSyncs, ServerAnswers
  <2>2. /\ DOMAIN wire' = 1..(Len(wire) - 1) /\ Head(wire) = wire[1] /\ 1 \in DOMAIN wire
        /\ Len(wire') = Len(wire) - 1
        /\ \A i \in 1..(Len(wire) - 1) : wire'[i] = wire[i + 1] /\ i + 1 \in DOMAIN wire
    BY <1>t, <2>1, TailFacts
  <2>4. AllDocs
    <3> SUFFICES ASSUME NEW b \in Callers PROVE DocSince(b)'
      OBVIOUS
    <3>1. CASE pc'[b] = pc[b] /\ answer'[b] = answer[b]
      BY <1>0, <2>1, <3>1 DEF DocSince, SinceSync
    <3>2. CASE Head(wire).kind = "request" /\ b \in wire[1].waits
      <4>1. /\ pc'[b] = "answered" /\ answer'[b] = srv[Head(wire).uri]
            /\ wire[1].uri = curi[b] /\ pc[b] = "asked"
        BY <2>0, <2>2, <3>2 DEF ServerSyncs, ServerAnswers, WaitInv, Syncs
      <4>2. srv[curi[b]] \in Docs /\ Has(wire, srv, curi[b], 1, srv[curi[b]])
        BY <1>t, HasFirst
      <4>3. tool[b] # "workspaceSymbol" => SinceSync(b, srv[curi[b]])
        BY <1>h, <2>2, <3>2, <4>2
      <4>4. tool[b] # "workspaceSymbol" => SinceSync(b, openDocs[curi[b]])
        BY <1>0, <4>1 DEF DocSince
      <4> QED BY <2>1, <2>2, <4>1, <4>3, <4>4 DEF DocSince, SinceSync
    <3> QED BY <2>0, <2>2, <3>1, <3>2 DEF ServerSyncs, ServerAnswers
  <2>5. /\ \A u \in Uris : Head(wire).kind \in Syncs /\ Head(wire).uri = u => srv'[u] = Head(wire).doc
        /\ \A u \in Uris : Head(wire).kind \notin Syncs \/ Head(wire).uri # u => srv'[u] = srv[u]
    BY <1>t, <2>0 DEF ServerSyncs, ServerAnswers, Syncs
  <2>6. AllRequests
    <3> SUFFICES ASSUME NEW i \in 1..(Len(wire) - 1), NEW b \in wire[i + 1].waits, tool[b] # "workspaceSymbol",
                        NEW d \in Docs, Has(Tail(wire), srv', curi[b], i, d)
                 PROVE  SinceSync(b, d)'
      BY <1>g, <2>1, <2>2
    <3>a. i + 1 \in DOMAIN wire
      BY <2>2
    <3>b. wire[i + 1].waits \in SUBSET Callers
      BY <1>t, <3>a
    <3>c. b \in Callers /\ curi[b] \in Uris
      BY <1>t, <3>b
    <3>d. i \in 1..Len(wire)
      BY <1>t
    <3>1. b \in Callers /\ curi[b] \in Uris /\ i \in 1..Len(wire)
      BY <3>c, <3>d
    <3>2. Has(wire, srv, curi[b], i + 1, d)
      BY <1>t, <2>1, <2>5, <3>1, HasRead
    <3>3. SinceSync(b, d)
      BY <1>h, <2>2, <3>2
    <3> QED BY <2>1, <3>3 DEF SinceSync
  <2> QED BY <2>4, <2>6
<1>16. CASE Lose
  <2>1. \A b \in Callers : pc'[b] \notin {"synced", "asked", "answered"}
    BY <1>16, <1>t DEF Lose, Dropped
  <2>2. DOMAIN wire' = {}
    BY <1>16 DEF Lose
  <2> QED BY <2>1, <2>2 DEF DocSince
<1>17. CASE Shutdown
  BY <1>0, <1>17, <1>k, <1>u DEF Shutdown, TakeDocs, CloseOne, ShutdownCall, ExitCall, CloseConn
<1>18. CASE UNCHANGED syncVars
  BY <1>18, <1>k, <1>u DEF syncVars
<1> QED
  BY <1>1, <1>2, <1>3, <1>4, <1>5, <1>6, <1>7, <1>10, <1>13, <1>14, <1>16, <1>17, <1>18
  DEF SyncNext, Call, Sync

\* A request, and each one that resolves an item of its answer, is answered from the
\* document as its own call synchronized it or as later calls did (hover.go:55-61,
\* code_action.go:58-101), in every behaviour.
THEOREM AnswerSinceSyncHolds == SyncSpec => []AnswerSinceSync
<1>1. SinceInv => AnswerSinceSync
  BY DEF SinceInv, DocSince, AnswerSinceSync
<1> QED BY <1>1, SyncTypeInit, SyncTypeNext, StopInit, StopNext, FollowsInit, FollowsNext, WaitInit, WaitNext,
           SinceInit, SinceNext, PTL DEF SyncSpec

-----------------------------------------------------------------------------
(* Every message is legal when the server reads it                         *)

\* A call that holds the session has been let through by it, and its document is
\* open once it has synchronized.
CallInv ==
  /\ \A c \in Callers : pc[c] \in {"bound", "synced", "asked", "answered"} => Gate(tool[c]) \subseteq caps
  /\ closing = "no" => \A c \in Callers :
       pc[c] \in {"synced", "asked", "answered"} /\ tool[c] # "workspaceSymbol" => Known(curi[c])

LEMMA CallInit == SyncInit => CallInv
  BY DEF SyncInit, CallInv

LEMMA CallNext == SyncTypeOK /\ WaitInv /\ CallInv /\ [SyncNext]_syncVars => CallInv'
<1> SUFFICES ASSUME SyncTypeOK, WaitInv, CallInv, [SyncNext]_syncVars PROVE CallInv'
  OBVIOUS
<1>t. /\ DOMAIN wire = 1..Len(wire) /\ Len(wire) \in Nat
      /\ curi \in [Callers -> Uris] /\ pc \in [Callers -> {"idle", "read", "bound", "synced", "asked", "answered", "stranded", "lost"}]
      /\ openDocs \in [Uris -> Docs] /\ tool \in [Callers -> Tools \cup {"none"}]
      /\ \A u \in Uris : openDocs[u].version \in Nat
  BY WireType, DocFields, BoundsAssumption DEF SyncTypeOK
<1> USE DEF callVars, shutVars, CallInv, Known
<1>1. ASSUME NEW v \in Uris, Save(v) PROVE CallInv'
  BY <1>1 DEF Save
<1>2. ASSUME NEW c \in Callers, NEW v \in Uris, NEW t \in Tools, Read(c, v, t) PROVE CallInv'
  BY <1>2, <1>t DEF Read
<1>3. ASSUME NEW c \in Callers, Bind(c) PROVE CallInv'
  BY <1>3, <1>t DEF Bind
<1>4. ASSUME NEW c \in Callers, Refused(c) \/ SyncFails(c) \/ Return(c) \/ AskFails(c) PROVE CallInv'
  BY <1>4, <1>t DEF Refused, SyncFails, Return, AskFails, End
<1>5. ASSUME NEW c \in Callers, SyncOpen(c) PROVE CallInv'
  <2>1. Doc(1, ctext[c]) # Absent
    BY DEF Doc, Absent
  <2> QED BY <1>5, <1>t, <2>1 DEF SyncOpen, Synced
<1>6. ASSUME NEW c \in Callers, SyncUnchanged(c) PROVE CallInv'
  BY <1>6, <1>t DEF SyncUnchanged, Synced
<1>7. ASSUME NEW c \in Callers, SyncChange(c) PROVE CallInv'
  <2>1. Doc(NextVersion(c), ctext[c]) # Absent
    BY <1>t DEF Doc, Absent, NextVersion
  <2> QED BY <1>7, <1>t, <2>1 DEF SyncChange, Synced
<1>9. ASSUME NEW c \in Callers, NEW needs, Send(c, needs), pc[c] \in {"synced", "answered"} PROVE CallInv'
  BY <1>9, <1>t DEF Send
<1>10. ASSUME NEW c \in Callers, Ask(c) \/ Resolve(c) PROVE CallInv'
  BY <1>9, <1>10 DEF Ask, Resolve
<1>14. CASE Server
  <2>1. UNCHANGED <<caps, openDocs, tool, curi, closing>>
    BY <1>14 DEF Server, ServerSyncs, ServerAnswers, ServerStops, ServerRefuses
  <2>2. \A c \in Callers : pc'[c] = pc[c] \/ pc[c] = "asked"
    <3>1. CASE ServerSyncs \/ ServerStops \/ ServerRefuses
      BY <3>1 DEF ServerSyncs, ServerStops, ServerRefuses
    <3>2. CASE ServerAnswers
      <4>1. Head(wire) = wire[1] /\ 1 \in DOMAIN wire
        BY <1>t, <3>2, TailFacts DEF ServerAnswers, SyncTypeOK
      <4> QED BY <3>2, <4>1 DEF ServerAnswers, WaitInv
    <3> QED BY <1>14, <3>1, <3>2 DEF Server
  <2> QED BY <2>1, <2>2
<1>16. CASE Lose
  BY <1>16, <1>t DEF Lose, Dropped
<1>17. CASE Shutdown
  BY <1>17 DEF Shutdown, TakeDocs, CloseOne, ShutdownCall, ExitCall, CloseConn
<1>18. CASE UNCHANGED syncVars
  BY <1>18 DEF syncVars
<1> QED
  BY <1>1, <1>2, <1>3, <1>4, <1>5, <1>6, <1>7, <1>10, <1>14, <1>16, <1>17, <1>18
  DEF SyncNext, Call, Sync

\* What shutdown has still to close is open: it was when shutdown took it, and a late
\* call can only open it again.  Messages written before shutdown, and by it, are legal.
PendingOpen ==
  closing = "sending" => \A u \in pending : \A d \in Docs : WillHave(u, Len(wire) + 1, d) => d # Absent
LawfulWire ==
  \A i \in DOMAIN wire : ~wire[i].late /\ wire[i].kind \notin Stops =>
    \A d \in Docs : WillHave(wire[i].uri, i, d) => Legal(wire[i], d)
OffersWire == \A i \in DOMAIN wire : wire[i].needs \subseteq caps
LegalInv == PendingOpen /\ LawfulWire /\ OffersWire

LEMMA LegalInit == SyncInit => LegalInv
  BY DEF SyncInit, LegalInv, PendingOpen, LawfulWire, OffersWire

LEMMA LegalNext == SyncTypeOK /\ StopInv /\ ServerFollows /\ CallInv /\ LegalInv /\ [SyncNext]_syncVars => LegalInv'
<1> SUFFICES ASSUME SyncTypeOK, StopInv, ServerFollows, CallInv, LegalInv, [SyncNext]_syncVars PROVE LegalInv'
  OBVIOUS
<1> DEFINE Open == closing' = "sending" =>
                     \A u \in pending' : \A d \in Docs : Has(wire', srv', u, Len(wire') + 1, d) => d # Absent
           Lawful == \A i \in DOMAIN wire' : ~wire'[i].late /\ wire'[i].kind \notin Stops =>
                       \A d \in Docs : Has(wire', srv', wire'[i].uri, i, d) => Legal(wire'[i], d)
           Offers == \A i \in DOMAIN wire' : wire'[i].needs \subseteq caps'
           Goal == Open /\ Lawful /\ Offers
<1>q. ASSUME Goal PROVE LegalInv'
  <2>1. PendingOpen'
    BY <1>q DEF PendingOpen, WillHave, About, Has, Entries
  <2>2. LawfulWire'
    BY <1>q DEF LawfulWire, Legal, WillHave, About, Has, Entries
  <2>3. OffersWire'
    BY <1>q DEF OffersWire
  <2> QED BY <2>1, <2>2, <2>3 DEF LegalInv
<1>t. /\ wire \in Seq(Messages) /\ Len(wire) \in Nat /\ DOMAIN wire = 1..Len(wire)
      /\ curi \in [Callers -> Uris] /\ pc \in [Callers -> {"idle", "read", "bound", "synced", "asked", "answered", "stranded", "lost"}]
      /\ openDocs \in [Uris -> Docs] /\ srv \in [Uris -> Docs] /\ ctext \in [Callers -> 0..MaxEdits]
      /\ tool \in [Callers -> Tools \cup {"none"}] /\ pending \in SUBSET Uris
      /\ MaxVersion \in Nat
      /\ \A i \in DOMAIN wire : wire[i].kind \notin Stops => wire[i].uri \in Uris
  BY WireType, BoundsAssumption DEF SyncTypeOK
<1>0. /\ closing = "sending" => \A u \in pending : \A d \in Docs : Has(wire, srv, u, Len(wire) + 1, d) => d # Absent
      /\ \A i \in DOMAIN wire : ~wire[i].late /\ wire[i].kind \notin Stops =>
           \A d \in Docs : Has(wire, srv, wire[i].uri, i, d) => Legal(wire[i], d)
      /\ \A i \in DOMAIN wire : wire[i].needs \subseteq caps
  BY HasNow DEF LegalInv, PendingOpen, LawfulWire, OffersWire
<1>f. closing = "no" => \A u \in Uris : Has(wire, srv, u, Len(wire) + 1, openDocs[u])
  BY HasNow DEF ServerFollows
<1> USE DEF callVars, shutVars
\* Messages and shutdown as they were.
<1>k. ASSUME UNCHANGED <<wire, srv, caps, closing, pending>> PROVE Goal
  BY <1>0, <1>k
\* A message that is legal after all that is written.
<1>n. ASSUME NEW m \in Messages, wire' = Append(wire, m), UNCHANGED <<srv, caps>>, m.needs \subseteq caps,
             ~m.late /\ m.kind \notin Stops =>
               \A d \in Docs : Has(wire, srv, m.uri, Len(wire) + 1, d) => Legal(m, d)
      PROVE  Lawful /\ Offers
  <2>1. /\ DOMAIN wire' = DOMAIN wire \cup {Len(wire) + 1} /\ wire'[Len(wire) + 1] = m
        /\ \A i \in DOMAIN wire : wire'[i] = wire[i]
    BY <1>n, <1>t, AppendFacts
  <2>2. Offers
    BY <1>0, <1>n, <2>1
  <2> SUFFICES ASSUME NEW i \in DOMAIN wire', ~wire'[i].late, wire'[i].kind \notin Stops,
                      NEW d \in Docs, Has(wire', srv, wire'[i].uri, i, d)
               PROVE  Legal(wire'[i], d)
    BY <1>n, <2>2
  <2>3. i \in 1..(Len(wire) + 1)
    BY <1>t, <2>1
  <2>4. Has(wire, srv, wire'[i].uri, i, d)
    BY <1>n, <1>t, <2>3, HasBefore
  <2> QED BY <1>0, <1>n, <2>1, <2>4
\* A message that takes away nothing shutdown has to close.
<1>o. ASSUME NEW m \in Messages, wire' = Append(wire, m), srv' = srv, closing' = closing, pending' \subseteq pending,
             m.kind \in Syncs => m.doc # Absent \/ m.uri \notin pending'
      PROVE  Open
  <2>1. Len(wire') + 1 = Len(wire) + 2
    BY <1>o, <1>t, AppendFacts
  <2>2. ASSUME closing = "sending", NEW u \in pending', NEW d \in Docs, Has(wire', srv', u, Len(wire') + 1, d)
        PROVE  d # Absent
    <3>1. CASE m.kind \in Syncs /\ m.uri = u
      BY <1>o, <1>t, <2>1, <2>2, <3>1, HasAfter
    <3>2. CASE m.kind \notin Syncs \/ m.uri # u
      <4>1. Has(wire, srv, u, Len(wire) + 1, d)
        BY <1>o, <1>t, <2>1, <2>2, <3>2, HasAfter
      <4> QED BY <1>0, <1>o, <2>2, <4>1
    <3> QED BY <3>1, <3>2
  <2> QED BY <1>o, <2>2
\* A notification a call writes to synchronize.
<1>d. ASSUME NEW c \in Callers, NEW m \in Messages, wire' = Append(wire, m), m.uri = curi[c], m.needs = {},
             m.late = Late, m.doc # Absent, UNCHANGED <<srv, caps, closing, pending>>, Legal(m, openDocs[curi[c]])
      PROVE  Goal
  <2>1. ASSUME ~m.late, NEW d \in Docs, Has(wire, srv, m.uri, Len(wire) + 1, d) PROVE Legal(m, d)
    <3>1. closing = "no" /\ curi[c] \in Uris
      BY <1>d, <1>t, <2>1 DEF Late
    <3>2. Has(wire, srv, curi[c], Len(wire) + 1, openDocs[curi[c]]) /\ Has(wire, srv, curi[c], Len(wire) + 1, d)
      BY <1>d, <1>f, <2>1, <3>1
    <3>3. d = openDocs[curi[c]]
      BY <1>t, <3>2, HasOne
    <3> QED BY <1>d, <3>3
  <2>2. Lawful /\ Offers
    BY <1>d, <1>n, <2>1
  <2>3. Open
    BY <1>d, <1>o
  <2> QED BY <2>2, <2>3
<1>1. ASSUME NEW v \in Uris, Save(v) PROVE Goal
  BY <1>1, <1>k DEF Save
<1>2. ASSUME NEW c \in Callers, NEW v \in Uris, NEW t \in Tools, Read(c, v, t) PROVE Goal
  BY <1>2, <1>k DEF Read
<1>3. ASSUME NEW c \in Callers, Bind(c) PROVE Goal
  BY <1>3, <1>k DEF Bind
<1>4. ASSUME NEW c \in Callers, Refused(c) \/ SyncFails(c) \/ Return(c) PROVE Goal
  BY <1>4, <1>k DEF Refused, SyncFails, Return, End
<1>5. ASSUME NEW c \in Callers, SyncOpen(c) PROVE Goal
  <2> DEFINE m == DidOpen(curi[c], ctext[c])
  <2>1. Doc(1, ctext[c]) \in Docs
    BY <1>t, BoundsAssumption, DocType
  <2>2. m \in Messages
    BY <1>t, <2>1, NotifyType DEF DidOpen, Syncs, Late
  <2>3. /\ m.uri = curi[c] /\ m.kind = "didOpen" /\ m.needs = {} /\ m.late = Late
        /\ m.doc = Doc(1, ctext[c]) /\ m.doc # Absent
    BY DEF DidOpen, Notify, Doc, Absent
  <2>4. Legal(m, openDocs[curi[c]])
    BY <1>5, <2>3 DEF Legal, SyncOpen, Known
  <2> HIDE DEF m
  <2>5. wire' = Append(wire, m) /\ UNCHANGED <<srv, caps, closing, pending>>
    BY <1>5 DEF SyncOpen, Synced, Write, m
  <2> QED BY <1>d, <2>2, <2>3, <2>4, <2>5
<1>6. ASSUME NEW c \in Callers, SyncUnchanged(c) PROVE Goal
  BY <1>6, <1>k DEF SyncUnchanged, Synced
<1>7. ASSUME NEW c \in Callers, SyncChange(c) PROVE Goal
  <2> DEFINE m == DidChange(curi[c], NextVersion(c), ctext[c])
  <2>0. openDocs[curi[c]].version \in Nat
    BY <1>t, DocFields
  <2>1. NextVersion(c) \in 1..MaxVersion /\ NextVersion(c) > openDocs[curi[c]].version
    BY <1>7, <1>t, <2>0 DEF SyncChange, NextVersion
  <2>2. m \in Messages
    BY <1>t, <2>1, DocType, NotifyType DEF DidChange, Syncs, Late
  <2>3. /\ m.uri = curi[c] /\ m.kind = "didChange" /\ m.needs = {} /\ m.late = Late
        /\ m.doc = Doc(NextVersion(c), ctext[c]) /\ m.doc.version = NextVersion(c)
    BY DEF DidChange, Notify, Doc
  <2>4. m.doc # Absent
    BY <1>t, <2>1, <2>3 DEF Absent
  <2>5. Legal(m, openDocs[curi[c]])
    BY <1>7, <2>1, <2>3 DEF Legal, SyncChange, Changed, Known
  <2> HIDE DEF m
  <2>6. wire' = Append(wire, m) /\ UNCHANGED <<srv, caps, closing, pending>>
    BY <1>7 DEF SyncChange, Synced, Write, m
  <2> QED BY <1>d, <2>2, <2>3, <2>4, <2>5, <2>6
<1>9. ASSUME NEW c \in Callers, NEW needs \in SUBSET Capabilities, Send(c, needs), needs \subseteq caps,
             pc[c] \in {"synced", "answered"}, tool[c] = "workspaceSymbol" => needs = {"workspaceSymbol"}
      PROVE  Goal
  <2> DEFINE m == Request(curi[c], c, needs)
  <2>1. m \in Messages /\ m.kind = "request" /\ m.uri = curi[c] /\ m.needs = needs /\ m.late = Late
    BY <1>t, RequestType DEF Request
  <2> HIDE DEF m
  <2>2. wire' = Append(wire, m) /\ UNCHANGED <<srv, caps, closing, pending>>
    BY <1>9 DEF Send, Write, m
  <2>3. ASSUME ~m.late, NEW d \in Docs, Has(wire, srv, m.uri, Len(wire) + 1, d) PROVE Legal(m, d)
    <3>1. CASE tool[c] = "workspaceSymbol"
      BY <1>9, <2>1, <3>1 DEF Legal
    <3>2. CASE tool[c] # "workspaceSymbol"
      <4>0. closing = "no"
        BY <2>1, <2>3 DEF Late
      <4>1. d = openDocs[curi[c]]
        BY <1>f, <1>t, <2>1, <2>3, <4>0, HasOne
      <4>2. d # Absent
        BY <1>9, <3>2, <4>0, <4>1 DEF CallInv, Known
      <4> QED BY <2>1, <4>2 DEF Legal
    <3> QED BY <3>1, <3>2
  <2>4. Lawful /\ Offers
    BY <1>9, <1>n, <2>1, <2>2, <2>3
  <2>5. m.kind \notin Syncs
    BY <2>1 DEF Syncs
  <2>6. Open
    BY <1>o, <2>1, <2>2, <2>5
  <2> QED BY <2>4, <2>6
<1>10. ASSUME NEW c \in Callers, Ask(c) PROVE Goal
  <2>1. Takes(tool[c]) \in SUBSET Capabilities
    BY <1>t, NeedsType
  <2>2. Gate(tool[c]) \subseteq caps /\ Send(c, Takes(tool[c])) /\ pc[c] = "synced"
    BY <1>10 DEF Ask, CallInv
  <2>3. Takes(tool[c]) \subseteq caps
    BY <1>10, <2>2 DEF Ask, Takes
  <2>4. tool[c] = "workspaceSymbol" => Takes(tool[c]) = {"workspaceSymbol"}
    BY DEF Takes, Gate, Gated
  <2> QED BY <1>9, <2>1, <2>2, <2>3, <2>4
<1>11. ASSUME NEW c \in Callers, Resolve(c) PROVE Goal
  <2>1. Resolves(tool[c]) \in SUBSET Capabilities
    BY <1>t, NeedsType
  <2> QED BY <1>9, <1>11, <2>1 DEF Resolve, Resolvable
<1>13. ASSUME NEW c \in Callers, AskFails(c) PROVE Goal
  <2>1. /\ DOMAIN wire' = DOMAIN wire /\ Len(wire') = Len(wire)
        /\ \A j \in DOMAIN wire :
             /\ wire'[j].uri = wire[j].uri /\ wire'[j].kind = wire[j].kind /\ wire'[j].doc = wire[j].doc
             /\ wire'[j].needs = wire[j].needs /\ wire'[j].late = wire[j].late
    BY <1>13, DropWait
  <2>2. UNCHANGED <<srv, caps, closing, pending>>
    BY <1>13 DEF AskFails, End
  <2>3. ASSUME NEW u, NEW i, NEW d PROVE Has(wire', srv', u, i, d) <=> Has(wire, srv, u, i, d)
    BY <2>1, <2>2, HasSame
  <2>4. Open /\ Offers
    BY <1>0, <2>1, <2>2, <2>3
  <2>5. Lawful
    BY <1>0, <2>1, <2>3 DEF Legal
  <2> QED BY <2>4, <2>5
<1>14. ASSUME Server PROVE Goal
  <2>1. wire # <<>> /\ wire' = Tail(wire) /\ UNCHANGED <<caps, closing, pending>>
    BY <1>14 DEF Server, ServerSyncs, ServerAnswers, ServerStops, ServerRefuses
  <2>2. /\ DOMAIN wire' = 1..(Len(wire) - 1) /\ Len(wire') = Len(wire) - 1 /\ Len(wire') + 1 = Len(wire)
        /\ \A i \in 1..(Len(wire) - 1) : wire'[i] = wire[i + 1] /\ i + 1 \in DOMAIN wire
        /\ Len(wire) \in 1..Len(wire) /\ \A i \in 1..(Len(wire) - 1) : i \in 1..Len(wire)
    BY <1>t, <2>1, TailFacts
  <2>3. Offers
    BY <1>0, <2>1, <2>2
  <2>4. CASE ServerRefuses
    <3>1. heard = {"shutdown"} /\ closing \notin {"no", "sending"}
      BY <2>4 DEF ServerRefuses, StopInv, StopFor
    <3>2. \A i \in DOMAIN wire : ~wire[i].late => wire[i].kind = "exit"
      BY <3>1 DEF StopInv, StopFor, Ordered, HasHeard
    <3>3. Lawful
      BY <2>2, <3>2 DEF Stops
    <3> QED BY <2>1, <2>3, <3>1, <3>3
  <2>5. CASE ServerSyncs \/ ServerAnswers \/ ServerStops
    <3>1. /\ \A u \in Uris : Head(wire).kind \in Syncs /\ Head(wire).uri = u => srv'[u] = Head(wire).doc
          /\ \A u \in Uris : Head(wire).kind \notin Syncs \/ Head(wire).uri # u => srv'[u] = srv[u]
      BY <1>t, <2>5 DEF ServerSyncs, ServerAnswers, ServerStops, Syncs, Stops
    <3>2. ASSUME NEW u \in Uris, NEW i \in 1..Len(wire), NEW d
          PROVE  Has(wire', srv', u, i, d) <=> Has(wire, srv, u, i + 1, d)
      BY <1>t, <2>1, <3>1, HasRead
    <3>3. Lawful
      <4> SUFFICES ASSUME NEW i \in 1..(Len(wire) - 1), ~wire[i + 1].late, wire[i + 1].kind \notin Stops,
                          NEW d \in Docs, Has(wire', srv', wire[i + 1].uri, i, d)
                   PROVE  Legal(wire[i + 1], d)
        BY <2>2
      <4>1. i + 1 \in DOMAIN wire /\ i \in 1..Len(wire)
        BY <2>2
      <4>2. wire[i + 1].uri \in Uris
        BY <1>t, <4>1
      <4>3. Has(wire, srv, wire[i + 1].uri, i + 1, d)
        BY <3>2, <4>1, <4>2
      <4> QED BY <1>0, <4>1, <4>3
    <3>4. Open
      <4>1. ASSUME NEW u \in Uris, NEW d \in Docs, Has(wire', srv', u, Len(wire') + 1, d)
            PROVE  Has(wire, srv, u, Len(wire) + 1, d)
        BY <2>2, <3>2, <4>1
      <4> QED BY <1>0, <1>t, <2>1, <4>1
    <3> QED BY <2>3, <3>3, <3>4
  <2> QED BY <1>14, <2>4, <2>5 DEF Server
<1>16. ASSUME Lose PROVE Goal
  <2>1. closing' = "no" /\ DOMAIN wire' = {}
    BY <1>16 DEF Lose
  <2> QED BY <2>1
<1>17. ASSUME TakeDocs PROVE Goal
  <2>1. closing = "no" /\ UNCHANGED <<wire, srv, caps>>
    BY <1>17 DEF TakeDocs
  <2>2. Open
    <3> SUFFICES ASSUME NEW u \in pending', NEW d \in Docs, Has(wire, srv, u, Len(wire) + 1, d) PROVE d # Absent
      BY <2>1
    <3>1. u \in Uris /\ openDocs[u] # Absent
      BY <1>17 DEF TakeDocs, Known
    <3>2. d = openDocs[u]
      BY <1>f, <1>t, <2>1, <3>1, HasOne
    <3> QED BY <3>1, <3>2
  <2> QED BY <1>0, <2>1, <2>2
<1>18. ASSUME NEW v \in Uris, CloseOne(v) PROVE Goal
  <2> DEFINE m == DidClose(v)
  <2>1. m \in Messages
    BY NotifyType DEF DidClose, Docs, Syncs
  <2>a. m.kind = "didClose" /\ m.uri = v /\ m.needs = {}
    BY DEF DidClose, Notify
  <2> HIDE DEF m
  <2>2. /\ closing = "sending" /\ v \in pending /\ pending' = pending \ {v} /\ UNCHANGED <<srv, caps, closing>>
        /\ wire' = Append(wire, m) \/ wire' = wire
    BY <1>18 DEF CloseOne, Write, m
  <2>3. CASE wire' = wire
    BY <1>0, <2>2, <2>3
  <2>4. CASE wire' = Append(wire, m)
    <3>1. \A d \in Docs : Has(wire, srv, m.uri, Len(wire) + 1, d) => Legal(m, d)
      BY <1>0, <2>a, <2>2 DEF Legal
    <3>2. Lawful /\ Offers
      BY <1>n, <2>1, <2>a, <2>2, <2>4, <3>1
    <3>3. Open
      BY <1>o, <2>1, <2>a, <2>2, <2>4
    <3> QED BY <3>2, <3>3
  <2> QED BY <2>2, <2>3, <2>4
<1>19. ASSUME ShutdownCall \/ ExitCall \/ CloseConn PROVE Goal
  <2>1. closing' # "sending" /\ UNCHANGED <<srv, caps>>
    BY <1>19 DEF ShutdownCall, ExitCall, CloseConn
  <2>2. CASE wire' = wire
    BY <1>0, <2>1, <2>2
  <2>3. CASE wire' # wire
    <3>1. PICK k \in Stops : wire' = Append(wire, Stop(k))
      BY <1>19, <2>3 DEF ShutdownCall, ExitCall, CloseConn, Write, Stops
    <3>2. Stop(k) \in Messages /\ Stop(k).kind = k /\ Stop(k).needs = {}
      BY StopType DEF Stop, Notify
    <3>3. Lawful /\ Offers
      BY <1>n, <2>1, <3>1, <3>2
    <3> QED BY <2>1, <3>3
  <2> QED BY <2>2, <2>3
<1>20. ASSUME UNCHANGED syncVars PROVE Goal
  BY <1>20, <1>k DEF syncVars
<1> QED
  BY <1>q, <1>1, <1>2, <1>3, <1>4, <1>5, <1>6, <1>7, <1>10, <1>11, <1>13, <1>14, <1>16, <1>17, <1>18, <1>19, <1>20
  DEF SyncNext, Call, Sync, Shutdown

\* Every message a call wrote before shutdown took the documents, and every one of
\* shutdown itself, is legal when the server comes to it: didOpen once per document,
\* didChange with rising versions, didClose and requests of open documents only,
\* nothing but exit after shutdown (sync.go:34-37, session.go:245-251); and no request,
\* one written later included, takes what its session does not advertise (hover.go:52,
\* code_action.go:53 and 93).  In every behaviour, for any number of calls.
THEOREM WireLegalHolds == SyncSpec => []WireLegal
<1>1. StopInv /\ LegalInv => WireLegal
  BY DEF StopInv, StopFor, Ordered, HasHeard, InOrder, WillHaveHeard, LegalInv, LawfulWire, OffersWire, WireLegal
<1> QED BY <1>1, SyncTypeInit, SyncTypeNext, StopInit, StopNext, FollowsInit, FollowsNext, WaitInit, WaitNext,
           CallInit, CallNext, LegalInit, LegalNext, PTL DEF SyncSpec
=============================================================================
