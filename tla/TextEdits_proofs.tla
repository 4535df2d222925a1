--------------------------- MODULE TextEdits_proofs ---------------------------
(***************************************************************************)
(* Proofs about TextEdits, for any text and any number of edits: comparing *)
(* neighbours in the sorted list finds exactly the edits that clash, the   *)
(* loop from the last edit to the first cuts the text only where it is and *)
(* ends with the result of all edits at once, and positions are resolved   *)
(* exactly.  They rest on least elements: of the line ends behind an       *)
(* offset, the way back to the start of its line, the edits behind an      *)
(* edit, and the places where two texts put together differ.               *)
(***************************************************************************)
EXTENDS TextEdits, TLAPS, WellFoundedInduction, SequenceTheorems, FiniteSetTheorems

\* A set of naturals has a least element.
LEMMA Least ==
  ASSUME NEW T \in SUBSET Nat, T # {}
  PROVE  \E m \in T : \A k \in T : m <= k
<1>1. \E m \in T : \A k \in T : <<k, m>> \notin OpToRel(<, Nat)
  BY NatLessThanWellFounded, WFMin
<1>2. PICK m \in T : \A k \in T : <<k, m>> \notin OpToRel(<, Nat)
  BY <1>1
<1>3. ASSUME NEW k \in T PROVE m <= k
  <2>1. k \in Nat /\ m \in Nat
    OBVIOUS
  <2>2. <<k, m>> \in Nat \X Nat /\ <<k, m>>[1] = k /\ <<k, m>>[2] = m
    BY <2>1
  <2>3. ~(k < m)
    BY <1>2, <2>2 DEF OpToRel
  <2> QED BY <2>1, <2>3
<1> QED BY <1>3

-----------------------------------------------------------------------------
(* Offsets                                                                 *)

InText(n, r) == r.start \in 0..n /\ r.end \in 0..n /\ r.start <= r.end

\* A line ends inside the text.
LEMMA LineEndInside ==
  ASSUME text \in Seq(STRING), NEW o \in 0..Len(text)
  PROVE  LineEnd(o) \in Int /\ LineEnd(o) <= Len(text)
<1> DEFINE after == {i \in Newlines : i > o}
           end == IF after = {} THEN Len(text) ELSE (CHOOSE i \in after : \A j \in after : i <= j) - 1
<1>0. Len(text) \in Nat /\ DOMAIN text = 1..Len(text)
  OBVIOUS
<1>1. after \in SUBSET (1..Len(text))
  BY <1>0 DEF Newlines
<1>2. end \in 0..Len(text)
  <2>1. CASE after = {}
    BY <1>0, <2>1
  <2>2. CASE after # {}
    <3>1. \E i \in after : \A j \in after : i <= j
      BY <1>1, <2>2, Least, after \in SUBSET Nat
    <3>2. (CHOOSE i \in after : \A j \in after : i <= j) \in after
      BY <3>1
    <3>3. (CHOOSE i \in after : \A j \in after : i <= j) \in 1..Len(text)
      BY <1>1, <3>2
    <3> QED BY <1>0, <2>2, <3>3
  <2> QED BY <2>1, <2>2
<1>3. LineEnd(o) = IF end > o /\ text[end] = CR THEN end - 1 ELSE end
  BY DEF LineEnd
<1> HIDE DEF end
<1> QED BY <1>0, <1>2, <1>3

\* A position stands for places in the text only.
LEMMA OffsetsInside ==
  ASSUME text \in Seq(STRING), NEW p
  PROVE  Offsets(p) \in SUBSET (0..Len(text))
<1> SUFFICES ASSUME NEW s \in LineStarts(p.line), NEW o \in s..LineEnd(s)
             PROVE  o \in 0..Len(text)
  BY DEF Offsets
<1>0. Len(text) \in Nat /\ DOMAIN text = 1..Len(text)
  OBVIOUS
<1>1. s \in 0..Len(text)
  BY <1>0 DEF LineStarts, Newlines
<1>2. LineEnd(s) \in Int /\ LineEnd(s) <= Len(text)
  BY <1>1, LineEndInside
<1> QED BY <1>0, <1>1, <1>2

\* A valid edit has a range in the text.
LEMMA ValidRange ==
  ASSUME text \in Seq(STRING), NEW e \in Edits, Valid(e)
  PROVE  /\ InText(Len(text), RangeOf(e))
         /\ RangeOf(e) \in [start : 0..Len(text), end : 0..Len(text), new : NewTexts]
<1>1. OffsetOf(e.from) \in Offsets(e.from) /\ OffsetOf(e.to) \in Offsets(e.to)
  BY DEF Valid, OffsetOf
<1>2. OffsetOf(e.from) \in 0..Len(text) /\ OffsetOf(e.to) \in 0..Len(text)
  BY <1>1, OffsetsInside
<1>3. OffsetOf(e.from) <= OffsetOf(e.to) /\ e.new \in NewTexts
  BY DEF Valid, Edits
<1> QED BY <1>2, <1>3 DEF RangeOf, InText

-----------------------------------------------------------------------------
(* Neighbours                                                              *)

\* Of two edits that clash, the first in the order reaches into its successor;
\* and neighbours of which the first reaches into the second clash.
LEMMA NeighboursFindClashes ==
  ASSUME NEW n \in Nat, NEW m \in Nat, NEW rs, DOMAIN rs = 1..m, \A i \in 1..m : InText(n, rs[i])
  PROVE  NeighboursOverlap(rs) <=> \E i, j \in 1..m : i # j /\ Clash(rs[i], rs[j])
<1>0. \A i \in 1..m : rs[i].start \in Nat /\ rs[i].end \in Nat /\ rs[i].start <= rs[i].end
  BY DEF InText
<1>1. ASSUME NEW i \in 1..m, NEW j \in 1..m, rs[i].end > rs[j].start,
             Precedes(rs[i], rs[j]) \/ (i < j /\ ~Precedes(rs[j], rs[i]))
      PROVE  i # j /\ Clash(rs[i], rs[j])
  BY <1>0, <1>1 DEF Precedes, Clash, IsInsert
<1>2. ASSUME NEW i \in 1..m, NEW j \in 1..m, i # j, Clash(rs[i], rs[j]),
             Precedes(rs[i], rs[j]) \/ (i < j /\ ~Precedes(rs[j], rs[i]))
      PROVE  NeighboursOverlap(rs)
  <2>1. rs[i].end > rs[j].start /\ rs[i].start <= rs[j].start
    BY <1>0, <1>2 DEF Precedes, Clash, IsInsert
  <2>2. CASE ~Precedes(rs[i], rs[j])
    <3>1. \A k \in 1..m : ~(Precedes(rs[i], rs[k]) /\ Precedes(rs[k], rs[j]))
      BY <1>0, <2>2 DEF Precedes
    <3> QED BY <1>2, <2>1, <3>1 DEF NeighboursOverlap
  <2>3. CASE Precedes(rs[i], rs[j])
    <3> DEFINE behind == {k \in 1..m : Precedes(rs[i], rs[k])}
               starts == {rs[k].start : k \in behind}
    <3>1. starts \in SUBSET Nat /\ starts # {}
      BY <1>0, <2>3
    <3>2. PICK s \in starts : \A t \in starts : s <= t
      BY <3>1, Least
    <3> DEFINE nearest == {k \in behind : rs[k].start = s}
               ends == {rs[k].end : k \in nearest}
    <3>3. ends \in SUBSET Nat /\ ends # {}
      BY <1>0, <3>2
    <3>4. PICK e \in ends : \A t \in ends : e <= t
      BY <3>3, Least
    <3>5. PICK k \in behind : rs[k].start = s /\ rs[k].end = e
      BY <3>4
    <3>6. rs[k].start <= rs[j].start
      BY <2>3, <3>2, <3>5
    <3>7. ASSUME NEW l \in 1..m, Precedes(rs[i], rs[l]) PROVE ~Precedes(rs[l], rs[k])
      <4>1. l \in behind /\ s <= rs[l].start
        BY <3>2, <3>7
      <4>2. rs[l].start = s => e <= rs[l].end
        BY <3>4, <4>1
      <4> QED BY <1>0, <3>5, <4>1, <4>2 DEF Precedes
    <3>8. rs[i].end > rs[k].start
      BY <1>0, <2>1, <3>6
    <3> QED BY <3>5, <3>7, <3>8 DEF NeighboursOverlap
  <2> QED BY <2>2, <2>3
<1>3. ASSUME NEW i \in 1..m, NEW j \in 1..m, i # j, Clash(rs[i], rs[j]) PROVE NeighboursOverlap(rs)
  <2>1. Clash(rs[j], rs[i])
    BY <1>3 DEF Clash, IsInsert
  <2>2. \/ Precedes(rs[i], rs[j]) \/ (i < j /\ ~Precedes(rs[j], rs[i]))
        \/ Precedes(rs[j], rs[i]) \/ (j < i /\ ~Precedes(rs[i], rs[j]))
    BY <1>3
  <2> QED BY <1>2, <1>3, <2>1, <2>2
<1>4. ASSUME NeighboursOverlap(rs) PROVE \E i, j \in 1..m : i # j /\ Clash(rs[i], rs[j])
  <2>1. PICK i \in 1..m, j \in 1..m :
          /\ Precedes(rs[i], rs[j]) \/ (i < j /\ ~Precedes(rs[j], rs[i]))
          /\ rs[i].end > rs[j].start
    BY <1>4 DEF NeighboursOverlap
  <2> QED BY <1>1, <2>1
<1> QED BY <1>3, <1>4

-----------------------------------------------------------------------------
(* The loop                                                                *)

\* What the request means, and what it is refused for.
Meant ==
  /\ \A i \in DOMAIN edits : Valid(edits[i])
  /\ \A i, j \in DOMAIN edits : i # j => ~Clash(RangeOf(edits[i]), RangeOf(edits[j]))

LEMMA Refusal == RefusedRightly <=> /\ phase = "rejected" => ~Meant
                                    /\ phase \in {"applying", "done"} => Meant
  BY DEF RefusedRightly, Meant

LEMMA RefusalNext ==
  RefusedRightly' <=> /\ phase' = "rejected" => ~Meant'
                      /\ phase' \in {"applying", "done"} => Meant'
<1>1. (RefusedRightly <=> /\ phase = "rejected" => ~Meant
                          /\ phase \in {"applying", "done"} => Meant)'
  BY Refusal, PTL
<1> QED BY <1>1

\* The meaning of a request depends on the text and the request only.
LEMMA Unmoved ==
  ASSUME UNCHANGED <<text, edits>>
  PROVE  /\ Meant' <=> Meant
         /\ [i \in DOMAIN edits |-> RangeOf(edits[i])]' = [i \in DOMAIN edits |-> RangeOf(edits[i])]
<1>0. text' = text /\ edits' = edits
  OBVIOUS
<1>1. Newlines' = Newlines
  BY <1>0 DEF Newlines
<1>2. ASSUME NEW n PROVE LineStarts(n)' = LineStarts(n)
  BY <1>1 DEF LineStarts
<1>3. ASSUME NEW o PROVE LineEnd(o)' = LineEnd(o)
  BY <1>0, <1>1 DEF LineEnd
<1>4. ASSUME NEW a, NEW b PROVE Units(a, b)' = Units(a, b)
  BY <1>0 DEF Units
<1>5. ASSUME NEW pos PROVE Offsets(pos)' = Offsets(pos)
  BY <1>2, <1>3, <1>4 DEF Offsets
<1>6. ASSUME NEW pos PROVE OffsetOf(pos)' = OffsetOf(pos)
  BY <1>5 DEF OffsetOf
<1>7. ASSUME NEW e PROVE (Valid(e)' <=> Valid(e)) /\ RangeOf(e)' = RangeOf(e)
  BY <1>5, <1>6 DEF Valid, RangeOf
<1> QED BY <1>0, <1>7 DEF Meant

\* What has been asked is carried out on the text as it was, and what is still to
\* be carried out lies in the part no edit has touched.
LoopInv ==
  /\ EditTypeOK
  /\ RefusedRightly
  /\ phase = "asking" => patched = text /\ todo = {}
  /\ phase \in {"applying", "done"} => ranges = [i \in DOMAIN edits |-> RangeOf(edits[i])]
  /\ \A i \in todo : ranges[i].end <= Len(patched)

LEMMA LoopInit == EditInit => LoopInv
<1> SUFFICES ASSUME EditInit PROVE LoopInv
  OBVIOUS
<1>1. /\ text \in Texts /\ edits = <<>> /\ phase = "asking"
      /\ ranges = <<>> /\ todo = {} /\ patched = text
  BY DEF EditInit
<1>2. /\ Len(<<>>) = 0 /\ DOMAIN <<>> = {}
      /\ <<>> \in Seq(Edits)
      /\ <<>> \in Seq([start : 0..Len(text), end : 0..Len(text), new : NewTexts])
  OBVIOUS
<1>3. EditTypeOK
  BY <1>1, <1>2, InputAssumption DEF EditTypeOK
<1> QED BY <1>1, <1>3, Refusal DEF LoopInv

\* The edits as ranges, and what the check of neighbours says of them.
LEMMA RangesOfEdits ==
  ASSUME EditTypeOK, \A i \in DOMAIN edits : Valid(edits[i]),
         NEW rs, rs = [i \in DOMAIN edits |-> RangeOf(edits[i])]
  PROVE  /\ rs \in Seq([start : 0..Len(text), end : 0..Len(text), new : NewTexts])
         /\ \A i \in DOMAIN edits : InText(Len(text), rs[i])
         /\ NeighboursOverlap(rs) <=> ~Meant
<1> DEFINE m == Len(edits)
<1>0. text \in Seq(STRING) /\ Len(text) \in Nat
  BY InputAssumption DEF EditTypeOK
<1>1. m \in Nat /\ DOMAIN edits = 1..m /\ \A i \in 1..m : edits[i] \in Edits
  BY DEF EditTypeOK
<1>2. \A i \in 1..m : /\ rs[i] = RangeOf(edits[i])
                      /\ InText(Len(text), rs[i])
                      /\ rs[i] \in [start : 0..Len(text), end : 0..Len(text), new : NewTexts]
  BY <1>0, <1>1, ValidRange
<1>3. DOMAIN rs = 1..m
  BY <1>1
<1>4. NeighboursOverlap(rs) <=> \E i, j \in 1..m : i # j /\ Clash(rs[i], rs[j])
  BY <1>0, <1>1, <1>2, <1>3, NeighboursFindClashes
<1>5. (\E i, j \in 1..m : i # j /\ Clash(rs[i], rs[j])) <=> ~Meant
  <2>1. Meant <=> ~\E i, j \in 1..m : i # j /\ Clash(RangeOf(edits[i]), RangeOf(edits[j]))
    BY <1>1 DEF Meant
  <2> QED BY <1>2, <2>1
<1>6. rs \in Seq([start : 0..Len(text), end : 0..Len(text), new : NewTexts])
  BY <1>1, <1>2, <1>3
<1> QED BY <1>1, <1>2, <1>4, <1>5, <1>6

\* A text in which a range is replaced is a text, and long enough for all that
\* lies in front of the range.
LEMMA SpliceType ==
  ASSUME NEW s \in Seq(STRING), NEW r, r.start \in Nat, r.end \in Nat, r.start <= r.end,
         r.end <= Len(s), r.new \in Seq(STRING)
  PROVE  Splice(s, r) \in Seq(STRING) /\ Len(Splice(s, r)) >= r.start
<1> DEFINE front == SubSeq(s, 1, r.start)
           back == SubSeq(s, r.end + 1, Len(s))
<1>0. Len(s) \in Nat /\ \A i \in 1..Len(s) : s[i] \in STRING
  OBVIOUS
<1>1. front \in Seq(STRING) /\ Len(front) = r.start
  <2>1. \A i \in 1..r.start : s[i] \in STRING
    BY <1>0
  <2>2. /\ SubSeq(s, 1, r.start) \in Seq(STRING)
        /\ Len(SubSeq(s, 1, r.start)) = IF 1 <= r.start THEN r.start - 1 + 1 ELSE 0
    BY <2>1, SubSeqProperties
  <2> QED BY <2>2
<1>2. back \in Seq(STRING) /\ Len(back) \in Nat
  <2>1. \A i \in (r.end + 1)..Len(s) : s[i] \in STRING
    BY <1>0
  <2>2. SubSeq(s, r.end + 1, Len(s)) \in Seq(STRING)
    BY <1>0, <2>1, SubSeqProperties
  <2> QED BY <2>2
<1> HIDE DEF front, back
<1>3. front \o r.new \in Seq(STRING) /\ Len(front \o r.new) = Len(front) + Len(r.new)
  BY <1>1, ConcatProperties
<1>4. /\ (front \o r.new) \o back \in Seq(STRING)
      /\ Len((front \o r.new) \o back) = Len(front \o r.new) + Len(back)
  BY <1>2, <1>3, ConcatProperties
<1>5. Splice(s, r) = (front \o r.new) \o back
  BY DEF Splice, front, back
<1>6. Len(r.new) \in Nat
  OBVIOUS
<1> QED BY <1>1, <1>2, <1>3, <1>4, <1>5, <1>6

\* An edit still to be carried out.
LEMMA TodoTyped ==
  ASSUME LoopInv, phase = "applying", NEW i \in todo
  PROVE  /\ i \in DOMAIN edits /\ ranges[i] = RangeOf(edits[i])
         /\ ranges[i].start \in Nat /\ ranges[i].end \in Nat
         /\ ranges[i].start <= ranges[i].end /\ ranges[i].end <= Len(patched)
         /\ ranges[i].new \in Seq(STRING)
<1>1. /\ i \in DOMAIN ranges /\ DOMAIN ranges = DOMAIN edits
      /\ ranges[i] = RangeOf(edits[i])
  BY DEF LoopInv, EditTypeOK
<1> DEFINE Stretch == [start : 0..Len(text), end : 0..Len(text), new : NewTexts]
<1>2. ranges[i] \in Stretch
  <2>1. ranges \in Seq(Stretch)
    BY DEF LoopInv, EditTypeOK
  <2> HIDE DEF Stretch
  <2> QED BY <1>1, <2>1
<1>3. ranges[i].start \in Nat /\ ranges[i].end \in Nat /\ ranges[i].new \in NewTexts
  BY <1>2
<1>4. ranges[i].start <= ranges[i].end /\ ranges[i].end <= Len(patched)
  BY <1>1 DEF LoopInv, EditTypeOK
<1>5. ranges[i].new \in Seq(STRING)
  BY <1>3, InputAssumption
<1> QED BY <1>1, <1>3, <1>4, <1>5

\* What is left when the last edit has been applied lies in front of it.
LEMMA InFront ==
  ASSUME LoopInv, phase = "applying", NEW i \in todo, ComesNext(i), NEW j \in todo \ {i}
  PROVE  ranges[j].end <= ranges[i].start
<1>1. /\ i \in DOMAIN edits /\ j \in DOMAIN edits /\ i # j
      /\ ranges[i] = RangeOf(edits[i]) /\ ranges[j] = RangeOf(edits[j])
  BY TodoTyped
<1>2. Meant
  BY Refusal DEF LoopInv
<1>3. ~Clash(ranges[i], ranges[j]) /\ ~Clash(ranges[j], ranges[i])
  BY <1>1, <1>2 DEF Meant
<1>4. /\ ranges[i].start \in Nat /\ ranges[i].end \in Nat /\ ranges[i].start <= ranges[i].end
      /\ ranges[j].start \in Nat /\ ranges[j].end \in Nat /\ ranges[j].start <= ranges[j].end
  BY TodoTyped
<1>5. Precedes(ranges[j], ranges[i]) \/ ~Precedes(ranges[i], ranges[j])
  BY DEF ComesNext
<1> QED BY <1>3, <1>4, <1>5 DEF Precedes, Clash, IsInsert

LEMMA LoopNext == LoopInv /\ [EditNext]_editVars => LoopInv'
<1> SUFFICES ASSUME LoopInv, [EditNext]_editVars PROVE LoopInv'
  OBVIOUS
<1>t. EditTypeOK /\ text \in Seq(STRING) /\ Len(text) \in Nat
  BY InputAssumption DEF LoopInv, EditTypeOK
<1>1. CASE AskEdit
  <2>1. PICK e \in Edits : edits' = Append(edits, e)
    BY <1>1 DEF AskEdit
  <2>2. /\ phase = "asking" /\ phase' = "asking" /\ Len(edits) < MaxEdits
        /\ UNCHANGED <<text, ranges, todo, patched>>
    BY <1>1 DEF AskEdit
  <2>3. edits' \in Seq(Edits) /\ Len(edits') = Len(edits) + 1 /\ Len(edits) \in Nat
    BY <1>t, <2>1 DEF EditTypeOK
  <2>4. EditTypeOK'
    BY <1>t, <2>2, <2>3, InputAssumption DEF EditTypeOK
  <2>5. RefusedRightly'
    BY <2>2, RefusalNext
  <2> QED BY <2>2, <2>4, <2>5 DEF LoopInv
<1>2. CASE TextEditRanges
  <2> DEFINE rs == [i \in DOMAIN edits |-> RangeOf(edits[i])]
  <2>1. /\ \A i \in DOMAIN edits : Valid(edits[i])
        /\ ~NeighboursOverlap(rs)
        /\ phase = "asking" /\ phase' = "applying" /\ ranges' = rs /\ todo' = DOMAIN edits
        /\ UNCHANGED <<text, edits, patched>>
    BY <1>2 DEF TextEditRanges
  <2>2. /\ rs \in Seq([start : 0..Len(text), end : 0..Len(text), new : NewTexts])
        /\ \A i \in DOMAIN edits : InText(Len(text), rs[i])
        /\ Meant
    BY <1>t, <2>1, RangesOfEdits
  <2>3. DOMAIN rs = DOMAIN edits
    OBVIOUS
  <2>4. \A i \in DOMAIN edits : rs[i].start <= rs[i].end /\ rs[i].end <= Len(text)
    BY <2>2 DEF InText
  <2> HIDE DEF rs
  <2>5. EditTypeOK'
    BY <1>t, <2>1, <2>2, <2>3, <2>4 DEF EditTypeOK
  <2>6. RefusedRightly'
    <3>1. Meant'
      BY <2>1, <2>2, Unmoved
    <3> QED BY <2>1, <3>1, RefusalNext
  <2>7. ranges' = [i \in DOMAIN edits |-> RangeOf(edits[i])]'
    BY <2>1, Unmoved DEF rs
  <2>8. patched' = text'
    BY <2>1 DEF LoopInv
  <2> QED BY <2>1, <2>3, <2>4, <2>5, <2>6, <2>7, <2>8 DEF LoopInv
<1>3. CASE Reject
  <2>1. /\ phase = "asking" /\ phase' = "rejected" /\ UNCHANGED <<text, edits, ranges, todo, patched>>
    BY <1>3 DEF Reject
  <2>2. ~Meant
    <3>1. CASE \E i \in DOMAIN edits : ~Valid(edits[i])
      BY <3>1 DEF Meant
    <3>2. CASE /\ \A i \in DOMAIN edits : Valid(edits[i])
               /\ NeighboursOverlap([i \in DOMAIN edits |-> RangeOf(edits[i])])
      BY <1>t, <3>2, RangesOfEdits
    <3> QED BY <1>3, <3>1, <3>2 DEF Reject
  <2>3. ~Meant'
    BY <2>1, <2>2, Unmoved
  <2>4. RefusedRightly'
    BY <2>1, <2>3, RefusalNext
  <2>5. EditTypeOK'
    BY <1>t, <2>1 DEF EditTypeOK
  <2> QED BY <2>1, <2>4, <2>5 DEF LoopInv
<1>4. CASE ApplyOne
  <2>1. PICK i \in todo : ComesNext(i) /\ patched' = Splice(patched, ranges[i]) /\ todo' = todo \ {i}
    BY <1>4 DEF ApplyOne
  <2>2. phase = "applying" /\ UNCHANGED <<text, edits, phase, ranges>>
    BY <1>4 DEF ApplyOne
  <2>3. /\ ranges[i].start \in Nat /\ ranges[i].end \in Nat
        /\ ranges[i].start <= ranges[i].end /\ ranges[i].end <= Len(patched)
        /\ ranges[i].new \in Seq(STRING)
    BY <2>1, <2>2, TodoTyped
  <2>4. patched \in Seq(STRING)
    BY DEF LoopInv, EditTypeOK
  <2>5. patched' \in Seq(STRING) /\ Len(patched') >= ranges[i].start
    BY <2>1, <2>3, <2>4, SpliceType
  <2>a. Len(patched') \in Nat
    BY <2>5
  <2>6. ASSUME NEW j \in todo' PROVE ranges'[j].end <= Len(patched')
    <3>1. ranges[j].end <= ranges[i].start
      BY <2>1, <2>2, InFront
    <3>2. ranges[j].end \in Nat
      BY <2>1, <2>2, TodoTyped
    <3> QED BY <2>2, <2>3, <2>5, <2>a, <3>1, <3>2
  <2>7. EditTypeOK'
    BY <1>t, <2>1, <2>2, <2>5 DEF EditTypeOK
  <2>8. RefusedRightly'
    <3>1. Meant' <=> Meant
      BY <2>2, Unmoved
    <3> QED BY <2>2, <3>1, Refusal, RefusalNext DEF LoopInv
  <2>9. ranges' = [k \in DOMAIN edits |-> RangeOf(edits[k])]'
    BY <2>2, Unmoved DEF LoopInv
  <2> QED BY <2>2, <2>6, <2>7, <2>8, <2>9 DEF LoopInv
<1>5. CASE Finish
  <2>1. phase = "applying" /\ phase' = "done" /\ todo = {} /\ UNCHANGED <<text, edits, ranges, todo, patched>>
    BY <1>5 DEF Finish
  <2>2. Meant'
    <3>1. Meant
      BY <2>1, Refusal DEF LoopInv
    <3> QED BY <2>1, <3>1, Unmoved
  <2>3. ranges' = [k \in DOMAIN edits |-> RangeOf(edits[k])]'
    BY <2>1, Unmoved DEF LoopInv
  <2>4. EditTypeOK'
    BY <1>t, <2>1 DEF EditTypeOK
  <2>5. RefusedRightly'
    BY <2>1, <2>2, RefusalNext
  <2> QED BY <2>1, <2>3, <2>4, <2>5 DEF LoopInv
<1>6. CASE UNCHANGED editVars
  <2>1. UNCHANGED <<text, edits, phase, ranges, todo, patched>>
    BY <1>6 DEF editVars
  <2>2. RefusedRightly'
    BY <2>1, Unmoved, Refusal, RefusalNext DEF LoopInv
  <2>3. [k \in DOMAIN edits |-> RangeOf(edits[k])]' = [k \in DOMAIN edits |-> RangeOf(edits[k])]
    BY <2>1, Unmoved
  <2> QED BY <1>t, <2>1, <2>2, <2>3 DEF LoopInv, EditTypeOK
<1> QED BY <1>1, <1>2, <1>3, <1>4, <1>5, <1>6 DEF EditNext

\* Every variable keeps its type: offsets are in the text, and every cut of the
\* text being patched is inside it, for any number of edits (edit_apply.go:189-208).
THEOREM EditTypeOKHolds == EditSpec => []EditTypeOK
<1>1. LoopInv => EditTypeOK
  BY DEF LoopInv
<1> QED BY <1>1, LoopInit, LoopNext, PTL DEF EditSpec

\* A request of any number of edits is refused exactly when a position does not
\* exist in the text or two edits cannot both be meant (edit_apply.go:217-260).
THEOREM RefusedRightlyHolds == EditSpec => []RefusedRightly
<1>1. LoopInv => RefusedRightly
  BY DEF LoopInv
<1> QED BY <1>1, LoopInit, LoopNext, PTL DEF EditSpec

-----------------------------------------------------------------------------
(* Texts put together                                                      *)

\* Texts, for steps that need no more of them than how they are put together.
Words == Seq(STRING)
Cat(U, V) == U \o V

LEMMA Regroup ==
  ASSUME NEW U \in Words, NEW V \in Words, NEW W \in Words
  PROVE  Cat(U, V) \in Words /\ Cat(Cat(U, V), W) = Cat(U, Cat(V, W))
<1>1. U \o V \in Words
  BY ConcatProperties DEF Words
<1>2. (U \o V) \o W = U \o (V \o W)
  BY ConcatAssociative DEF Words
<1> QED BY <1>1, <1>2 DEF Cat

LEMMA RegroupFour ==
  ASSUME NEW U \in Words, NEW N \in Words, NEW new \in Words, NEW rest \in Words
  PROVE  Cat(Cat(U, Cat(N, new)), rest) = Cat(Cat(U, N), Cat(new, rest))
<1>1. Cat(U, Cat(N, new)) = Cat(Cat(U, N), new)
  BY Regroup
<1>2. Cat(Cat(Cat(U, N), new), rest) = Cat(Cat(U, N), Cat(new, rest))
  BY Regroup
<1> QED BY <1>1, <1>2

LEMMA RegroupFive ==
  ASSUME NEW U \in Words, NEW N \in Words, NEW new \in Words, NEW one \in Words, NEW rest \in Words
  PROVE  Cat(Cat(U, Cat(Cat(N, new), one)), rest) = Cat(Cat(U, N), Cat(new, Cat(one, rest)))
<1>1. Cat(Cat(N, new), one) = Cat(N, Cat(new, one)) /\ Cat(new, one) \in Words
  BY Regroup
<1>2. Cat(Cat(U, Cat(N, Cat(new, one))), rest) = Cat(Cat(U, N), Cat(Cat(new, one), rest))
  BY <1>1, RegroupFour
<1>3. Cat(Cat(new, one), rest) = Cat(new, Cat(one, rest))
  BY Regroup
<1> QED BY <1>1, <1>2, <1>3

\* f[n] is what the first n of ss are together.
IsFlat(f, ss, n) == f = [i \in 1..n |-> IF i = 1 THEN ss[i] ELSE f[i - 1] \o ss[i]]

LEMMA FlatExists ==
  ASSUME NEW ss, NEW n \in Nat
  PROVE  \E f : IsFlat(f, ss, n)
<1> DEFINE T == {k \in Nat : ~\E f : IsFlat(f, ss, k)}
<1>1. SUFFICES ASSUME T # {} PROVE FALSE
  OBVIOUS
<1>2. PICK m \in T : \A k \in T : m <= k
  BY <1>1, Least, T \in SUBSET Nat
<1>3. CASE m = 0
  <2> DEFINE h == [i \in 1..0 |-> <<>>]
  <2>1. IsFlat(h, ss, 0)
    BY DEF IsFlat
  <2> QED BY <1>2, <1>3, <2>1
<1>4. CASE m # 0
  <2>1. m \in Nat /\ m - 1 \in Nat /\ m - 1 \notin T
    BY <1>2, <1>4
  <2>2. PICK f : IsFlat(f, ss, m - 1)
    BY <2>1
  <2> DEFINE last == IF m = 1 THEN ss[m] ELSE f[m - 1] \o ss[m]
             h == [i \in 1..m |-> IF i = m THEN last ELSE f[i]]
  <2>3. ASSUME NEW i \in 1..m PROVE h[i] = IF i = 1 THEN ss[i] ELSE h[i - 1] \o ss[i]
    <3>1. CASE i = m
      <4>1. m # 1 => h[i - 1] = f[m - 1]
        BY <2>1, <3>1
      <4> QED BY <3>1, <4>1
    <3>2. CASE i # m
      <4>1. i \in 1..(m - 1) /\ h[i] = f[i] /\ (i # 1 => h[i - 1] = f[i - 1])
        BY <2>1, <3>2
      <4>2. f[i] = IF i = 1 THEN ss[i] ELSE f[i - 1] \o ss[i]
        BY <2>2, <4>1 DEF IsFlat
      <4> QED BY <4>1, <4>2
    <3> QED BY <3>1, <3>2
  <2>4. h = [i \in 1..m |-> h[i]]
    OBVIOUS
  <2> HIDE DEF h
  <2>5. IsFlat(h, ss, m)
    BY <2>3, <2>4 DEF IsFlat
  <2> QED BY <1>2, <2>5
<1> QED BY <1>3, <1>4

\* What the first n of ss are together.
Flat(ss, n) == IF n = 0 THEN <<>> ELSE (CHOOSE f : IsFlat(f, ss, Len(ss)))[n]

LEMMA FlatStep ==
  ASSUME NEW S, NEW ss \in Seq(Seq(S))
  PROVE  /\ Flat(ss, 0) = <<>>
         /\ \A n \in 1..Len(ss) : Flat(ss, n) = Flat(ss, n - 1) \o ss[n]
         /\ \A n \in 0..Len(ss) : Flat(ss, n) \in Seq(S)
         /\ FlattenSeq(ss) = Flat(ss, Len(ss))
<1> DEFINE f == CHOOSE g : IsFlat(g, ss, Len(ss))
<1>0. Len(ss) \in Nat /\ \A i \in 1..Len(ss) : ss[i] \in Seq(S)
  OBVIOUS
<1>1. IsFlat(f, ss, Len(ss))
  BY <1>0, FlatExists
<1>2. Flat(ss, 0) = <<>> /\ \A n \in Nat : n # 0 => Flat(ss, n) = f[n]
  BY DEF Flat
<1>3. FlattenSeq(ss) = Flat(ss, Len(ss))
  <2>1. CASE Len(ss) = 0
    BY <2>1, <1>2 DEF FlattenSeq
  <2>2. CASE Len(ss) # 0
    BY <2>2 DEF FlattenSeq, Flat, IsFlat
  <2> QED BY <2>1, <2>2
<1> HIDE DEF f
<1>4. ASSUME NEW n \in 1..Len(ss) PROVE Flat(ss, n) = Flat(ss, n - 1) \o ss[n]
  <2>1. f[n] = IF n = 1 THEN ss[n] ELSE f[n - 1] \o ss[n]
    BY <1>0, <1>1 DEF IsFlat
  <2>2. CASE n = 1
    <3>1. <<>> \o ss[n] = ss[n]
      BY <1>0, ConcatEmptySeq
    <3> QED BY <1>2, <2>1, <2>2, <3>1
  <2>3. CASE n # 1
    <3>1. n \in Nat /\ n # 0 /\ n - 1 \in Nat /\ n - 1 # 0
      BY <1>0, <2>3
    <3> QED BY <1>2, <2>1, <2>3, <3>1
  <2> QED BY <2>2, <2>3
<1>5. ASSUME NEW n \in 0..Len(ss) PROVE Flat(ss, n) \in Seq(S)
  <2> DEFINE T == {k \in 0..Len(ss) : Flat(ss, k) \notin Seq(S)}
  <2>1. SUFFICES ASSUME T # {} PROVE FALSE
    OBVIOUS
  <2>2. PICK m \in T : \A k \in T : m <= k
    BY <1>0, <2>1, Least, T \in SUBSET Nat
  <2>3. m # 0
    BY <1>2, <2>2, EmptySeq
  <2>4. m \in 1..Len(ss) /\ m - 1 \in 0..Len(ss) /\ m - 1 \notin T
    BY <1>0, <2>2, <2>3
  <2>5. Flat(ss, m - 1) \in Seq(S)
    BY <2>4
  <2>6. Flat(ss, m) = Flat(ss, m - 1) \o ss[m]
    BY <1>4, <2>4
  <2>7. ss[m] \in Seq(S)
    BY <1>0, <2>4
  <2> DEFINE front == Flat(ss, m - 1)
             last == ss[m]
  <2>8. front \in Seq(S) /\ last \in Seq(S) /\ Flat(ss, m) = front \o last
    BY <2>5, <2>6, <2>7
  <2> HIDE DEF front, last
  <2>9. front \o last \in Seq(S)
    BY <2>8, ConcatProperties
  <2> QED BY <2>2, <2>8, <2>9
<1> QED BY <1>2, <1>3, <1>4, <1>5

\* If all but one are empty, they are that one together.
LEMMA FlattenOne ==
  ASSUME NEW S, NEW ss \in Seq(Seq(S)), NEW i \in 1..Len(ss), \A j \in 1..Len(ss) : j # i => ss[j] = <<>>
  PROVE  FlattenSeq(ss) = ss[i]
<1> DEFINE upto(k) == IF k < i THEN <<>> ELSE ss[i]
           T == {k \in 0..Len(ss) : Flat(ss, k) # upto(k)}
<1>0. Len(ss) \in Nat /\ \A j \in 1..Len(ss) : ss[j] \in Seq(S)
  OBVIOUS
<1>f. /\ Flat(ss, 0) = <<>>
      /\ \A n \in 1..Len(ss) : Flat(ss, n) = Flat(ss, n - 1) \o ss[n]
      /\ FlattenSeq(ss) = Flat(ss, Len(ss))
  BY FlatStep
<1>1. T = {}
  <2>1. SUFFICES ASSUME T # {} PROVE FALSE
    OBVIOUS
  <2>2. PICK m \in T : \A k \in T : m <= k
    BY <1>0, <2>1, Least, T \in SUBSET Nat
  <2>3. m # 0
    <3>1. upto(0) = <<>>
      BY <1>0
    <3> QED BY <1>f, <2>2, <3>1
  <2>4. m \in 1..Len(ss) /\ m - 1 \in 0..Len(ss) /\ m - 1 \notin T
    BY <1>0, <2>2, <2>3
  <2>5. Flat(ss, m) = upto(m - 1) \o ss[m]
    BY <1>f, <2>4
  <2>6. <<>> \o ss[m] = ss[m] /\ ss[i] \o <<>> = ss[i] /\ <<>> \o <<>> = <<>>
    BY <1>0, <2>4, ConcatEmptySeq, EmptySeq
  <2>7. CASE m < i
    <3>1. ss[m] = <<>> /\ upto(m - 1) = <<>> /\ upto(m) = <<>>
      BY <2>4, <2>7
    <3> QED BY <2>2, <2>5, <2>6, <3>1
  <2>8. CASE m = i
    <3>1. upto(m - 1) = <<>> /\ upto(m) = ss[m]
      BY <2>4, <2>8
    <3> QED BY <2>2, <2>5, <2>6, <3>1
  <2>9. CASE m > i
    <3>1. ss[m] = <<>> /\ upto(m - 1) = ss[i] /\ upto(m) = ss[i]
      BY <2>4, <2>9
    <3> QED BY <2>2, <2>5, <2>6, <3>1
  <2> QED BY <2>4, <2>7, <2>8, <2>9
<1>2. Flat(ss, Len(ss)) = upto(Len(ss)) /\ upto(Len(ss)) = ss[i]
  BY <1>0, <1>1
<1> QED BY <1>f, <1>2

\* If all are empty, they are empty together.
LEMMA FlattenNone ==
  ASSUME NEW S, NEW ss \in Seq(Seq(S)), \A j \in 1..Len(ss) : ss[j] = <<>>
  PROVE  FlattenSeq(ss) = <<>>
<1>1. CASE Len(ss) = 0
  BY <1>1, FlatStep
<1>2. CASE Len(ss) # 0
  <2>1. 1 \in 1..Len(ss)
    BY <1>2
  <2> QED BY <2>1, FlattenOne
<1> QED BY <1>1, <1>2

\* If nothing comes behind the one in which two lists differ, and one lacks it, the
\* other is the same with it at the end.
LEMMA FlattenLast ==
  ASSUME NEW S, NEW ss \in Seq(Seq(S)), NEW tt \in Seq(Seq(S)), Len(tt) = Len(ss), NEW i \in 1..Len(ss),
         \A j \in 1..Len(ss) : j < i => tt[j] = ss[j],
         \A j \in 1..Len(ss) : j > i => ss[j] = <<>>,
         \A j \in 1..Len(ss) : j >= i => tt[j] = <<>>
  PROVE  FlattenSeq(ss) = Cat(FlattenSeq(tt), ss[i])
<1> DEFINE n == Len(ss)
           with(k) == IF k < i THEN Flat(tt, k) ELSE Cat(Flat(tt, k), ss[i])
           T == {k \in 0..n : Flat(ss, k) # with(k)}
           Lists == Seq(S)
<1>0. n \in Nat /\ i \in Nat /\ i \in 1..n
  OBVIOUS
<1>f. /\ Flat(ss, 0) = <<>> /\ Flat(tt, 0) = <<>>
      /\ \A k \in 1..n : Flat(ss, k) = Cat(Flat(ss, k - 1), ss[k])
      /\ \A k \in 1..n : Flat(tt, k) = Cat(Flat(tt, k - 1), tt[k])
      /\ \A k \in 0..n : Flat(tt, k) \in Lists
      /\ \A k \in 0..n : Flat(ss, k) \in Lists
      /\ FlattenSeq(ss) = Flat(ss, n) /\ FlattenSeq(tt) = Flat(tt, n)
  BY FlatStep DEF Cat
<1>e. \A l \in Lists : Cat(l, <<>>) = l
  BY ConcatEmptySeq DEF Cat
<1>w. /\ \A k \in Nat : k < i => with(k) = Flat(tt, k)
      /\ \A k \in Nat : ~(k < i) => with(k) = Cat(Flat(tt, k), ss[i])
  OBVIOUS
<1>i. /\ \A k \in 1..n : k < i => tt[k] = ss[k]
      /\ \A k \in 1..n : k > i => ss[k] = <<>>
      /\ \A k \in 1..n : k >= i => tt[k] = <<>>
  OBVIOUS
<1> HIDE DEF with, n, Lists
<1>1. T = {}
  <2>1. SUFFICES ASSUME T # {} PROVE FALSE
    OBVIOUS
  <2>2. PICK m \in T : \A k \in T : m <= k
    BY ONLY <1>0, <2>1, Least, T \in SUBSET Nat
  <2>3. m # 0
    <3>1. with(0) = <<>>
      BY ONLY <1>0, <1>f, <1>w
    <3> QED BY ONLY <1>f, <2>2, <3>1
  <2>4. m \in 1..n /\ m - 1 \in 0..n /\ m \in 0..n /\ m - 1 \notin T /\ m \in Nat /\ m - 1 \in Nat
    BY ONLY <1>0, <2>2, <2>3
  <2>5. Flat(ss, m - 1) = with(m - 1) /\ Flat(ss, m) # with(m)
    BY ONLY <2>2, <2>4
  <2>6. Flat(ss, m) = Cat(Flat(ss, m - 1), ss[m]) /\ Flat(tt, m) = Cat(Flat(tt, m - 1), tt[m])
    BY ONLY <1>f, <2>4
  <2>7. CASE m < i
    <3>1. m - 1 < i
      BY ONLY <1>0, <2>4, <2>7
    <3>2. with(m - 1) = Flat(tt, m - 1) /\ with(m) = Flat(tt, m) /\ tt[m] = ss[m]
      BY ONLY <1>i, <1>w, <2>4, <2>7, <3>1
    <3> QED BY ONLY <2>5, <2>6, <3>2
  <2>8. CASE m >= i
    <3>1. Flat(tt, m) = Flat(tt, m - 1)
      <4>1. Flat(tt, m - 1) \in Lists /\ tt[m] = <<>>
        BY ONLY <1>f, <1>i, <2>4, <2>8
      <4> QED BY ONLY <1>e, <2>6, <4>1
    <3>2. CASE m = i
      <4>1. m - 1 < i /\ ~(m < i)
        BY ONLY <1>0, <2>4, <3>2
      <4>2. with(m - 1) = Flat(tt, m - 1) /\ with(m) = Cat(Flat(tt, m), ss[m])
        BY ONLY <1>w, <2>4, <3>2, <4>1
      <4> QED BY ONLY <2>5, <2>6, <3>1, <4>2
    <3>3. CASE m > i
      <4>1. ~(m - 1 < i) /\ ~(m < i)
        BY ONLY <1>0, <2>4, <3>3
      <4>2. with(m - 1) = Cat(Flat(tt, m - 1), ss[i]) /\ with(m) = Cat(Flat(tt, m), ss[i]) /\ ss[m] = <<>>
        BY ONLY <1>i, <1>w, <2>4, <3>3, <4>1
      <4>3. Flat(ss, m - 1) \in Lists
        BY ONLY <1>f, <2>4
      <4>4. Flat(ss, m) = Flat(ss, m - 1)
        BY ONLY <1>e, <2>6, <4>2, <4>3
      <4> QED BY ONLY <2>5, <3>1, <4>2, <4>4
    <3> QED BY ONLY <1>0, <2>4, <2>8, <3>2, <3>3
  <2> QED BY ONLY <1>0, <2>4, <2>7, <2>8
<1>2. Flat(ss, n) = with(n) /\ with(n) = Cat(Flat(tt, n), ss[i])
  <2>1. n \in 0..n /\ ~(n < i) /\ n \in Nat
    BY ONLY <1>0
  <2>2. Flat(ss, n) = with(n)
    BY ONLY <1>1, <2>1
  <2> QED BY ONLY <1>w, <2>1, <2>2
<1> QED BY ONLY <1>f, <1>2

-----------------------------------------------------------------------------
(* The pieces of the result                                                *)

\* Inserts at o, or replacements that begin there.
Put(i, o, insert) == ranges[i].start = o /\ IsInsert(ranges[i]) = insert

\* The k-th edit of the request from behind.
Back(k) == (Len(ranges) - k) + 1

\* What those of td put at offset o, inserts or replacements, the last first.
DueOf(o, insert, td) ==
  [k \in 1..Len(ranges) |-> IF Back(k) \in td /\ Put(Back(k), o, insert) THEN ranges[Back(k)].new ELSE <<>>]
Due(o, insert, td) == FlattenSeq(DueOf(o, insert, td))

\* The result, piece by piece: what the edits put at offset o, and the character
\* behind it if it is kept.
News(o, insert) == Due(o, insert, DOMAIN ranges)
Kept(o) ==
  IF o = Len(text) \/ \E i \in DOMAIN ranges : ranges[i].start <= o /\ o < ranges[i].end
  THEN <<>> ELSE <<text[o + 1]>>
Piece(o) == News(o, TRUE) \o News(o, FALSE) \o Kept(o)
Pieces == [k \in 1..(Len(text) + 1) |-> Piece(k - 1)]
Result == FlattenSeq(Pieces)

\* The result up to offset c, before what is put there.
Upto(c) == Flat(Pieces, c)

\* The edits as ranges in the text of which no two clash.
Ranged ==
  /\ text \in Seq(STRING)
  /\ Len(ranges) \in Nat /\ DOMAIN ranges = 1..Len(ranges)
  /\ \A i \in DOMAIN ranges :
       /\ ranges[i].start \in Nat /\ ranges[i].end \in Nat /\ ranges[i].new \in Seq(STRING)
       /\ ranges[i].start <= ranges[i].end /\ ranges[i].end <= Len(text)
  /\ \A i, j \in DOMAIN ranges : i # j => ~Clash(ranges[i], ranges[j])

LEMMA BackTurns ==
  ASSUME Ranged, NEW k \in 1..Len(ranges)
  PROVE  Back(k) \in 1..Len(ranges) /\ Back(k) \in DOMAIN ranges /\ Back(Back(k)) = k
BY DEF Ranged, Back

LEMMA DueSeq ==
  ASSUME Ranged, NEW o, NEW b \in BOOLEAN, NEW td
  PROVE  /\ DueOf(o, b, td) \in Seq(Seq(STRING))
         /\ Len(DueOf(o, b, td)) = Len(ranges)
         /\ \A k \in 1..Len(ranges) :
              DueOf(o, b, td)[k] = IF Back(k) \in td /\ Put(Back(k), o, b) THEN ranges[Back(k)].new ELSE <<>>
         /\ Due(o, b, td) \in Seq(STRING)
<1> DEFINE ss == DueOf(o, b, td)
<1>1. Len(ranges) \in Nat /\ \A k \in 1..Len(ranges) : ranges[Back(k)].new \in Seq(STRING)
  BY BackTurns DEF Ranged
<1>2. /\ ss = [k \in 1..Len(ranges) |-> ss[k]]
      /\ \A k \in 1..Len(ranges) :
           ss[k] = IF Back(k) \in td /\ Put(Back(k), o, b) THEN ranges[Back(k)].new ELSE <<>>
  BY DEF DueOf
<1>3. Due(o, b, td) = FlattenSeq(ss)
  BY DEF Due
<1> HIDE DEF ss
<1>4. \A k \in 1..Len(ranges) : ss[k] \in Seq(STRING)
  BY <1>1, <1>2, EmptySeq
<1> DEFINE T == Seq(STRING)
<1> HIDE DEF T
<1>5. ss \in Seq(T) /\ Len(ss) = Len(ranges)
  <2>1. \A k \in 1..Len(ranges) : ss[k] \in T
    BY <1>4 DEF T
  <2> QED BY <1>1, <1>2, <2>1
<1>6. ss \in Seq(Seq(STRING)) /\ Len(ss) = Len(ranges)
  BY <1>5 DEF T
<1>7. FlattenSeq(ss) \in Seq(STRING)
  <2>1. /\ FlattenSeq(ss) = Flat(ss, Len(ss))
        /\ \A n \in 0..Len(ss) : Flat(ss, n) \in Seq(STRING)
    BY <1>6, FlatStep
  <2>2. Len(ss) \in 0..Len(ss)
    BY <1>1, <1>6
  <2> QED BY <2>1, <2>2
<1> QED BY <1>2, <1>3, <1>6, <1>7 DEF ss

\* What is put at o is of the one edit that puts something there, ...
LEMMA DueOne ==
  ASSUME Ranged, NEW o, NEW b \in BOOLEAN, NEW td, NEW i \in td, i \in DOMAIN ranges, Put(i, o, b),
         \A j \in td : j # i => ~Put(j, o, b)
  PROVE  Due(o, b, td) = ranges[i].new
<1>1. i \in 1..Len(ranges)
  BY DEF Ranged
<1>2. Back(i) \in 1..Len(ranges) /\ Back(Back(i)) = i
  BY <1>1, BackTurns
<1>3. ASSUME NEW k \in 1..Len(ranges), k # Back(i) PROVE DueOf(o, b, td)[k] = <<>>
  <2>1. Back(k) # i
    BY <1>3, BackTurns
  <2> QED BY <2>1, DueSeq
<1>4. DueOf(o, b, td)[Back(i)] = ranges[i].new
  BY <1>2, DueSeq
<1>5. DueOf(o, b, td) \in Seq(Seq(STRING)) /\ Len(DueOf(o, b, td)) = Len(ranges)
  BY DueSeq
<1> QED BY <1>2, <1>3, <1>4, <1>5, FlattenOne DEF Due

\* ... nothing if there is none, ...
LEMMA DueNone ==
  ASSUME Ranged, NEW o, NEW b \in BOOLEAN, NEW td, \A j \in td : ~Put(j, o, b)
  PROVE  Due(o, b, td) = <<>>
<1>1. \A k \in 1..Len(DueOf(o, b, td)) : DueOf(o, b, td)[k] = <<>>
  BY DueSeq
<1> QED BY <1>1, DueSeq, FlattenNone DEF Due

\* ... it depends on nothing but those that put something there, ...
LEMMA DueSame ==
  ASSUME Ranged, NEW o, NEW b \in BOOLEAN, NEW td, NEW sd,
         \A j \in DOMAIN ranges : Put(j, o, b) => (j \in td <=> j \in sd)
  PROVE  Due(o, b, td) = Due(o, b, sd)
<1>1. ASSUME NEW k \in 1..Len(ranges)
      PROVE  (Back(k) \in td /\ Put(Back(k), o, b)) <=> (Back(k) \in sd /\ Put(Back(k), o, b))
  BY BackTurns
<1>2. DueOf(o, b, td) = DueOf(o, b, sd)
  BY <1>1 DEF DueOf
<1> QED BY <1>2 DEF Due

\* ... and the first edit of the request comes last.
LEMMA DueLast ==
  ASSUME Ranged, NEW o, NEW td \in SUBSET DOMAIN ranges, NEW i \in td, Put(i, o, TRUE),
         \A j \in td : j # i /\ Put(j, o, TRUE) => i < j
  PROVE  Due(o, TRUE, td) = Cat(Due(o, TRUE, td \ {i}), ranges[i].new)
<1>0. Len(ranges) \in Nat /\ DOMAIN ranges = 1..Len(ranges) /\ i \in 1..Len(ranges)
  BY DEF Ranged
<1> DEFINE n == Len(ranges)
           ss == DueOf(o, TRUE, td)
           tt == DueOf(o, TRUE, td \ {i})
<1>1. Back(i) \in 1..n /\ Back(Back(i)) = i
  BY <1>0, BackTurns
<1>2. /\ ss \in Seq(Seq(STRING)) /\ Len(ss) = n
      /\ \A k \in 1..n : ss[k] = IF Back(k) \in td /\ Put(Back(k), o, TRUE) THEN ranges[Back(k)].new ELSE <<>>
  BY DueSeq, TRUE \in BOOLEAN
<1>3. /\ tt \in Seq(Seq(STRING)) /\ Len(tt) = n
      /\ \A k \in 1..n :
           tt[k] = IF Back(k) \in td \ {i} /\ Put(Back(k), o, TRUE) THEN ranges[Back(k)].new ELSE <<>>
  BY DueSeq, TRUE \in BOOLEAN
<1> HIDE DEF ss, tt
<1>4. ASSUME NEW k \in 1..n, k # Back(i) PROVE tt[k] = ss[k] /\ (k > Back(i) => ss[k] = <<>>)
  <2>1. Back(k) # i /\ Back(k) \in 1..n
    BY <1>4, BackTurns
  <2>2. tt[k] = ss[k]
    BY <1>2, <1>3, <2>1
  <2>3. ASSUME k > Back(i) PROVE ss[k] = <<>>
    <3>1. Back(k) < i
      BY <1>0, <2>3 DEF Back
    <3>2. ~(i < Back(k))
      BY <1>0, <2>1, <3>1
    <3>3. ~(Back(k) \in td /\ Put(Back(k), o, TRUE))
      BY <2>1, <3>2
    <3> QED BY <1>2, <3>3
  <2> QED BY <2>2, <2>3
<1>5. ss[Back(i)] = ranges[i].new /\ tt[Back(i)] = <<>>
  BY <1>1, <1>2, <1>3
<1>6. /\ \A k \in 1..n : k < Back(i) => tt[k] = ss[k]
      /\ \A k \in 1..n : k > Back(i) => ss[k] = <<>>
      /\ \A k \in 1..n : k >= Back(i) => tt[k] = <<>>
  <2>1. n \in Nat /\ Back(i) \in Nat
    BY <1>0, <1>1
  <2>2. ASSUME NEW k \in 1..n, k >= Back(i) PROVE tt[k] = <<>>
    <3>1. CASE k = Back(i)
      BY <1>5, <3>1
    <3>2. CASE k > Back(i)
      <4>1. k # Back(i)
        BY <2>1, <3>2
      <4> QED BY <1>4, <3>2, <4>1
    <3> QED BY <2>1, <2>2, <3>1, <3>2
  <2>3. ASSUME NEW k \in 1..n, k < Back(i) PROVE tt[k] = ss[k]
    BY <1>4, <2>1, <2>3
  <2>4. ASSUME NEW k \in 1..n, k > Back(i) PROVE ss[k] = <<>>
    BY <1>4, <2>1, <2>4
  <2> QED BY <2>2, <2>3, <2>4
<1>7. FlattenSeq(ss) = Cat(FlattenSeq(tt), ss[Back(i)])
  <2>1. ss \in Seq(Seq(STRING)) /\ tt \in Seq(Seq(STRING)) /\ Len(tt) = Len(ss) /\ Back(i) \in 1..Len(ss)
    BY <1>1, <1>2, <1>3
  <2>2. /\ \A k \in 1..Len(ss) : k < Back(i) => tt[k] = ss[k]
        /\ \A k \in 1..Len(ss) : k > Back(i) => ss[k] = <<>>
        /\ \A k \in 1..Len(ss) : k >= Back(i) => tt[k] = <<>>
    BY <1>2, <1>6
  <2> QED BY ONLY <2>1, <2>2, FlattenLast
<1> QED BY <1>5, <1>7 DEF Due, ss, tt

\* The result is what the request read backwards means.
LEMMA ResultIs == Ranged => AtOnce(Reverse(ranges)) = Result
<1> SUFFICES ASSUME Ranged PROVE AtOnce(Reverse(ranges)) = Result
  OBVIOUS
<1> DEFINE rs == Reverse(ranges)
           n == Len(ranges)
           newsOf(o, b) == [k \in DOMAIN rs |-> IF rs[k].start = o /\ IsInsert(rs[k]) = b THEN rs[k].new ELSE <<>>]
           kept(o) == IF o = Len(text) \/ \E k \in DOMAIN rs : rs[k].start <= o /\ o < rs[k].end
                      THEN <<>> ELSE <<text[o + 1]>>
<1>1. DOMAIN rs = 1..n /\ \A k \in 1..n : rs[k] = ranges[Back(k)]
  BY DEF Reverse, Back
<1>2. AtOnce(rs) = FlattenSeq([k \in 1..(Len(text) + 1) |->
                     FlattenSeq(newsOf(k - 1, TRUE)) \o FlattenSeq(newsOf(k - 1, FALSE)) \o kept(k - 1)])
  BY DEF AtOnce
<1> HIDE DEF rs
<1>3. ASSUME NEW o, NEW b PROVE newsOf(o, b) = DueOf(o, b, DOMAIN ranges)
  <2>1. ASSUME NEW k \in 1..n
        PROVE  (rs[k].start = o /\ IsInsert(rs[k]) = b) <=> (Back(k) \in DOMAIN ranges /\ Put(Back(k), o, b))
    BY <1>1, BackTurns DEF Put
  <2> QED BY <1>1, <2>1 DEF DueOf
<1>4. ASSUME NEW o PROVE kept(o) = Kept(o)
  <2>1. (\E k \in DOMAIN rs : rs[k].start <= o /\ o < rs[k].end) <=>
          (\E i \in DOMAIN ranges : ranges[i].start <= o /\ o < ranges[i].end)
    <3>1. ASSUME NEW k \in DOMAIN rs, rs[k].start <= o, o < rs[k].end
          PROVE  \E i \in DOMAIN ranges : ranges[i].start <= o /\ o < ranges[i].end
      BY <1>1, <3>1, BackTurns
    <3>2. ASSUME NEW i \in DOMAIN ranges, ranges[i].start <= o, o < ranges[i].end
          PROVE  \E k \in DOMAIN rs : rs[k].start <= o /\ o < rs[k].end
      <4>1. i \in 1..n
        BY DEF Ranged
      <4>2. Back(i) \in DOMAIN rs /\ rs[Back(i)] = ranges[i]
        BY <1>1, <4>1, BackTurns
      <4> QED BY <3>2, <4>2
    <3> QED BY <3>1, <3>2
  <2> QED BY <2>1 DEF Kept
<1> HIDE DEF newsOf, kept
<1>5. ASSUME NEW o PROVE FlattenSeq(newsOf(o, TRUE)) \o FlattenSeq(newsOf(o, FALSE)) \o kept(o) = Piece(o)
  BY <1>3, <1>4 DEF Piece, News, Due
<1> QED BY <1>2, <1>5 DEF Result, Pieces, rs

LEMMA PieceType ==
  ASSUME Ranged, NEW o \in 0..Len(text)
  PROVE  Kept(o) \in Seq(STRING) /\ Piece(o) \in Seq(STRING)
<1>0. text \in Seq(STRING) /\ Len(text) \in Nat
  BY DEF Ranged
<1>1. Kept(o) \in Seq(STRING)
  <2>1. CASE o = Len(text) \/ \E i \in DOMAIN ranges : ranges[i].start <= o /\ o < ranges[i].end
    BY <2>1, EmptySeq DEF Kept
  <2>2. CASE ~(o = Len(text) \/ \E i \in DOMAIN ranges : ranges[i].start <= o /\ o < ranges[i].end)
    <3>1. text[o + 1] \in STRING
      BY <1>0, <2>2
    <3> QED BY <2>2, <3>1 DEF Kept
  <2> QED BY <2>1, <2>2
<1>2. News(o, TRUE) \in Seq(STRING) /\ News(o, FALSE) \in Seq(STRING)
  BY DueSeq DEF News
<1> QED BY <1>1, <1>2, ConcatProperties DEF Piece

\* The result, one piece at a time.
LEMMA UptoStep ==
  ASSUME Ranged
  PROVE  /\ Upto(0) = <<>>
         /\ \A c \in 0..Len(text) : Upto(c + 1) = Upto(c) \o Piece(c)
         /\ \A c \in 0..(Len(text) + 1) : Upto(c) \in Seq(STRING)
         /\ \A c \in 0..Len(text) : Upto(c) \in Seq(STRING)
         /\ Result = Upto(Len(text) + 1)
<1>0. Len(text) \in Nat
  BY DEF Ranged
<1>1. Pieces \in Seq(Seq(STRING)) /\ Len(Pieces) = Len(text) + 1
  <2>1. \A k \in 1..(Len(text) + 1) : Piece(k - 1) \in Seq(STRING)
    BY <1>0, PieceType
  <2> QED BY <1>0, <2>1 DEF Pieces
<1>2. /\ Flat(Pieces, 0) = <<>>
      /\ \A n \in 1..Len(Pieces) : Flat(Pieces, n) = Flat(Pieces, n - 1) \o Pieces[n]
      /\ \A n \in 0..Len(Pieces) : Flat(Pieces, n) \in Seq(STRING)
      /\ FlattenSeq(Pieces) = Flat(Pieces, Len(Pieces))
  BY <1>1, FlatStep
<1>3. ASSUME NEW c \in 0..Len(text) PROVE Upto(c + 1) = Upto(c) \o Piece(c)
  <2>1. c + 1 \in 1..(Len(text) + 1) /\ (c + 1) - 1 = c
    BY <1>0
  <2>2. Pieces[c + 1] = Piece(c)
    BY <2>1 DEF Pieces
  <2> QED BY <1>1, <1>2, <2>1, <2>2 DEF Upto
<1> QED BY <1>1, <1>2, <1>3 DEF Upto, Result

Covered(o) == \E i \in DOMAIN ranges : ranges[i].start <= o /\ o < ranges[i].end
Bare(o) == \A i \in DOMAIN ranges : ranges[i].start # o

\* Where nothing is put, the character is kept or covered.
LEMMA BarePiece ==
  ASSUME Ranged, NEW o \in 0..Len(text), Bare(o)
  PROVE  Piece(o) = Kept(o)
<1>1. News(o, TRUE) = <<>> /\ News(o, FALSE) = <<>>
  <2>1. \A j \in DOMAIN ranges : ~Put(j, o, TRUE) /\ ~Put(j, o, FALSE)
    BY DEF Bare, Put
  <2> QED BY <2>1, DueNone DEF News
<1>2. Kept(o) \in Seq(STRING)
  BY PieceType
<1>3. <<>> \o <<>> = <<>> /\ <<>> \o Kept(o) = Kept(o)
  BY <1>2, ConcatEmptySeq, EmptySeq
<1> QED BY <1>1, <1>3 DEF Piece

\* A stretch of text that no edit touches comes out as it is, ...
LEMMA Untouched ==
  ASSUME Ranged, NEW a \in 0..Len(text), NEW b \in a..Len(text),
         \A o \in a..(b - 1) : Bare(o) /\ ~Covered(o)
  PROVE  Upto(b) = Upto(a) \o SubSeq(text, a + 1, b)
<1> DEFINE through(k) == Upto(a) \o SubSeq(text, a + 1, k)
           T == {k \in a..b : Upto(k) # through(k)}
<1>0. Len(text) \in Nat /\ text \in Seq(STRING) /\ a \in Nat /\ b \in Nat /\ a <= b /\ b <= Len(text)
  BY DEF Ranged
<1>u. /\ \A c \in 0..Len(text) : Upto(c + 1) = Upto(c) \o Piece(c)
      /\ \A c \in 0..Len(text) : Upto(c) \in Seq(STRING)
  BY UptoStep
<1>1. SUFFICES ASSUME T # {} PROVE FALSE
  <2> HIDE DEF through
  <2>1. T = {} => Upto(b) = through(b)
    BY <1>0
  <2> QED BY <2>1 DEF through
<1> HIDE DEF through
<1>2. PICK m \in T : \A k \in T : m <= k
  BY <1>0, <1>1, Least, T \in SUBSET Nat
<1>3. m # a
  <2>1. SubSeq(text, a + 1, a) = <<>>
    BY <1>0, SubSeqEmpty
  <2>2. Upto(a) \o <<>> = Upto(a)
    BY <1>0, <1>u, ConcatEmptySeq
  <2>3. through(a) = Upto(a)
    BY <2>1, <2>2 DEF through
  <2> QED BY <1>2, <2>3
<1>4. m - 1 \in a..(b - 1) /\ m - 1 \in 0..Len(text) /\ (m - 1) + 1 = m /\ m \in (a + 1)..Len(text) /\ m - 1 # Len(text)
  BY <1>0, <1>2, <1>3
<1>5. Upto(m - 1) = Upto(a) \o SubSeq(text, a + 1, m - 1)
  <2>1. m - 1 \notin T /\ m - 1 \in a..b
    BY <1>0, <1>2, <1>4
  <2>2. Upto(m - 1) = through(m - 1)
    BY <2>1
  <2> QED BY <2>2 DEF through
<1>6. Piece(m - 1) = <<text[m]>>
  <2>1. Piece(m - 1) = Kept(m - 1)
    BY <1>4, BarePiece
  <2> QED BY <1>4, <2>1 DEF Kept, Covered
<1>7. Upto(m) = (Upto(a) \o SubSeq(text, a + 1, m - 1)) \o <<text[m]>>
  BY <1>u, <1>4, <1>5, <1>6
<1>8. SubSeq(text, a + 1, m) = SubSeq(text, a + 1, m - 1) \o <<text[m]>>
  <2>1. a + 1 \in 1..Len(text) /\ m \in (a + 1)..Len(text)
    BY <1>0, <1>4
  <2> DEFINE from == a + 1
  <2> HIDE DEF from
  <2>2. SubSeq(text, from, m) = SubSeq(text, from, m - 1) \o <<text[m]>>
    BY <1>0, <2>1, SubSeqRecursiveSecond DEF from
  <2> QED BY <2>2 DEF from
<1>9. SubSeq(text, a + 1, m - 1) \in Seq(STRING) /\ <<text[m]>> \in Seq(STRING)
  BY <1>0, <1>4, SubSeqProperties
<1>10. Upto(m) = through(m)
  <2> DEFINE front == SubSeq(text, a + 1, m - 1)
             one == <<text[m]>>
  <2>1. front \in Words /\ one \in Words /\ Upto(a) \in Words
    BY <1>0, <1>u, <1>9 DEF Words
  <2>2. Upto(m) = Cat(Cat(Upto(a), front), one) /\ through(m) = Cat(Upto(a), Cat(front, one))
    BY <1>7, <1>8 DEF through, Cat
  <2> HIDE DEF front, one
  <2>3. Cat(Cat(Upto(a), front), one) = Cat(Upto(a), Cat(front, one))
    BY <2>1, Regroup
  <2> QED BY <2>2, <2>3
<1> QED BY <1>2, <1>10

\* ... and one that an edit covers does not come out.
LEMMA Replaced ==
  ASSUME Ranged, NEW a \in 0..Len(text), NEW b \in a..Len(text),
         \A o \in a..(b - 1) : Bare(o) /\ Covered(o)
  PROVE  Upto(b) = Upto(a)
<1> DEFINE T == {k \in a..b : Upto(k) # Upto(a)}
<1>0. Len(text) \in Nat /\ a \in Nat /\ b \in Nat /\ a <= b /\ b <= Len(text)
  BY DEF Ranged
<1>u. /\ \A c \in 0..Len(text) : Upto(c + 1) = Upto(c) \o Piece(c)
      /\ \A c \in 0..Len(text) : Upto(c) \in Seq(STRING)
  BY UptoStep
<1>1. SUFFICES ASSUME T # {} PROVE FALSE
  BY <1>0
<1>2. PICK m \in T : \A k \in T : m <= k
  BY <1>0, <1>1, Least, T \in SUBSET Nat
<1>3. m - 1 \in a..(b - 1) /\ m - 1 \in 0..Len(text) /\ (m - 1) + 1 = m
  BY <1>0, <1>2
<1>4. Upto(m - 1) = Upto(a)
  BY <1>0, <1>2, <1>3
<1>5. Piece(m - 1) = <<>>
  <2>1. Piece(m - 1) = Kept(m - 1)
    BY <1>3, BarePiece
  <2> QED BY <1>3, <2>1 DEF Kept, Covered
<1>6. Upto(m) = Upto(m - 1) \o <<>>
  BY <1>u, <1>3, <1>5
<1>7. Upto(m - 1) \o <<>> = Upto(m - 1)
  BY <1>u, <1>3, ConcatEmptySeq
<1> QED BY <1>2, <1>4, <1>6, <1>7

-----------------------------------------------------------------------------
(* One edit after the other                                                *)

\* What lies between two offsets of a text.
LEMMA Between ==
  ASSUME NEW t \in Seq(STRING), NEW a \in 0..Len(t), NEW b \in a..Len(t)
  PROVE  /\ SubSeq(t, a + 1, b) \in Seq(STRING)
         /\ Len(SubSeq(t, a + 1, b)) = b - a
         /\ \A i \in 1..(b - a) : SubSeq(t, a + 1, b)[i] = t[a + i]
<1>0. Len(t) \in Nat /\ a \in Nat /\ b \in Nat /\ a <= b /\ b <= Len(t)
  OBVIOUS
<1> DEFINE from == a + 1
<1>1. from \in Int /\ b \in Int /\ from = a + 1 /\ \A i \in from..b : t[i] \in STRING
  BY <1>0
<1> HIDE DEF from
<1>2. /\ SubSeq(t, from, b) \in Seq(STRING)
      /\ Len(SubSeq(t, from, b)) = IF from <= b THEN b - from + 1 ELSE 0
      /\ \A i \in 1..(b - from + 1) : SubSeq(t, from, b)[i] = t[from + i - 1]
  BY <1>1, SubSeqProperties
<1> DEFINE w == SubSeq(t, from, b)
<1>3. w \in Seq(STRING) /\ Len(w) = b - a
  BY <1>0, <1>1, <1>2
<1>4. ASSUME NEW i \in 1..(b - a) PROVE w[i] = t[a + i]
  <2>1. i \in 1..(b - from + 1) /\ from + i - 1 = a + i
    BY <1>0, <1>1
  <2> QED BY <1>2, <2>1
<1> QED BY <1>3, <1>4 DEF from

\* The parts of two texts put together.
LEMMA Halves ==
  ASSUME NEW U \in Seq(STRING), NEW X \in Seq(STRING), NEW a \in 0..Len(U), NEW b \in 0..Len(U)
  PROVE  /\ SubSeq(U \o X, 1, a) = SubSeq(U, 1, a)
         /\ SubSeq(U \o X, b + 1, Len(U \o X)) = SubSeq(U, b + 1, Len(U)) \o X
<1> DEFINE pat == U \o X
<1>0. Len(U) \in Nat /\ Len(X) \in Nat /\ a \in Nat /\ b \in Nat /\ a <= Len(U) /\ b <= Len(U)
  OBVIOUS
<1>1. /\ pat \in Seq(STRING) /\ Len(pat) = Len(U) + Len(X)
      /\ \A i \in 1..(Len(U) + Len(X)) : pat[i] = IF i <= Len(U) THEN U[i] ELSE X[i - Len(U)]
  BY ConcatProperties
<1> HIDE DEF pat
<1>2. SubSeq(pat, 1, a) = SubSeq(U, 1, a)
  <2> DEFINE p == SubSeq(pat, 0 + 1, a)
             q == SubSeq(U, 0 + 1, a)
  <2>0. 0 \in 0..Len(pat) /\ a \in 0..Len(pat) /\ 0 \in 0..Len(U) /\ 0 + 1 = 1
    BY <1>0, <1>1
  <2>1. p \in Seq(STRING) /\ Len(p) = a - 0 /\ \A i \in 1..(a - 0) : p[i] = pat[0 + i]
    BY <1>1, <2>0, Between
  <2>2. q \in Seq(STRING) /\ Len(q) = a - 0 /\ \A i \in 1..(a - 0) : q[i] = U[0 + i]
    BY <2>0, Between
  <2> HIDE DEF p, q
  <2>3. ASSUME NEW i \in 1..Len(p) PROVE p[i] = q[i]
    <3>1. i \in 1..(a - 0) /\ 0 + i = i /\ i \in 1..(Len(U) + Len(X)) /\ i <= Len(U)
      BY <1>0, <2>1
    <3> QED BY <1>1, <2>1, <2>2, <3>1
  <2>4. p = q
    BY <2>1, <2>2, <2>3, SeqEqual
  <2> QED BY <2>0, <2>4 DEF p, q
<1>3. SubSeq(pat, b + 1, Len(pat)) = SubSeq(U, b + 1, Len(U)) \o X
  <2> DEFINE p == SubSeq(pat, b + 1, Len(pat))
             mid == SubSeq(U, b + 1, Len(U))
             q == mid \o X
             l == Len(U) - b
             n == Len(pat) - b
  <2>0. b \in 0..Len(pat) /\ Len(pat) \in b..Len(pat) /\ Len(U) \in b..Len(U)
    BY <1>0, <1>1
  <2>1. p \in Seq(STRING) /\ Len(p) = n /\ \A i \in 1..n : p[i] = pat[b + i]
    BY <1>1, <2>0, Between
  <2>2. mid \in Seq(STRING) /\ Len(mid) = l /\ \A i \in 1..l : mid[i] = U[b + i]
    BY <2>0, Between
  <2>3. n = l + Len(X) /\ l \in Nat /\ n \in Nat
    BY <1>0, <1>1
  <2> HIDE DEF p, mid
  <2>4. q \in Seq(STRING) /\ Len(q) = Len(mid) + Len(X)
        /\ \A i \in 1..(Len(mid) + Len(X)) : q[i] = IF i <= Len(mid) THEN mid[i] ELSE X[i - Len(mid)]
    BY <2>2, ConcatProperties
  <2> HIDE DEF q
  <2>5. ASSUME NEW i \in 1..Len(p) PROVE p[i] = q[i]
    <3>0. i \in 1..n
      BY ONLY <2>1, i \in 1..Len(p)
    <3>l. /\ b \in Nat /\ Len(U) \in Nat /\ Len(X) \in Nat /\ b <= Len(U)
          /\ n = (Len(U) - b) + Len(X) /\ Len(mid) = Len(U) - b
      BY <1>0, <2>2, <2>3
    <3>1. i \in 1..n /\ i \in 1..(Len(mid) + Len(X)) /\ b + i \in 1..(Len(U) + Len(X))
      BY ONLY <3>0, <3>l
    <3>2. p[i] = IF b + i <= Len(U) THEN U[b + i] ELSE X[b + i - Len(U)]
      BY <1>1, <2>1, <3>1
    <3>3. CASE i <= l
      <4>1. b + i <= Len(U) /\ i \in 1..l
        BY <1>0, <3>1, <3>3
      <4> QED BY <2>2, <2>4, <3>1, <3>2, <3>3, <4>1
    <3>4. CASE ~(i <= l)
      <4>1. ~(b + i <= Len(U)) /\ b + i - Len(U) = i - l
        BY <1>0, <3>1, <3>4
      <4> QED BY <2>2, <2>4, <3>1, <3>2, <3>4, <4>1
    <3> QED BY <3>3, <3>4
  <2>6. p = q
    BY <2>1, <2>2, <2>3, <2>4, <2>5, SeqEqual
  <2> QED BY <2>6 DEF p, q, mid
<1> QED BY <1>2, <1>3 DEF pat

\* Replacing a range in a text of which the front is still that of the document.
LEMMA Cut ==
  ASSUME text \in Seq(STRING), NEW c \in 0..Len(text), NEW X \in Seq(STRING), NEW r,
         r.start \in 0..c, r.end \in r.start..c, r.new \in Seq(STRING)
  PROVE  Splice(SubSeq(text, 1, c) \o X, r) =
           SubSeq(text, 1, r.start) \o (r.new \o (SubSeq(text, r.end + 1, c) \o X))
<1>0. /\ Len(text) \in Nat /\ c \in Nat /\ r.start \in Nat /\ r.end \in Nat
      /\ r.start <= r.end /\ r.end <= c /\ c <= Len(text)
  OBVIOUS
<1> DEFINE U == SubSeq(text, 0 + 1, c)
<1>1. /\ U \in Seq(STRING) /\ Len(U) = c - 0
      /\ \A i \in 1..(c - 0) : U[i] = text[0 + i]
  BY <1>0, Between, 0 \in 0..Len(text)
<1>u. U = SubSeq(text, 1, c)
  BY 0 + 1 = 1
<1> HIDE DEF U
<1>l. Len(U) = c /\ \A i \in 1..c : U[i] = text[i]
  BY <1>0, <1>1
<1> DEFINE front == SubSeq(text, 1, r.start)
           mid == SubSeq(text, r.end + 1, c)
<1>2. SubSeq(U, 1, r.start) = front
  <2> DEFINE V == SubSeq(text, c + 1, Len(text))
  <2>1. V \in Seq(STRING)
    BY <1>0, Between
  <2>2. U \o V = text
    <3>1. 1 \in 1..(Len(text) + 1) /\ c \in (1 - 1)..Len(text) /\ Len(text) \in c..Len(text)
      BY <1>0
    <3>2. SubSeq(text, 1, c) \o SubSeq(text, c + 1, Len(text)) = SubSeq(text, 1, Len(text))
      BY <3>1, ConcatAdjacentSubSeq
    <3> QED BY <1>u, <3>2, SubSeqFull
  <2> HIDE DEF V
  <2>3. r.start \in 0..Len(U)
    BY <1>0, <1>l
  <2>4. SubSeq(U \o V, 1, r.start) = SubSeq(U, 1, r.start)
    BY <1>1, <2>1, <2>3, Halves
  <2> QED BY <2>2, <2>4
<1>3. SubSeq(U, r.end + 1, c) = mid /\ front \in Seq(STRING) /\ mid \in Seq(STRING)
  <2> DEFINE p == SubSeq(U, r.end + 1, c)
             n == c - r.end
  <2>0. r.end \in 0..Len(U) /\ c \in r.end..Len(U) /\ r.end \in 0..Len(text) /\ c \in r.end..Len(text)
    BY <1>0, <1>l
  <2>1. p \in Seq(STRING) /\ Len(p) = n /\ \A i \in 1..n : p[i] = U[r.end + i]
    BY <1>1, <2>0, Between
  <2>2. mid \in Seq(STRING) /\ Len(mid) = n /\ \A i \in 1..n : mid[i] = text[r.end + i]
    BY <2>0, Between
  <2>3. front \in Seq(STRING)
    <3>1. SubSeq(text, 0 + 1, r.start) \in Seq(STRING)
      BY <1>0, Between, 0 \in 0..Len(text), r.start \in 0..Len(text)
    <3> QED BY <3>1, 0 + 1 = 1
  <2> HIDE DEF p, mid
  <2>4. ASSUME NEW i \in 1..Len(p) PROVE p[i] = mid[i]
    <3>1. i \in 1..n /\ r.end + i \in 1..c
      BY <1>0, <2>1
    <3> QED BY <1>l, <2>1, <2>2, <3>1
  <2>5. p = mid
    BY <2>1, <2>2, <2>4, SeqEqual
  <2> QED BY <2>2, <2>3, <2>5 DEF p
<1> HIDE DEF front, mid
<1> DEFINE rest == mid \o X
<1>4. rest \in Seq(STRING)
  BY <1>3, ConcatProperties
<1> DEFINE s == r.start
           e == r.end
           new == r.new
<1>5. Splice(U \o X, r) = (front \o new) \o rest
  <2>1. s \in 0..Len(U) /\ e \in 0..Len(U) /\ front = SubSeq(U, 1, s) /\ mid = SubSeq(U, e + 1, Len(U))
    BY <1>0, <1>2, <1>3, <1>l
  <2>2. Splice(U \o X, r) = SubSeq(U \o X, 1, s) \o new \o SubSeq(U \o X, e + 1, Len(U \o X))
    BY DEF Splice
  <2> HIDE DEF s, e, new
  <2>3. /\ SubSeq(U \o X, 1, s) = SubSeq(U, 1, s)
        /\ SubSeq(U \o X, e + 1, Len(U \o X)) = SubSeq(U, e + 1, Len(U)) \o X
    BY <1>1, <2>1, Halves
  <2> QED BY <2>1, <2>2, <2>3
<1>n. new \in Seq(STRING)
  OBVIOUS
<1> HIDE DEF rest, new
<1>6. (front \o new) \o rest = front \o (new \o rest)
  <2>1. front \in Words /\ rest \in Words /\ new \in Words
    BY <1>3, <1>4, <1>n DEF Words
  <2>2. Cat(Cat(front, new), rest) = Cat(front, Cat(new, rest))
    BY <2>1, Regroup
  <2> QED BY <2>2 DEF Cat
<1> QED BY <1>5, <1>6, <1>u DEF front, mid, rest, new

\* When td is left, the text is that of the document up to some offset c, behind all
\* that td touches, and what comes in the result behind that which td still puts at c.
Joined(c, X, pat, td) ==
  /\ c \in 0..Len(text) /\ X \in Seq(STRING)
  /\ pat = SubSeq(text, 1, c) \o X
  /\ \A i \in td : ranges[i].end <= c
  /\ \A i \in DOMAIN ranges \ td : ranges[i].start >= c
  /\ Result = (Upto(c) \o Due(c, TRUE, td)) \o X

\* i is the last of td by start, then by end.
LastOf(i, td) ==
  \A j \in td \ {i} :
    Precedes(ranges[j], ranges[i]) \/ (i < j /\ ~Precedes(ranges[i], ranges[j]))

\* Before the first edit, c is the end of the document.
LEMMA JoinedStart ==
  ASSUME Ranged
  PROVE  \E c, X : Joined(c, X, text, DOMAIN ranges)
<1> DEFINE n == Len(text)
<1>0. /\ n \in Nat /\ text \in Seq(STRING)
      /\ \A i \in DOMAIN ranges :
           /\ ranges[i].start \in Nat /\ ranges[i].end \in Nat /\ ranges[i].new \in Seq(STRING)
           /\ ranges[i].start <= ranges[i].end /\ ranges[i].end <= n
  BY DEF Ranged
<1>1. <<>> \in Seq(STRING) /\ text = SubSeq(text, 1, n) \o <<>>
  <2>1. SubSeq(text, 1, n) = text
    BY <1>0, SubSeqFull
  <2> QED BY <1>0, <2>1, EmptySeq, ConcatEmptySeq
<1>2. News(n, FALSE) = <<>> /\ Kept(n) = <<>>
  <2>1. \A j \in DOMAIN ranges : ~Put(j, n, FALSE)
    BY <1>0 DEF Put, IsInsert
  <2>2. News(n, FALSE) = <<>>
    BY <2>1, DueNone DEF News
  <2> QED BY <2>2 DEF Kept
<1>3. Result = (Upto(n) \o Due(n, TRUE, DOMAIN ranges)) \o <<>>
  <2>1. Result = Upto(n) \o Piece(n) /\ Upto(n) \in Seq(STRING)
    <3>1. Len(text) \in 0..Len(text) /\ Len(text) \in 0..(Len(text) + 1)
      BY <1>0
    <3> QED BY <3>1, UptoStep
  <2> DEFINE N == Due(n, TRUE, DOMAIN ranges)
             U == Upto(n)
  <2>2. N \in Seq(STRING) /\ U \in Seq(STRING)
    BY <2>1, DueSeq
  <2>3. Piece(n) = (N \o <<>>) \o <<>>
    BY <1>2 DEF Piece, News
  <2>4. Result = U \o Piece(n)
    BY <2>1
  <2> HIDE DEF N, U
  <2>5. (N \o <<>>) \o <<>> = N
    BY <2>2, ConcatEmptySeq
  <2>6. (U \o N) \o <<>> = U \o N
    <3>1. U \o N \in Seq(STRING)
      BY ONLY <2>2, ConcatProperties
    <3> QED BY <3>1, ConcatEmptySeq
  <2> QED BY <2>3, <2>4, <2>5, <2>6 DEF N, U
<1>4. \A i \in DOMAIN ranges : ranges[i].end <= n
  BY <1>0
<1>5. n \in 0..Len(text) /\ DOMAIN ranges \ DOMAIN ranges = {}
  BY <1>0
<1> HIDE DEF n
<1>6. Joined(n, <<>>, text, DOMAIN ranges)
  BY <1>1, <1>3, <1>4, <1>5 DEF Joined
<1> QED BY <1>6

\* Ranges where the last of td is, and the rest of td.
LEMMA Places ==
  ASSUME Ranged, NEW td \in SUBSET DOMAIN ranges, NEW c \in 0..Len(text),
         \A j \in td : ranges[j].end <= c,
         \A j \in DOMAIN ranges \ td : ranges[j].start >= c,
         NEW i \in td, LastOf(i, td)
  PROVE  /\ ranges[i].start \in 0..c /\ ranges[i].end \in ranges[i].start..c
         /\ ranges[i].new \in Seq(STRING)
         /\ \A j \in td \ {i} : /\ ranges[j].end <= ranges[i].start
                                /\ ranges[j].start = ranges[i].start => IsInsert(ranges[j])
<1>1. \A j \in DOMAIN ranges :
        /\ ranges[j].start \in Nat /\ ranges[j].end \in Nat /\ ranges[j].new \in Seq(STRING)
        /\ ranges[j].start <= ranges[j].end /\ ranges[j].end <= Len(text)
  BY DEF Ranged
<1>2. i \in DOMAIN ranges /\ c \in Nat
  BY DEF Ranged
<1>3. ASSUME NEW j \in td \ {i}
      PROVE  /\ ranges[j].end <= ranges[i].start
             /\ ranges[j].start = ranges[i].start => IsInsert(ranges[j])
  <2>1. j \in DOMAIN ranges /\ j # i
    OBVIOUS
  <2>2. ~Clash(ranges[i], ranges[j]) /\ ~Clash(ranges[j], ranges[i])
    BY <1>2, <2>1 DEF Ranged
  <2>3. Precedes(ranges[j], ranges[i]) \/ ~Precedes(ranges[i], ranges[j])
    BY DEF LastOf
  <2>4. ranges[j].end <= ranges[i].start
    BY <1>1, <1>2, <2>1, <2>2, <2>3 DEF Precedes, Clash, IsInsert
  <2>5. ASSUME ranges[j].start = ranges[i].start PROVE IsInsert(ranges[j])
    BY <1>1, <1>2, <2>1, <2>4, <2>5 DEF IsInsert
  <2> QED BY <2>4, <2>5
<1> QED BY <1>1, <1>2, <1>3

\* The result up to c is the result up to where the last edit begins, what else is
\* put there, what that edit puts, and the text behind it.
LEMMA Behind ==
  ASSUME Ranged, NEW td \in SUBSET DOMAIN ranges, NEW c \in 0..Len(text),
         \A j \in td : ranges[j].end <= c,
         \A j \in DOMAIN ranges \ td : ranges[j].start >= c,
         NEW i \in td, LastOf(i, td), ranges[i].start < c
  PROVE  Upto(c) = (Upto(ranges[i].start) \o Due(ranges[i].start, TRUE, td \ {i}))
                     \o (ranges[i].new \o SubSeq(text, ranges[i].end + 1, c))
<1>0. /\ text \in Seq(STRING) /\ Len(text) \in Nat /\ i \in DOMAIN ranges
      /\ \A j \in DOMAIN ranges :
           /\ ranges[j].start \in Nat /\ ranges[j].end \in Nat /\ ranges[j].new \in Seq(STRING)
           /\ ranges[j].start <= ranges[j].end /\ ranges[j].end <= Len(text)
  BY DEF Ranged
<1>p. /\ ranges[i].start \in 0..c /\ ranges[i].end \in ranges[i].start..c
      /\ ranges[i].new \in Seq(STRING)
      /\ \A j \in td \ {i} : /\ ranges[j].end <= ranges[i].start
                             /\ ranges[j].start = ranges[i].start => IsInsert(ranges[j])
  BY Places
<1>1. PICK s \in Nat, e \in Nat, new \in Words :
        /\ s = ranges[i].start /\ e = ranges[i].end /\ new = ranges[i].new
        /\ s < c /\ s <= e /\ e <= c
  BY <1>0, <1>p DEF Words
<1>2. c \in Nat /\ c <= Len(text) /\ s \in 0..Len(text) /\ e \in 0..Len(text)
  BY <1>0, <1>1
\* Who is where.
<1>3. ASSUME NEW j \in DOMAIN ranges, j # i
      PROVE  \/ /\ j \in td \ {i} /\ ranges[j].start <= s /\ ranges[j].end <= s
                /\ ranges[j].start = s => IsInsert(ranges[j])
             \/ j \notin td /\ ranges[j].start >= c
  <2>1. CASE j \in td
    <3>1. ranges[j].end <= s /\ (ranges[j].start = s => IsInsert(ranges[j]))
      BY <1>1, <1>3, <1>p, <2>1
    <3>2. ranges[j].start <= s
      BY <1>0, <1>3, <3>1
    <3> QED BY <1>3, <2>1, <3>1, <3>2
  <2>2. CASE j \notin td
    BY <2>2
  <2> QED BY <2>1, <2>2
<1>4. ASSUME NEW o \in Nat, s < o, o < c PROVE Bare(o)
  <2> SUFFICES ASSUME NEW j \in DOMAIN ranges PROVE ranges[j].start # o
    BY DEF Bare
  <2>1. CASE j = i
    BY <1>1, <1>4, <2>1
  <2>2. CASE j # i
    BY <1>0, <1>2, <1>3, <1>4, <2>2
  <2> QED BY <2>1, <2>2
<1>5. ASSUME NEW o \in Nat, s <= o, o < c PROVE Covered(o) <=> o < e
  <2>1. ASSUME NEW j \in DOMAIN ranges, j # i PROVE ~(ranges[j].start <= o /\ o < ranges[j].end)
    BY <1>0, <1>2, <1>3, <1>5, <2>1
  <2> QED BY <1>0, <1>1, <1>5, <2>1 DEF Covered
<1>u. /\ \A k \in 0..Len(text) : Upto(k + 1) = Upto(k) \o Piece(k)
      /\ \A k \in 0..Len(text) : Upto(k) \in Seq(STRING)
  BY UptoStep
<1>6. Upto(s) \in Seq(STRING) /\ Upto(s + 1) = Upto(s) \o Piece(s) /\ s + 1 \in 0..Len(text)
  <2>1. s + 1 \in 0..Len(text)
    BY <1>0, <1>1, <1>2
  <2> QED BY <1>2, <1>u, <2>1
<1> DEFINE U == Upto(s)
           N == Due(s, TRUE, td \ {i})
<1>n. U \in Words /\ N \in Words
  BY <1>6, DueSeq DEF Words
\* Nobody but td inserts at s.
<1>d. News(s, TRUE) = Due(s, TRUE, td)
  <2>1. \A j \in DOMAIN ranges : Put(j, s, TRUE) => (j \in DOMAIN ranges <=> j \in td)
    BY <1>0, <1>1, <1>2, <1>3 DEF Put
  <2> QED BY <2>1, DueSame DEF News
<1>7. CASE s = e
  <2>2. News(s, TRUE) = N \o new
    <3>1. Put(i, s, TRUE)
      BY <1>1, <1>7 DEF Put, IsInsert
    <3>2. ASSUME NEW j \in td \ {i}, Put(j, s, TRUE) PROVE i < j
      <4>1. ranges[j].start = s /\ ranges[j].end = s
        BY <3>2 DEF Put, IsInsert
      <4>2. ~Precedes(ranges[j], ranges[i])
        BY <1>1, <1>7, <4>1 DEF Precedes
      <4> QED BY <4>2 DEF LastOf
    <3>3. Due(s, TRUE, td) = Cat(Due(s, TRUE, td \ {i}), ranges[i].new)
      <4>1. \A j \in td : j # i /\ Put(j, s, TRUE) => i < j
        BY <3>2
      <4>2. TRUE \in BOOLEAN
        OBVIOUS
      <4> QED BY ONLY Ranged, <3>1, <4>1, <4>2, DueLast
    <3> QED BY <1>1, <1>d, <3>3 DEF Cat
  <2>3. News(s, FALSE) = <<>>
    <3>1. ~Put(i, s, FALSE)
      BY <1>1, <1>7 DEF Put, IsInsert
    <3>2. \A j \in DOMAIN ranges : j # i => ~Put(j, s, FALSE)
      BY <1>0, <1>1, <1>2, <1>3 DEF Put
    <3>3. \A j \in DOMAIN ranges : ~Put(j, s, FALSE)
      BY <3>1, <3>2
    <3> QED BY <3>3, DueNone DEF News
  <2> DEFINE one == <<text[s + 1]>>
             from == s + 1
             rest == SubSeq(text, from + 1, c)
  <2>4. Kept(s) = one
    <3>1. ~Covered(s) /\ s # Len(text)
      BY <1>1, <1>2, <1>5, <1>7
    <3> QED BY <3>1 DEF Kept, Covered
  <2>5. one \in Seq(STRING)
    <3>1. text[s + 1] \in STRING
      BY <1>0, <1>1, <1>2
    <3> QED BY <3>1
  <2>6. from \in 0..Len(text) /\ c \in from..Len(text) /\ from \in 1..Len(text) /\ from \in Nat
    BY <1>1, <1>2
  <2>7. Upto(c) = Upto(from) \o rest
    <3>1. \A o \in from..(c - 1) : Bare(o) /\ ~Covered(o)
      <4> SUFFICES ASSUME NEW o \in from..(c - 1) PROVE Bare(o) /\ ~Covered(o)
        OBVIOUS
      <4>1. o \in Nat /\ s < o /\ o < c /\ s <= o /\ ~(o < e)
        BY <1>1, <1>2, <1>7
      <4> QED BY <1>4, <1>5, <4>1
    <3> HIDE DEF from
    <3> QED BY <2>6, <3>1, Untouched
  <2>8. SubSeq(text, from, c) = one \o rest /\ rest \in Seq(STRING)
    <3>1. one = <<text[from]>>
      OBVIOUS
    <3> HIDE DEF from
    <3>2. SubSeq(text, from, c) = <<text[from]>> \o SubSeq(text, from + 1, c)
      BY <1>0, <2>6, SubSeqRecursiveFirst
    <3>3. SubSeq(text, from + 1, c) \in Seq(STRING)
      BY <1>0, <2>6, Between
    <3> QED BY <3>1, <3>2, <3>3
  <2>9. Upto(from) = U \o ((N \o new) \o one)
    <3>1. (N \o new) \o <<>> = N \o new
      <4>1. N \o new \in Seq(STRING)
        BY <1>n, ConcatProperties DEF Words
      <4> QED BY <4>1, ConcatEmptySeq
    <3>2. Upto(from) = U \o (((N \o new) \o <<>>) \o one)
      BY <1>6, <2>2, <2>3, <2>4 DEF Piece
    <3> QED BY <3>1, <3>2
  <2>10. SubSeq(text, e + 1, c) = SubSeq(text, from, c)
    BY <1>7
  <2> HIDE DEF U, N, one, from, rest
  <2>11. (U \o ((N \o new) \o one)) \o rest = (U \o N) \o (new \o (one \o rest))
    <3>1. one \in Words /\ rest \in Words
      BY <2>5, <2>8 DEF Words
    <3>2. Cat(Cat(U, Cat(Cat(N, new), one)), rest) = Cat(Cat(U, N), Cat(new, Cat(one, rest)))
      BY <1>n, <3>1, RegroupFive
    <3> QED BY <3>2 DEF Cat
  <2>12. Upto(c) = (U \o N) \o (new \o SubSeq(text, e + 1, c))
    BY <2>7, <2>8, <2>9, <2>10, <2>11
  <2> QED BY <1>1, <2>12 DEF U, N
<1>8. CASE s < e
  <2> DEFINE rest == SubSeq(text, e + 1, c)
  <2>1. News(s, TRUE) = N
    <3>1. ~Put(i, s, TRUE)
      BY <1>1, <1>8 DEF Put, IsInsert
    <3>2. \A j \in DOMAIN ranges : Put(j, s, TRUE) => (j \in td <=> j \in td \ {i})
      BY <3>1
    <3> QED BY <1>d, <3>2, DueSame
  <2>3. News(s, FALSE) = new
    <3>1. Put(i, s, FALSE)
      BY <1>1, <1>8 DEF Put, IsInsert
    <3>2. \A j \in DOMAIN ranges : j # i => ~Put(j, s, FALSE)
      BY <1>0, <1>1, <1>2, <1>3 DEF Put
    <3> QED BY <1>0, <1>1, <3>1, <3>2, DueOne DEF News
  <2>4. Kept(s) = <<>>
    <3>1. Covered(s)
      BY <1>1, <1>5, <1>8
    <3> QED BY <3>1 DEF Kept, Covered
  <2>5. Upto(s + 1) = U \o (N \o new)
    <3>1. N \o new \in Seq(STRING)
      BY <1>n, ConcatProperties DEF Words
    <3>2. (N \o new) \o <<>> = N \o new
      BY <3>1, ConcatEmptySeq
    <3> QED BY <1>6, <2>1, <2>3, <2>4, <3>2 DEF Piece
  <2>6. Upto(e) = Upto(s + 1)
    <3> DEFINE from == s + 1
    <3>1. from \in 0..Len(text) /\ e \in from..Len(text)
      BY <1>2, <1>6, <1>8
    <3>2. \A o \in from..(e - 1) : Bare(o) /\ Covered(o)
      <4> SUFFICES ASSUME NEW o \in from..(e - 1) PROVE Bare(o) /\ Covered(o)
        OBVIOUS
      <4>1. o \in Nat /\ s < o /\ o < c /\ s <= o /\ o < e
        BY <1>1, <1>2
      <4> QED BY <1>4, <1>5, <4>1
    <3> HIDE DEF from
    <3>3. Upto(e) = Upto(from)
      BY <3>1, <3>2, Replaced
    <3> QED BY <3>3 DEF from
  <2>7. Upto(c) = Upto(e) \o rest
    <3>1. e \in 0..Len(text) /\ c \in e..Len(text)
      BY <1>1, <1>2
    <3>2. \A o \in e..(c - 1) : Bare(o) /\ ~Covered(o)
      <4> SUFFICES ASSUME NEW o \in e..(c - 1) PROVE Bare(o) /\ ~Covered(o)
        OBVIOUS
      <4>1. o \in Nat /\ s < o /\ o < c /\ s <= o /\ ~(o < e)
        BY <1>1, <1>2, <1>8
      <4> QED BY <1>4, <1>5, <4>1
    <3> QED BY <3>1, <3>2, Untouched
  <2>8. rest \in Seq(STRING)
    BY <1>0, <1>1, <1>2, Between
  <2> HIDE DEF U, N, rest
  <2>10. (U \o (N \o new)) \o rest = (U \o N) \o (new \o rest)
    <3>1. rest \in Words
      BY <2>8 DEF Words
    <3>2. Cat(Cat(U, Cat(N, new)), rest) = Cat(Cat(U, N), Cat(new, rest))
      BY <1>n, <3>1, RegroupFour
    <3> QED BY <3>2 DEF Cat
  <2>11. Upto(c) = (U \o N) \o (new \o rest)
    BY <2>5, <2>6, <2>7, <2>10
  <2> QED BY <1>1, <2>11 DEF U, N, rest
<1>9. s = e \/ s < e
  BY <1>1
<1> QED BY <1>7, <1>8, <1>9

\* Carrying out the last of td.
LEMMA JoinedStep ==
  ASSUME Ranged, NEW td \in SUBSET DOMAIN ranges, NEW c, NEW X, NEW pat,
         Joined(c, X, pat, td), NEW i \in td, LastOf(i, td)
  PROVE  \E b, Y : Joined(b, Y, Splice(pat, ranges[i]), td \ {i})
<1>1. /\ c \in 0..Len(text) /\ X \in Words
      /\ pat = Cat(SubSeq(text, 1, c), X)
      /\ \A j \in td : ranges[j].end <= c
      /\ \A j \in DOMAIN ranges \ td : ranges[j].start >= c
      /\ Result = Cat(Cat(Upto(c), Due(c, TRUE, td)), X)
  BY DEF Joined, Cat, Words
<1>2. /\ ranges[i].start \in 0..c /\ ranges[i].end \in ranges[i].start..c
      /\ ranges[i].new \in Words
      /\ \A j \in td \ {i} : /\ ranges[j].end <= ranges[i].start
                             /\ ranges[j].start = ranges[i].start => IsInsert(ranges[j])
  BY <1>1, Places DEF Words
<1>3. PICK s \in Nat, e \in Nat, new \in Words :
        s = ranges[i].start /\ e = ranges[i].end /\ new = ranges[i].new /\ s <= e /\ e <= c
  BY <1>1, <1>2 DEF Ranged
<1>4. Len(text) \in Nat /\ c \in Nat /\ s <= c /\ c <= Len(text) /\ s \in 0..Len(text)
  BY <1>1, <1>3 DEF Ranged
<1> DEFINE mid == SubSeq(text, e + 1, c)
           Y == Cat(new, Cat(mid, X))
<1>5. mid \in Words
  <2>1. e \in 0..Len(text) /\ c \in e..Len(text)
    BY <1>3, <1>4
  <2> QED BY <2>1, Between DEF Ranged, Words
<1>6. Splice(pat, ranges[i]) = Cat(SubSeq(text, 1, s), Y)
  <2>1. X \in Seq(STRING) /\ ranges[i].new \in Seq(STRING) /\ text \in Seq(STRING)
    BY <1>1, <1>2 DEF Words, Ranged
  <2>2. Splice(SubSeq(text, 1, c) \o X, ranges[i]) =
          SubSeq(text, 1, ranges[i].start) \o (ranges[i].new \o (SubSeq(text, ranges[i].end + 1, c) \o X))
    BY <1>1, <1>2, <2>1, Cut
  <2> QED BY <1>1, <1>3, <2>2 DEF Cat
<1>7. Y \in Words
  <2> HIDE DEF mid
  <2> QED BY <1>1, <1>3, <1>5, Regroup
<1>8. /\ \A j \in td \ {i} : ranges[j].end <= s
      /\ \A j \in DOMAIN ranges \ (td \ {i}) : ranges[j].start >= s
  <2>1. ASSUME NEW j \in DOMAIN ranges \ (td \ {i}) PROVE ranges[j].start >= s
    <3>1. CASE j = i
      BY <1>3, <3>1
    <3>2. CASE j # i
      <4>1. j \in DOMAIN ranges \ td /\ ranges[j].start \in Nat
        BY <2>1, <3>2 DEF Ranged
      <4> QED BY <1>1, <1>4, <4>1
    <3> QED BY <3>1, <3>2
  <2> QED BY <1>2, <1>3, <2>1
<1>u. Upto(s) \in Words /\ Upto(c) \in Words
  <2>1. s \in 0..(Len(text) + 1) /\ c \in 0..(Len(text) + 1)
    BY <1>4
  <2> QED BY <2>1, UptoStep DEF Words
<1> DEFINE N == Due(s, TRUE, td \ {i})
<1>n. N \in Words
  BY DueSeq DEF Words
<1>9. Result = Cat(Cat(Upto(s), N), Y)
  <2>1. CASE s = c
    <3>1. e = c /\ Put(i, c, TRUE)
      BY <1>3, <1>4, <2>1 DEF IsInsert, Put
    <3>2. ASSUME NEW j \in td \ {i}, Put(j, c, TRUE) PROVE i < j
      <4>1. ranges[j].start = ranges[i].start /\ ranges[j].end = ranges[i].end
        BY <1>3, <2>1, <3>1, <3>2 DEF Put, IsInsert
      <4>2. ranges[j].start \in Nat /\ ranges[j].end \in Nat
        BY DEF Ranged
      <4>3. ~Precedes(ranges[j], ranges[i])
        BY <4>1, <4>2 DEF Precedes
      <4> QED BY <4>3 DEF LastOf
    <3>3. Due(c, TRUE, td) = Cat(N, new)
      <4>1. \A j \in td : j # i /\ Put(j, c, TRUE) => i < j
        BY <3>2
      <4>2. Due(c, TRUE, td) = Cat(Due(c, TRUE, td \ {i}), ranges[i].new)
        BY ONLY Ranged, <3>1, <4>1, DueLast
      <4> QED BY <1>3, <2>1, <4>2
    <3>4. Cat(mid, X) = X
      <4>1. mid = <<>>
        BY <1>4, <3>1, SubSeqEmpty
      <4>2. <<>> \o X = X
        BY <1>1, ConcatEmptySeq DEF Words
      <4> QED BY <4>1, <4>2 DEF Cat
    <3>5. Result = Cat(Cat(Upto(s), Cat(N, new)), X) /\ Y = Cat(new, X)
      BY <1>1, <2>1, <3>3, <3>4
    <3> HIDE DEF N
    <3>6. Cat(Cat(Upto(s), Cat(N, new)), X) = Cat(Cat(Upto(s), N), Cat(new, X))
      BY <1>1, <1>3, <1>n, <1>u, RegroupFour
    <3> QED BY <3>5, <3>6
  <2>2. CASE s < c
    <3>1. Upto(c) = Cat(Cat(Upto(s), N), Cat(new, mid))
      <4>1. Upto(c) = (Upto(ranges[i].start) \o Due(ranges[i].start, TRUE, td \ {i}))
                        \o (ranges[i].new \o SubSeq(text, ranges[i].end + 1, c))
        BY <1>1, <1>3, <2>2, Behind
      <4> QED BY <1>3, <4>1 DEF Cat
    <3>2. \A j \in td : ~Put(j, c, TRUE)
      <4>1. \A j \in td : ranges[j].start \in Nat /\ ranges[j].end \in Nat /\ ranges[j].start <= ranges[j].end
        BY DEF Ranged
      <4> QED BY <1>2, <1>3, <1>4, <2>2, <4>1 DEF Put
    <3>3. Due(c, TRUE, td) = <<>>
      BY <3>2, DueNone
    <3>4. Cat(Upto(c), <<>>) = Upto(c)
      BY <1>u, ConcatEmptySeq DEF Words, Cat
    <3>5. Result = Cat(Cat(Cat(Upto(s), N), Cat(new, mid)), X)
      BY <1>1, <3>1, <3>3, <3>4
    <3> HIDE DEF mid, N
    <3>6. Cat(Upto(s), N) \in Words
      BY <1>u, <1>n, Regroup
    <3>7. Cat(Cat(Cat(Upto(s), N), Cat(new, mid)), X) = Cat(Cat(Upto(s), N), Cat(Cat(new, mid), X))
      <4>1. Cat(new, mid) \in Words
        BY <1>3, <1>5, Regroup
      <4> DEFINE front == Cat(Upto(s), N)
                 back == Cat(new, mid)
      <4>2. front \in Words /\ back \in Words /\ X \in Words
        BY <1>1, <3>6, <4>1
      <4> HIDE DEF front, back
      <4>3. Cat(Cat(front, back), X) = Cat(front, Cat(back, X))
        BY <4>2, Regroup
      <4> QED BY <4>3 DEF front, back
    <3>8. Cat(Cat(new, mid), X) = Y
      <4>1. new \in Words /\ mid \in Words /\ X \in Words
        BY <1>1, <1>3, <1>5
      <4> QED BY <4>1, Regroup
    <3> QED BY <3>5, <3>7, <3>8
  <2>3. s = c \/ s < c
    BY <1>4
  <2> QED BY <2>1, <2>2, <2>3
<1> HIDE DEF Y
<1>10. Joined(s, Y, Splice(pat, ranges[i]), td \ {i})
  BY <1>4, <1>6, <1>7, <1>8, <1>9 DEF Joined, Cat, Words
<1> QED BY <1>10

\* After the last edit, c is in front of all edits, and the text is the result.
LEMMA JoinedEnd ==
  ASSUME Ranged, NEW c, NEW X, NEW pat, Joined(c, X, pat, {})
  PROVE  pat = Result
<1>1. /\ c \in 0..Len(text) /\ X \in Seq(STRING) /\ pat = SubSeq(text, 1, c) \o X
      /\ \A j \in DOMAIN ranges : ranges[j].start >= c
      /\ Result = (Upto(c) \o Due(c, TRUE, {})) \o X
  BY DEF Joined
<1>n. Due(c, TRUE, {}) = <<>>
  BY DueNone
<1>2. Len(text) \in Nat /\ text \in Seq(STRING) /\ \A j \in DOMAIN ranges : ranges[j].start \in Nat
  BY DEF Ranged
<1>3. Upto(c) = SubSeq(text, 1, c)
  <2>1. 0 \in 0..Len(text) /\ c \in 0..Len(text)
    BY <1>1, <1>2
  <2>2. \A o \in 0..(c - 1) : Bare(o) /\ ~Covered(o)
    BY <1>1, <1>2 DEF Bare, Covered
  <2>3. Upto(c) = Upto(0) \o SubSeq(text, 0 + 1, c)
    BY <2>1, <2>2, Untouched
  <2>4. Upto(0) = <<>> /\ 0 + 1 = 1
    BY UptoStep
  <2>5. SubSeq(text, 0 + 1, c) \in Seq(STRING)
    BY <1>2, <2>1, Between
  <2> DEFINE w == SubSeq(text, 0 + 1, c)
  <2>6. w \in Seq(STRING) /\ Upto(c) = <<>> \o w
    BY <2>3, <2>4, <2>5
  <2>7. w = SubSeq(text, 1, c)
    BY <2>4
  <2> HIDE DEF w
  <2> QED BY <2>6, <2>7, ConcatEmptySeq
<1>4. Upto(c) \o <<>> = Upto(c)
  <2>1. Upto(c) \in Seq(STRING)
    <3>1. c \in 0..(Len(text) + 1)
      BY <1>1, <1>2
    <3> QED BY <3>1, UptoStep
  <2> QED BY <2>1, ConcatEmptySeq
<1> QED BY <1>1, <1>n, <1>3, <1>4

\* The edits being carried out are ranges no two of which clash.
LEMMA RangedHolds == LoopInv /\ phase \in {"applying", "done"} => Ranged
<1> SUFFICES ASSUME LoopInv, phase \in {"applying", "done"} PROVE Ranged
  OBVIOUS
<1> DEFINE Stretch == [start : 0..Len(text), end : 0..Len(text), new : NewTexts]
<1>1. text \in Seq(STRING) /\ Len(text) \in Nat
  BY InputAssumption DEF LoopInv, EditTypeOK
<1>2. Len(ranges) \in Nat /\ DOMAIN ranges = 1..Len(ranges) /\ \A i \in DOMAIN ranges : ranges[i] \in Stretch
  <2>1. ranges \in Seq(Stretch)
    BY DEF LoopInv, EditTypeOK
  <2> HIDE DEF Stretch
  <2> QED BY <2>1
<1>3. ASSUME NEW i \in DOMAIN ranges
      PROVE  /\ ranges[i].start \in Nat /\ ranges[i].end \in Nat /\ ranges[i].new \in Seq(STRING)
             /\ ranges[i].start <= ranges[i].end /\ ranges[i].end <= Len(text)
  <2>1. ranges[i] \in Stretch
    BY <1>2
  <2>2. ranges[i].start \in 0..Len(text) /\ ranges[i].end \in 0..Len(text) /\ ranges[i].new \in NewTexts
    BY <2>1
  <2>3. ranges[i].start <= ranges[i].end
    BY DEF LoopInv, EditTypeOK
  <2>4. ranges[i].new \in Seq(STRING)
    BY <2>2, InputAssumption
  <2> QED BY <1>1, <2>2, <2>3, <2>4
<1>4. ASSUME NEW i \in DOMAIN ranges, NEW j \in DOMAIN ranges, i # j PROVE ~Clash(ranges[i], ranges[j])
  <2>1. DOMAIN ranges = DOMAIN edits /\ ranges[i] = RangeOf(edits[i]) /\ ranges[j] = RangeOf(edits[j])
    BY DEF LoopInv
  <2>2. Meant
    BY Refusal DEF LoopInv
  <2> QED BY <1>4, <2>1, <2>2 DEF Meant
<1> QED BY <1>1, <1>2, <1>3, <1>4 DEF Ranged

\* The result depends on the document and the ranges only.
LEMMA StillJoined ==
  ASSUME UNCHANGED <<text, ranges>>, NEW c, NEW X, Joined(c, X, patched', todo')
  PROVE  Joined(c, X, patched, todo)'
<1>0. text' = text /\ ranges' = ranges
  OBVIOUS
<1>1. ASSUME NEW o, NEW b PROVE News(o, b)' = News(o, b)
  BY <1>0 DEF News, Due, DueOf, Back, Put, IsInsert
<1>2. ASSUME NEW o PROVE Kept(o)' = Kept(o)
  BY <1>0 DEF Kept
<1>3. ASSUME NEW o PROVE Piece(o)' = Piece(o)
  BY <1>1, <1>2 DEF Piece
<1>4. Pieces' = Pieces
  BY <1>0, <1>3 DEF Pieces
<1>5. Result' = Result /\ Upto(c)' = Upto(c)
  BY <1>4 DEF Result, Upto
<1>6. Due(c, TRUE, todo)' = Due(c, TRUE, todo')
  BY <1>0 DEF Due, DueOf, Back, Put, IsInsert
<1> QED BY <1>0, <1>5, <1>6 DEF Joined

\* The text and what is left are always parts of the result.
OnceInv ==
  /\ phase \in {"applying", "done"} => \E c, X : Joined(c, X, patched, todo)
  /\ phase = "done" => todo = {}

LEMMA StartNext ==
  (Ranged /\ patched = text /\ todo = DOMAIN ranges => \E c, X : Joined(c, X, patched, todo))'
<1>1. Ranged /\ patched = text /\ todo = DOMAIN ranges => \E c, X : Joined(c, X, patched, todo)
  BY JoinedStart
<1> QED BY <1>1, PTL

LEMMA RangedNext == (LoopInv /\ phase \in {"applying", "done"} => Ranged)'
  BY RangedHolds, PTL

LEMMA OnceNext == LoopInv /\ LoopInv' /\ OnceInv /\ [EditNext]_editVars => OnceInv'
<1> SUFFICES ASSUME LoopInv, LoopInv', OnceInv, [EditNext]_editVars PROVE OnceInv'
  OBVIOUS
<1>1. CASE AskEdit \/ Reject
  <2>1. phase' \notin {"applying", "done"}
    BY <1>1 DEF AskEdit, Reject
  <2> QED BY <2>1 DEF OnceInv
<1>2. CASE TextEditRanges
  <2>1. /\ phase = "asking" /\ phase' = "applying" /\ todo' = DOMAIN edits
        /\ UNCHANGED <<text, edits, patched>>
    BY <1>2 DEF TextEditRanges
  <2>2. patched' = text' /\ todo' = DOMAIN ranges'
    BY <1>2, <2>1 DEF LoopInv, TextEditRanges
  <2>3. \E c, X : Joined(c, X, patched, todo)'
    BY <2>1, <2>2, StartNext, RangedNext
  <2> QED BY <2>1, <2>3 DEF OnceInv
<1>3. CASE ApplyOne
  <2>1. PICK i \in todo : ComesNext(i) /\ patched' = Splice(patched, ranges[i]) /\ todo' = todo \ {i}
    BY <1>3 DEF ApplyOne
  <2>2. phase = "applying" /\ UNCHANGED <<text, edits, phase, ranges>>
    BY <1>3 DEF ApplyOne
  <2>3. \E c, X : Joined(c, X, patched, todo)'
    <3>1. Ranged /\ todo \in SUBSET DOMAIN ranges
      BY <2>2, RangedHolds DEF LoopInv, EditTypeOK
    <3>2. PICK c, X : Joined(c, X, patched, todo)
      BY <2>2 DEF OnceInv
    <3>3. LastOf(i, todo)
      BY <2>1 DEF ComesNext, LastOf
    <3>4. \E b, Y : Joined(b, Y, Splice(patched, ranges[i]), todo \ {i})
      BY <2>1, <3>1, <3>2, <3>3, JoinedStep
    <3>5. PICK b, Y : Joined(b, Y, patched', todo')
      BY <2>1, <3>4
    <3>6. Joined(b, Y, patched, todo)'
      BY <2>2, <3>5, StillJoined
    <3> QED BY <3>6
  <2> QED BY <2>2, <2>3 DEF OnceInv
<1>4. CASE Finish \/ UNCHANGED editVars
  <2>1. UNCHANGED <<text, ranges, todo, patched>>
    BY <1>4 DEF Finish, editVars
  <2>2. (phase' = "done" => phase = "done" \/ todo = {}) /\ (phase' \in {"applying", "done"} => phase \in {"applying", "done"})
    BY <1>4 DEF Finish, editVars
  <2>3. ASSUME phase' \in {"applying", "done"} PROVE \E c, X : Joined(c, X, patched, todo)'
    <3>1. PICK c, X : Joined(c, X, patched, todo)
      BY <2>2, <2>3 DEF OnceInv
    <3>2. Joined(c, X, patched', todo')
      BY <2>1, <3>1
    <3>3. Joined(c, X, patched, todo)'
      BY <2>1, <3>2, StillJoined
    <3> QED BY <3>3
  <2> QED BY <2>1, <2>2, <2>3 DEF OnceInv
<1> QED BY <1>1, <1>2, <1>3, <1>4 DEF EditNext

\* When the loop is over, the text is the result.
LEMMA DoneResult == ASSUME LoopInv, OnceInv, phase = "done" PROVE Ranged /\ patched = Result
<1>1. Ranged /\ todo = {}
  BY RangedHolds DEF OnceInv
<1>2. PICK c, X : Joined(c, X, patched, {})
  BY <1>1 DEF OnceInv
<1> QED BY <1>1, <1>2, JoinedEnd

\* However many edits there are and in whatever order they were asked for, carrying
\* them out from the last to the first leaves the document as if all had been made at
\* once on the text the server saw, inserts at one place in the reverse of the order
\* of the request (edit_apply.go:196-208).
THEOREM AppliedBackwardsHolds == EditSpec => []AppliedBackwards
<1>1. EditInit => OnceInv
  BY DEF EditInit, OnceInv
<1>2. LoopInv /\ OnceInv => AppliedBackwards
  BY DoneResult, ResultIs DEF AppliedBackwards
<1> QED BY <1>1, <1>2, LoopInit, LoopNext, OnceNext, PTL DEF EditSpec

\* Without inserts that share a place it does not matter in which direction the
\* request is read.
LEMMA NoDirection == ASSUME Ranged, ~SharedInsert PROVE AtOnce(ranges) = Result
<1> DEFINE n == Len(ranges)
           newsOf(o, b) == [i \in DOMAIN ranges |->
                              IF ranges[i].start = o /\ IsInsert(ranges[i]) = b THEN ranges[i].new ELSE <<>>]
<1>0. /\ n \in Nat /\ DOMAIN ranges = 1..n
      /\ \A i \in 1..n : ranges[i].start \in Nat /\ ranges[i].end \in Nat /\ ranges[i].start <= ranges[i].end
      /\ \A i \in 1..n : ranges[i].new \in Seq(STRING)
  BY DEF Ranged
<1>1. AtOnce(ranges) = FlattenSeq([k \in 1..(Len(text) + 1) |->
                         FlattenSeq(newsOf(k - 1, TRUE)) \o FlattenSeq(newsOf(k - 1, FALSE)) \o Kept(k - 1)])
  BY DEF AtOnce, Kept
<1>2. ASSUME NEW o, NEW b \in BOOLEAN PROVE FlattenSeq(newsOf(o, b)) = News(o, b)
  <2> DEFINE ss == newsOf(o, b)
             T == Seq(STRING)
  <2>1. ss = [i \in 1..n |-> ss[i]] /\ \A i \in 1..n : ss[i] = IF Put(i, o, b) THEN ranges[i].new ELSE <<>>
    BY <1>0 DEF Put
  <2> HIDE DEF ss
  <2>2. \A i \in 1..n : ss[i] \in T
    BY <1>0, <2>1, EmptySeq
  <2> HIDE DEF T
  <2>3. ss \in Seq(T) /\ Len(ss) = n
    BY <1>0, <2>1, <2>2
  <2>4. ss \in Seq(Seq(STRING)) /\ Len(ss) = n
    BY <2>3 DEF T
  <2>5. CASE \A i \in 1..n : ~Put(i, o, b)
    <3>1. FlattenSeq(ss) = <<>>
      BY <2>1, <2>4, <2>5, FlattenNone
    <3>2. News(o, b) = <<>>
      BY <1>0, <2>5, DueNone DEF News
    <3> QED BY <3>1, <3>2 DEF ss
  <2>6. ASSUME NEW i \in 1..n, Put(i, o, b) PROVE FlattenSeq(ss) = News(o, b)
    <3>1. ASSUME NEW j \in 1..n, j # i PROVE ~Put(j, o, b)
      <4>1. CASE b = TRUE
        BY <1>0, <2>6, <3>1, <4>1 DEF Put, SharedInsert
      <4>2. CASE b = FALSE
        <5>1. ~Clash(ranges[i], ranges[j])
          BY <1>0, <3>1 DEF Ranged
        <5> QED BY <1>0, <2>6, <4>2, <5>1 DEF Put, Clash, IsInsert
      <4> QED BY <4>1, <4>2
    <3>2. ss[i] = ranges[i].new /\ \A j \in 1..n : j # i => ss[j] = <<>>
      BY <2>1, <2>6, <3>1
    <3>3. FlattenSeq(ss) = ranges[i].new
      BY <2>4, <3>2, FlattenOne
    <3>4. News(o, b) = ranges[i].new
      <4>1. i \in DOMAIN ranges /\ \A j \in DOMAIN ranges : j # i => ~Put(j, o, b)
        BY <1>0, <3>1
      <4> QED BY ONLY Ranged, b \in BOOLEAN, <2>6, <4>1, DueOne DEF News
    <3> QED BY <3>3, <3>4
  <2> QED BY <2>5, <2>6 DEF ss
<1> HIDE DEF newsOf
<1>3. ASSUME NEW o
      PROVE  FlattenSeq(newsOf(o, TRUE)) \o FlattenSeq(newsOf(o, FALSE)) \o Kept(o) = Piece(o)
  BY <1>2 DEF Piece
<1> QED BY <1>1, <1>3 DEF Result, Pieces

\* Without such inserts the document ends up as if all edits had been made at once, in
\* whatever order they were asked for (edit_apply.go:189-208).
THEOREM AppliedAtOnceHolds == EditSpec => []AppliedAtOnce
<1>1. EditInit => OnceInv
  BY DEF EditInit, OnceInv
<1>2. LoopInv /\ OnceInv => AppliedAtOnce
  BY DoneResult, NoDirection DEF AppliedAtOnce
<1> QED BY <1>1, <1>2, LoopInit, LoopNext, OnceNext, PTL DEF EditSpec

-----------------------------------------------------------------------------
(* Positions                                                               *)

\* The line of an offset, and whether it is between a carriage return and the end
\* of a line.
Line(o) == Cardinality({i \in Newlines : i <= o})
CutOff(o) == o > 0 /\ text[o] = CR /\ (o = Len(text) \/ text[o + 1] = NL)
Unbroken(s, o) == \A i \in Newlines : ~(s < i /\ i <= o)

\* Offsets are on one line if and only if no newline is between them.
LEMMA SameLine ==
  ASSUME text \in Seq(STRING), NEW a \in Nat, NEW b \in Nat, a <= b
  PROVE  /\ Line(a) \in Nat /\ Line(b) \in Nat /\ Line(a) <= Line(b)
         /\ Line(a) = Line(b) <=> Unbroken(a, b)
<1> DEFINE A == {i \in Newlines : i <= a}
           B == {i \in Newlines : i <= b}
<1>0. Len(text) \in Nat /\ DOMAIN text = 1..Len(text) /\ \A i \in Newlines : i \in 1..Len(text)
  BY DEF Newlines
<1>1. IsFiniteSet(Newlines)
  <2>1. IsFiniteSet(1..Len(text))
    BY <1>0, FS_Interval, 1 \in Int, Len(text) \in Int
  <2>2. Newlines \in SUBSET (1..Len(text))
    BY <1>0
  <2> QED BY <2>1, <2>2, FS_Subset
<1>2. A \subseteq B /\ IsFiniteSet(B) /\ IsFiniteSet(A)
  <2>1. A \subseteq Newlines /\ B \subseteq Newlines
    OBVIOUS
  <2>2. A \subseteq B
    BY <1>0
  <2> QED BY <1>1, <2>1, <2>2, FS_Subset
<1>3. A = B <=> Unbroken(a, b)
  BY <1>0 DEF Unbroken
<1> HIDE DEF A, B
<1>4. /\ Cardinality(A) \in Nat /\ Cardinality(B) \in Nat /\ Cardinality(A) <= Cardinality(B)
      /\ Cardinality(A) = Cardinality(B) <=> A = B
  BY <1>2, FS_Subset, FS_CardinalityType
<1>5. Line(a) = Cardinality(A) /\ Line(b) = Cardinality(B)
  BY DEF Line, A, B
<1> QED BY <1>3, <1>4, <1>5

\* The offsets up to the end of the line that begins at s, and no others, are on that
\* line and not cut off.
LEMMA LineEndExact ==
  ASSUME text \in Seq(STRING), NEW s \in {0} \cup Newlines, NEW o \in s..Len(text)
  PROVE  o <= LineEnd(s) <=> Unbroken(s, o) /\ ~CutOff(o)
<1> DEFINE after == {i \in Newlines : i > s}
           end == IF after = {} THEN Len(text) ELSE (CHOOSE i \in after : \A j \in after : i <= j) - 1
<1>0. /\ Len(text) \in Nat /\ DOMAIN text = 1..Len(text) /\ \A i \in Newlines : i \in 1..Len(text)
      /\ s \in 0..Len(text) /\ o \in 0..Len(text) /\ s <= o
  BY DEF Newlines
<1>1. /\ end \in 0..Len(text) /\ s <= end
      /\ Unbroken(s, o) <=> o <= end
      /\ end = Len(text) \/ end + 1 \in Newlines
      /\ Unbroken(s, end)
  <2>1. CASE after = {}
    BY <1>0, <2>1 DEF Unbroken
  <2>2. CASE after # {}
    <3>1. after \in SUBSET Nat
      BY <1>0
    <3>2. \E i \in after : \A j \in after : i <= j
      <4> HIDE DEF after
      <4> QED BY <2>2, <3>1, Least
    <3>3. PICK m \in after : m = (CHOOSE i \in after : \A j \in after : i <= j) /\ \A j \in after : m <= j
      BY <3>2
    <3>4. end = m - 1
      BY <2>2, <3>3
    <3>5. m \in Newlines /\ m > s /\ \A i \in Newlines : i > s => m <= i
      BY <3>3
    <3> HIDE DEF end
    <3> QED BY <1>0, <3>4, <3>5 DEF Unbroken
  <2> QED BY <2>1, <2>2
<1>2. LineEnd(s) = IF end > s /\ text[end] = CR THEN end - 1 ELSE end
  BY DEF LineEnd
<1> HIDE DEF end, after
<1>3. PICK e \in 0..Len(text) :
        /\ s <= e
        /\ Unbroken(s, o) <=> o <= e
        /\ e = Len(text) \/ e + 1 \in Newlines
        /\ Unbroken(s, e)
        /\ LineEnd(s) = IF e > s /\ text[e] = CR THEN e - 1 ELSE e
  BY <1>1, <1>2
<1>4. o \in Nat /\ e \in Nat /\ s \in Nat /\ Len(text) \in Nat /\ s <= o /\ o <= Len(text) /\ e <= Len(text)
  BY <1>0
<1>5. /\ s > 0 => text[s] # CR
      /\ e + 1 \in Newlines => text[e + 1] = NL
      /\ o < Len(text) /\ text[o + 1] = NL => o + 1 \in Newlines
  BY <1>0, <1>4 DEF Newlines, NL, CR
<1>6. CASE o > e
  BY <1>3, <1>4, <1>6
<1>7. CASE o = e
  <2>1. CutOff(e) <=> e > s /\ text[e] = CR
    BY <1>3, <1>4, <1>5 DEF CutOff
  <2> QED BY <1>3, <1>4, <1>7, <2>1
<1>8. CASE o < e
  <2>1. o + 1 \notin Newlines
    BY <1>3, <1>4, <1>8 DEF Unbroken
  <2>2. ~CutOff(o)
    BY <1>3, <1>4, <1>5, <1>8, <2>1 DEF CutOff
  <2> QED BY <1>3, <1>4, <1>8, <2>2
<1> QED BY <1>4, <1>6, <1>7, <1>8

\* Every offset is on a line that begins somewhere.
LEMMA LineStart ==
  ASSUME text \in Seq(STRING), NEW o \in 0..Len(text)
  PROVE  \E s \in {0} \cup Newlines : s <= o /\ Unbroken(s, o)
<1>0. Len(text) \in Nat /\ DOMAIN text = 1..Len(text) /\ \A i \in Newlines : i \in 1..Len(text)
  BY DEF Newlines
<1> DEFINE back == {k \in 0..o : o - k \in {0} \cup Newlines}
<1>1. back \in SUBSET Nat /\ o \in back
  BY <1>0
<1>2. PICK m \in back : \A k \in back : m <= k
  <2> HIDE DEF back
  <2> QED BY <1>1, Least
<1>3. o - m \in {0} \cup Newlines /\ o - m <= o
  BY <1>0, <1>2
<1>4. ASSUME NEW i \in Newlines, o - m < i, i <= o PROVE FALSE
  <2>1. o - i \in 0..o /\ o - (o - i) = i
    BY <1>0, <1>2, <1>4
  <2>2. o - i \in back
    BY <2>1
  <2> QED BY <1>0, <1>2, <1>4, <2>2
<1> QED BY <1>3, <1>4 DEF Unbroken

\* As many offsets are on earlier lines as there are in front of the line.
LEMMA OffsetsBefore ==
  ASSUME text \in Seq(STRING), NEW o \in 0..Len(text), NEW s \in {0} \cup Newlines, s <= o, Unbroken(s, o)
  PROVE  Cardinality({k \in 0..o : Line(k) < Line(o)}) = s
<1>0. Len(text) \in Nat /\ DOMAIN text = 1..Len(text) /\ s \in Nat /\ \A i \in Newlines : i \in 1..Len(text)
  BY DEF Newlines
<1>1. ASSUME NEW k \in 0..o PROVE Line(k) < Line(o) <=> k < s
  <2>1. Line(s) = Line(o) /\ Line(s) \in Nat
    BY <1>0, SameLine
  <2>2. CASE k < s
    <3>1. s \in Newlines /\ ~Unbroken(k, s)
      BY <1>0, <2>2 DEF Unbroken
    <3>2. Line(k) \in Nat /\ Line(k) <= Line(s) /\ Line(k) # Line(s)
      BY <1>0, <2>2, <3>1, SameLine
    <3> QED BY <2>1, <2>2, <3>2
  <2>3. CASE k >= s
    <3>1. Line(k) \in Nat /\ Line(s) <= Line(k)
      BY <1>0, <2>3, SameLine
    <3> QED BY <1>0, <2>1, <2>3, <3>1
  <2> QED BY <1>0, <2>2, <2>3
<1>2. {k \in 0..o : Line(k) < Line(o)} = 0..(s - 1)
  BY <1>0, <1>1
<1>3. Cardinality(0..(s - 1)) = s
  BY <1>0, FS_Interval
<1> QED BY <1>2, <1>3

\* A position is resolved to the place in the text that has it and to no other, in
\* any text (lspPositionToOffset, edit_apply.go:262-332).
THEOREM PositionsExactHolds == EditSpec => []PositionsExact
<1>1. ASSUME EditTypeOK PROVE PositionsExact
  <2> DEFINE before(o) == Cardinality({k \in 0..o : Line(k) < Line(o)})
             column(o) == Units(before(o), o)
             places == {o \in 0..Len(text) : ~CutOff(o)}
  <2>0. /\ text \in Seq(STRING) /\ Len(text) \in Nat /\ DOMAIN text = 1..Len(text)
        /\ \A i \in Newlines : i \in 1..Len(text)
    BY <1>1, InputAssumption DEF EditTypeOK, Newlines
  <2>1. ASSUME NEW p \in Positions, NEW o \in Offsets(p)
        PROVE  o \in places /\ p = [line |-> Line(o), column |-> column(o)]
    <3>1. PICK s \in LineStarts(p.line) : o \in s..LineEnd(s) /\ Units(s, o) = p.column
      BY <2>1 DEF Offsets
    <3>2. s \in {0} \cup Newlines /\ Line(s) = p.line
      BY <3>1 DEF LineStarts, Line
    <3>3. o \in 0..Len(text) /\ s \in Nat
      BY <2>0, <2>1, <3>2, OffsetsInside
    <3>4. s <= o /\ o <= LineEnd(s)
      <4>1. s \in 0..Len(text)
        BY <2>0, <3>2
      <4>2. LineEnd(s) \in Int
        BY <2>0, <4>1, LineEndInside
      <4> QED BY <3>1, <3>3, <4>2
    <3>5. Unbroken(s, o) /\ ~CutOff(o)
      BY <2>0, <3>2, <3>3, <3>4, LineEndExact
    <3>6. Line(o) = p.line
      BY <2>0, <3>2, <3>3, <3>4, <3>5, SameLine
    <3>7. before(o) = s
      BY <2>0, <3>2, <3>3, <3>4, <3>5, OffsetsBefore
    <3>8. column(o) = p.column
      BY <3>1, <3>7
    <3>9. p = [line |-> p.line, column |-> p.column]
      BY DEF Positions
    <3> QED BY <3>3, <3>5, <3>6, <3>8, <3>9
  <2>2. ASSUME NEW p \in Positions, NEW o \in places, p = [line |-> Line(o), column |-> column(o)]
        PROVE  o \in Offsets(p)
    <3>1. PICK s \in {0} \cup Newlines : s <= o /\ Unbroken(s, o)
      BY <2>0, LineStart
    <3>2. s \in Nat /\ s \in 0..Len(text)
      BY <2>0, <3>1
    <3>3. Line(s) = Line(o) /\ before(o) = s
      BY <2>0, <3>1, <3>2, SameLine, OffsetsBefore
    <3>4. p.line = Line(o) /\ p.column = Units(s, o)
      BY <2>2, <3>3
    <3>5. s \in LineStarts(p.line)
      BY <3>1, <3>3, <3>4 DEF LineStarts, Line
    <3>6. o \in s..LineEnd(s)
      <4>1. o <= LineEnd(s)
        BY <2>0, <3>1, <3>2, LineEndExact
      <4>2. LineEnd(s) \in Int
        BY <2>0, <3>2, LineEndInside
      <4> QED BY <3>1, <3>2, <4>1, <4>2
    <3> QED BY <3>4, <3>5, <3>6 DEF Offsets
  <2>3. \A p \in Positions : \A o \in Offsets(p) : o \in 0..Len(text)
    BY <2>0, OffsetsInside
  <2> QED BY <2>1, <2>2, <2>3 DEF PositionsExact, Line, CutOff
<1> QED BY <1>1, EditTypeOKHolds, PTL
===============================================================================
