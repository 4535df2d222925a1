------------------------------ MODULE TextEdits ------------------------------
(***************************************************************************)
(* The text edits of one document: pkg/lsp/edit_apply.go, from positions   *)
(* (line and UTF-16 column) to offsets, the check for overlaps, and the    *)
(* loop that applies the edits from the last to the first.                 *)
(*                                                                         *)
(* Offsets count characters where the code counts bytes: it only ever cuts *)
(* between characters.  Line and Column range over what a position may     *)
(* carry, valid or not.  An edit is a range and the text to put there.     *)
(***************************************************************************)
EXTENDS Naturals, FiniteSets, Sequences, SequencesExt

CONSTANTS
  Texts,     \* documents
  Lines,     \* lines a position may name
  Columns,   \* columns a position may name
  NewTexts,  \* texts an edit may put in
  MaxEdits   \* bound: edits in one request

\* What the code tells apart: line ends, a trailing carriage return, and the
\* characters that take two UTF-16 units.
NL == "newline"
CR == "return"
Wide == "wide"

ASSUME InputAssumption ==
  /\ \A t \in Texts \cup NewTexts : t \in Seq(STRING)
  /\ Lines \subseteq Nat /\ Columns \subseteq Nat /\ MaxEdits \in Nat

VARIABLES
  text,     \* the document
  edits,    \* the edits asked for, in their order
  phase,    \* "asking", "applying", "done", "rejected"
  ranges,   \* the edits as offsets
  todo,     \* those not applied yet
  patched   \* the document so far

editVars == <<text, edits, phase, ranges, todo, patched>>

Positions == [line : Lines, column : Columns]
Edits == [from : Positions, to : Positions, new : NewTexts]

EditTypeOK ==
  /\ text \in Texts
  /\ edits \in Seq(Edits) /\ Len(edits) <= MaxEdits
  /\ phase \in {"asking", "applying", "done", "rejected"}
  /\ ranges \in Seq([start : 0..Len(text), end : 0..Len(text), new : NewTexts])
  /\ todo \subseteq DOMAIN ranges
  /\ patched \in Seq(STRING)
  /\ \A i \in DOMAIN ranges : ranges[i].start <= ranges[i].end

EditInit ==
  /\ text \in Texts
  /\ edits = <<>>
  /\ phase = "asking"
  /\ ranges = <<>>
  /\ todo = {}
  /\ patched = text

-----------------------------------------------------------------------------
(* lspPositionToOffset                                                     *)

Newlines == {i \in DOMAIN text : text[i] = NL}

\* Offsets at which line n begins: one, or none if there are fewer lines.
LineStarts(n) == {o \in {0} \cup Newlines : Cardinality({i \in Newlines : i <= o}) = n}

\* Where the line beginning at o ends, without its newline and a carriage
\* return in front of it.
LineEnd(o) ==
  LET after == {i \in Newlines : i > o}
      end == IF after = {} THEN Len(text) ELSE (CHOOSE i \in after : \A j \in after : i <= j) - 1
  IN IF end > o /\ text[end] = CR THEN end - 1 ELSE end

\* UTF-16 units between two offsets.
Units(a, b) == (b - a) + Cardinality({i \in (a + 1)..b : text[i] = Wide})

\* (mutant) Columns count characters.
OffsetsByCharacter(p) ==
  UNION {{o \in s..LineEnd(s) : o - s = p.column} : s \in LineStarts(p.line)}

\* Offsets a position stands for: one, or none if the line is out of range, the
\* column is, or it falls inside a character.
Offsets(p) ==
  UNION {{o \in s..LineEnd(s) : Units(s, o) = p.column} : s \in LineStarts(p.line)}

OffsetOf(p) == CHOOSE o \in Offsets(p) : TRUE

-----------------------------------------------------------------------------
(* textEditRanges                                                          *)

RangeOf(e) == [start |-> OffsetOf(e.from), end |-> OffsetOf(e.to), new |-> e.new]

\* (mutant) The start may be behind the end.
ValidAnyOrder(e) == Offsets(e.from) # {} /\ Offsets(e.to) # {}

Valid(e) ==
  /\ Offsets(e.from) # {} /\ Offsets(e.to) # {}
  /\ OffsetOf(e.from) <= OffsetOf(e.to)

\* r comes before s in verifyNonOverlappingRanges, which sorts by start and end.
Precedes(r, s) == r.start < s.start \/ (r.start = s.start /\ r.end < s.end)

\* (mutant) Neighbours that end and start at one offset are taken to overlap.
NeighboursTouch(rs) ==
  \E i, j \in DOMAIN rs :
    /\ Precedes(rs[i], rs[j]) \/ (i < j /\ ~Precedes(rs[j], rs[i]))
    /\ rs[i].end >= rs[j].start

\* Of two neighbours in the sorted list the first reaches into the second.
NeighboursOverlap(rs) ==
  \E i, j \in DOMAIN rs :
    /\ Precedes(rs[i], rs[j]) \/ (i < j /\ ~Precedes(rs[j], rs[i]))
    /\ \A k \in DOMAIN rs : ~(Precedes(rs[i], rs[k]) /\ Precedes(rs[k], rs[j]))
    /\ rs[i].end > rs[j].start

-----------------------------------------------------------------------------
\* The server or the agent adds an edit to the request.
AskEdit ==
  /\ phase = "asking"
  /\ Len(edits) < MaxEdits
  /\ \E e \in Edits : edits' = Append(edits, e)
  /\ UNCHANGED <<text, phase, ranges, todo, patched>>

\* applyTextEdits computes every offset on the text as it was ...
TextEditRanges ==
  LET rs == [i \in DOMAIN edits |-> RangeOf(edits[i])] IN
  /\ phase = "asking"
  /\ \A i \in DOMAIN edits : Valid(edits[i])
  /\ ~NeighboursOverlap(rs)
  /\ phase' = "applying"
  /\ ranges' = rs
  /\ todo' = DOMAIN edits
  /\ UNCHANGED <<text, edits, patched>>

\* ... and refuses them all if one is invalid or two overlap.
Reject ==
  /\ phase = "asking"
  /\ \/ \E i \in DOMAIN edits : ~Valid(edits[i])
     \/ /\ \A i \in DOMAIN edits : Valid(edits[i])
        /\ NeighboursOverlap([i \in DOMAIN edits |-> RangeOf(edits[i])])
  /\ phase' = "rejected"
  /\ UNCHANGED <<text, edits, ranges, todo, patched>>

\* (mutant) The sort compares starts only.
LastByStart(i) ==
  \A j \in todo \ {i} :
    ranges[j].start < ranges[i].start \/ (ranges[j].start = ranges[i].start /\ i < j)

\* (mutant) The edits are sorted from the first to the last, and then walked from the end.
LastOfAscending(i) ==
  \A j \in todo \ {i} :
    Precedes(ranges[j], ranges[i]) \/ (j < i /\ ~Precedes(ranges[i], ranges[j]))

\* The edit applied next: the last by start, then by end, then, the sort being
\* stable, the first of the request.
ComesNext(i) ==
  \A j \in todo \ {i} :
    Precedes(ranges[j], ranges[i]) \/ (i < j /\ ~Precedes(ranges[i], ranges[j]))

Splice(s, r) == SubSeq(s, 1, r.start) \o r.new \o SubSeq(s, r.end + 1, Len(s))

ApplyOne ==
  /\ phase = "applying"
  /\ \E i \in todo :
       /\ ComesNext(i)
       /\ patched' = Splice(patched, ranges[i])
       /\ todo' = todo \ {i}
  /\ UNCHANGED <<text, edits, phase, ranges>>

Finish ==
  /\ phase = "applying"
  /\ todo = {}
  /\ phase' = "done"
  /\ UNCHANGED <<text, edits, ranges, todo, patched>>

EditNext == AskEdit \/ TextEditRanges \/ Reject \/ ApplyOne \/ Finish

EditSpec == EditInit /\ [][EditNext]_editVars

-----------------------------------------------------------------------------
(* What the edits mean                                                     *)

\* A position exists if and only if a place in the text has it, counting
\* newlines and UTF-16 units in front of the place; no place lies between a
\* carriage return and the end of its line, nor inside a character
\* (edit_apply.go:262-332).
PositionsExact ==
  LET line(o) == Cardinality({i \in Newlines : i <= o})
      column(o) ==
        Units(Cardinality({k \in 0..o : line(k) < line(o)}), o)
      cutOff(o) == o > 0 /\ text[o] = CR /\ (o = Len(text) \/ text[o + 1] = NL)
      places == {o \in 0..Len(text) : ~cutOff(o)}
  IN phase = "asking" /\ edits = <<>> =>
       \A p \in Positions :
         Offsets(p) = {o \in places : p = [line |-> line(o), column |-> column(o)]}

IsInsert(r) == r.start = r.end

\* Two edits that cannot both be meant: they change the same character, or one
\* puts text inside what the other replaces.
Clash(r, s) ==
  IF IsInsert(r) /\ IsInsert(s) THEN FALSE ELSE r.start < s.end /\ s.start < r.end

\* The edits carried out at once: every character that no range covers is kept,
\* and in front of it comes what is put there: the inserts in the order of rs, then
\* a replacement that begins there.
AtOnce(rs) ==
  LET news(o, insert) ==
        FlattenSeq([i \in DOMAIN rs |->
          IF rs[i].start = o /\ IsInsert(rs[i]) = insert THEN rs[i].new ELSE <<>>])
      kept(o) ==
        IF o = Len(text) \/ \E i \in DOMAIN rs : rs[i].start <= o /\ o < rs[i].end
        THEN <<>> ELSE <<text[o + 1]>>
  IN FlattenSeq([k \in 1..(Len(text) + 1) |->
       news(k - 1, TRUE) \o news(k - 1, FALSE) \o kept(k - 1)])

\* Inserts at one place.
SharedInsert ==
  \E i, j \in DOMAIN ranges :
    i # j /\ IsInsert(ranges[i]) /\ IsInsert(ranges[j]) /\ ranges[i].start = ranges[j].start

\* The document ends up as if its edits had been made at once, on the text the
\* server saw, in whatever order they were asked for, except that inserts at
\* one place come in another order (edit_apply.go:189-208).
AppliedAtOnce == phase = "done" /\ ~SharedInsert => patched = AtOnce(ranges)

\* ... namely in the reverse of the order of the request: the sort is stable and the
\* text in front of an offset is not touched before the edits there, so nothing but
\* that order is lost, however inserts, replacements and deletions meet
\* (edit_apply.go:196-208).
AppliedBackwards == phase = "done" => patched = AtOnce(Reverse(ranges))

\* "applies a workspace edit to the filesystem following LSP position semantics"
\* (edit_apply.go:54-55), where inserts at one place appear in the order of the
\* request.
AppliedInOrder == phase = "done" => patched = AtOnce(ranges)

\* Comparing neighbours finds every clash and nothing else: a request is
\* refused exactly when a position does not exist in the text, a range ends
\* before it starts, or two of its edits cannot both be meant
\* (edit_apply.go:217-260).
RefusedRightly ==
  LET meant == /\ \A i \in DOMAIN edits : Valid(edits[i])
               /\ \A i, j \in DOMAIN edits :
                    i # j => ~Clash(RangeOf(edits[i]), RangeOf(edits[j]))
  IN /\ phase = "rejected" => ~meant
     /\ phase \in {"applying", "done"} => meant
=============================================================================
