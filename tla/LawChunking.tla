---------------------------- MODULE LawChunking -----------------------------
(***************************************************************************)
(* chunk_sections (law/sectioner.py): the sections of a statute become the *)
(* chunks that are embedded and quoted.  A section that is too long is     *)
(* split between its lines, and a line that alone is too long between its  *)
(* sentences; nothing is repeated.  The sectioner counts with the tokens   *)
(* and the target of chunking.py.                                          *)
(*                                                                         *)
(* A section is its lines, a line its sentences (an empty line has none),  *)
(* a sentence its number of tokens.  A part is the interval of the section *)
(* it holds, from a sentence of its first line to a sentence of its last.  *)
(***************************************************************************)
EXTENDS Chunking

Sentence == [tokens : Nat]
Section == Seq(Seq(Sentence)) \ {<<>>}

-----------------------------------------------------------------------------
AllTokens(pieces) == Tokens(pieces, 1, Len(pieces))

\* The lines of a section, each with the tokens of its sentences.
Measured(section) == [l \in DOMAIN section |-> [tokens |-> AllTokens(section[l])]]

Oversized(line) == AllTokens(line) > TargetMax

Lines(section, a, b) == [first |-> a, from |-> 1, last |-> b, to |-> Len(section[b])]
Sentences(l, a, b) == [first |-> l, from |-> a, last |-> l, to |-> b]

\* Piece i does not fit behind those that are gathered, from..i-1.
Overflows(pieces, from, i) == from < i /\ Tokens(pieces, from, i) > TargetMax

NothingGathered == [parts |-> <<>>, from |-> 1]

\* One sentence of the loop over line l.
TakeSentence(section, l, acc, i) ==
  IF Overflows(section[l], acc.from, i)
  THEN [parts |-> Append(acc.parts, Sentences(l, acc.from, i - 1)), from |-> i]
  ELSE acc

\* SplitUpTo(section, l)[i]: after i sentences of line l.
SplitUpTo(section, l) ==
  LET split[i \in 0..Len(section[l])] ==
        IF i = 0 THEN NothingGathered ELSE TakeSentence(section, l, split[i - 1], i)
  IN  split

\* _split_oversized_line, of a line that has a sentence.
SplitOversizedLine(section, l) ==
  LET n == Len(section[l])
      split == SplitUpTo(section, l)[n]
  IN  Append(split.parts, Sentences(l, split.from, n))

\* The lines that are gathered become a part.
Close(section, acc, last) ==
  IF acc.from > last THEN acc.parts ELSE Append(acc.parts, Lines(section, acc.from, last))

\* Mutant: what was gathered before a line that is too long is dropped.
TakeOversizedLineAlone(section, acc, l) ==
  [parts |-> acc.parts \o SplitOversizedLine(section, l), from |-> l + 1]

\* A line that is too long closes what was gathered and is split on its own.
TakeOversizedLine(section, acc, l) ==
  [parts |-> Close(section, acc, l - 1) \o SplitOversizedLine(section, l), from |-> l + 1]

\* One line of the loop over a section.
TakeStatuteLine(section, acc, l) ==
  IF Oversized(section[l]) THEN TakeOversizedLine(section, acc, l)
  ELSE IF Overflows(Measured(section), acc.from, l)
  THEN [parts |-> Close(section, acc, l - 1), from |-> l]
  ELSE acc

\* GatheredUpTo(section)[l]: after l lines.
GatheredUpTo(section) ==
  LET gathered[l \in 0..Len(section)] ==
        IF l = 0 THEN NothingGathered ELSE TakeStatuteLine(section, gathered[l - 1], l)
  IN  gathered

\* _split_section_text
SplitSectionText(section) ==
  LET n == Len(section) IN
  IF AllTokens(Measured(section)) <= TargetMax THEN <<Lines(section, 1, n)>>
  ELSE Close(section, GatheredUpTo(section)[n], n)

PartsOf(sections, s) ==
  LET parts == SplitSectionText(sections[s])
  IN  [p \in DOMAIN parts |-> [section |-> s, part |-> p - 1, text |-> parts[p]]]

\* ChunkedUpTo(sections)[s]: the chunks of the first s sections.
ChunkedUpTo(sections) ==
  LET chunked[s \in 0..Len(sections)] ==
        IF s = 0 THEN <<>> ELSE chunked[s - 1] \o PartsOf(sections, s)
  IN  chunked

\* chunk_sections: chunk i of the result has chunk_index i - 1.
ChunkSections(sections) == ChunkedUpTo(sections)[Len(sections)]

-----------------------------------------------------------------------------
\* Sentence place of a line is where a part begins, and the one behind its end.
Begins(text, line, place) == text.first = line /\ text.from = place
Follows(section, text, line, place) ==
  \/ line = text.last /\ place = text.to + 1
  \/ line = text.last + 1 /\ place = 1 /\ text.to = Len(section[text.last])

\* What a text holds: its lines, less what it leaves of the first and the last.
TextTokens(section, text) ==
  Tokens(Measured(section), text.first, text.last)
    - Tokens(section[text.first], 1, text.from - 1)
    - Tokens(section[text.last], text.to + 1, Len(section[text.last]))

\* A part of a section runs forward; it passes the target only if it is a single
\* sentence; and it divides a line only if that line alone does not fit
\* (sectioner.py: "never mid-line").
SoundPart(section, text) ==
  /\ text.first \in 1..text.last /\ text.last \in DOMAIN section
  /\ text.from >= 1 /\ text.to \in 0..Len(section[text.last])
  /\ text.first = text.last => text.from <= text.to \/ section[text.last] = <<>>
  /\ TextTokens(section, text) > TargetMax => text.first = text.last /\ text.from = text.to
  /\ text.from # 1 => Oversized(section[text.first])
  /\ text.to # Len(section[text.last]) => Oversized(section[text.last])

\* A chunk begins where the one before it ends: in the same section with the next
\* part, or with the first part of the next section ("never across a section").
ContinuedBy(sections, c, d) ==
  \/ /\ d.section = c.section /\ d.part = c.part + 1
     /\ Follows(sections[c.section], c.text, d.text.first, d.text.from)
  \/ /\ d.section = c.section + 1 /\ d.part = 0
     /\ Follows(sections[c.section], c.text, Len(sections[c.section]) + 1, 1)
     /\ Begins(d.text, 1, 1)

\* The chunks hold every sentence of every section once, in order and under its own
\* citation, so that a quote of a chunk is a quote of the section it cites.
QuotesEachSectionWhole(sections) ==
  LET chunks == ChunkSections(sections)
      n == Len(chunks)
  IN  /\ (sections # <<>>) =>
           /\ n > 0
           /\ chunks[1].section = 1 /\ chunks[1].part = 0 /\ Begins(chunks[1].text, 1, 1)
           /\ chunks[n].section = Len(sections)
           /\ Follows(sections[Len(sections)], chunks[n].text, Len(sections[Len(sections)]) + 1, 1)
      /\ \A c \in DOMAIN chunks :
           /\ chunks[c].section \in DOMAIN sections
           /\ SoundPart(sections[chunks[c].section], chunks[c].text)
           /\ c > 1 => ContinuedBy(sections, chunks[c - 1], chunks[c])
=============================================================================
