------------------------------ MODULE Chunking ------------------------------
(***************************************************************************)
(* chunk_document (chunking.py): the non-blank lines of a document's pages *)
(* are packed into chunks of about TARGET_MAX_TOKENS, cut early where a    *)
(* heading starts a section, each chunk repeating the tail of the one      *)
(* before it.                                                              *)
(*                                                                         *)
(* A line is its page, its number of tokens and whether it is a heading.   *)
(* A chunk is the interval of lines it holds, so the text it stands for,   *)
(* its pages and its overlaps can all be read off.  The tokens of a text   *)
(* are the sum over its lines: what the encoder merges across a line break *)
(* is below the precision of these limits.                                 *)
(***************************************************************************)
EXTENDS Integers, Sequences, FiniteSetsExt

CONSTANTS
  TargetMin,   \* TARGET_MIN_TOKENS
  TargetMax,   \* TARGET_MAX_TOKENS
  Overlap      \* OVERLAP_TOKENS

ASSUME TargetsAssumption ==
  /\ {TargetMin, TargetMax, Overlap} \subseteq Nat \ {0}
  /\ Overlap < TargetMax

Line == [tokens : Nat, heading : BOOLEAN]

-----------------------------------------------------------------------------
\* TokensUpTo(lines)[i]: the tokens of the first i lines.
TokensUpTo(lines) ==
  LET upto[i \in 0..Len(lines)] == IF i = 0 THEN 0 ELSE upto[i - 1] + lines[i].tokens
  IN  upto

\* Tokens of the lines from a to b.
Tokens(lines, a, b) ==
  IF a > b THEN 0 ELSE TokensUpTo(lines)[b] - TokensUpTo(lines)[a - 1]

\* Mutant: the whole chunk is carried over.
OverlapWhole(lines, a, b) == a

\* The first line of the tail that is carried into the next chunk: lines are
\* taken from the end until they hold Overlap tokens, or all of them.
OverlapFrom(lines, a, b) ==
  LET enough == {i \in a..b : Tokens(lines, i, b) >= Overlap}
  IN  IF enough = {} THEN a ELSE Max(enough)

\* flush: nothing to write when no line is pending.
Flush(acc, last) ==
  IF acc.from > last THEN acc.chunks
  ELSE Append(acc.chunks, [first |-> acc.from, last |-> last, section |-> acc.section,
                           index |-> Len(acc.chunks)])

\* Line i of the loop.  from..i-1 are the pending lines; a heading cuts them off
\* at half the lower target, and the next chunk begins at line next.
TakeLineThenFrom(lines, acc, i, next) ==
  LET cut == /\ lines[i].heading
             /\ acc.from < i
             /\ Tokens(lines, acc.from, i - 1) >= TargetMin \div 2
      full == ~lines[i].heading /\ Tokens(lines, acc.from, i) >= TargetMax
  IN  [chunks  |-> IF cut THEN Flush(acc, i - 1)
                   ELSE IF full THEN Flush(acc, i) ELSE acc.chunks,
       from    |-> IF cut THEN next
                   ELSE IF full THEN OverlapFrom(lines, acc.from, i) ELSE acc.from,
       section |-> IF lines[i].heading THEN i ELSE acc.section]

\* Mutant: the heading that cuts is not kept.
TakeLineAfterHeading(lines, acc, i) == TakeLineThenFrom(lines, acc, i, i + 1)

\* A heading begins the chunk after the one it cuts.
TakeLine(lines, acc, i) == TakeLineThenFrom(lines, acc, i, i)

NothingPacked == [chunks |-> <<>>, from |-> 1, section |-> 0]

\* Packed(lines)[i]: after i lines.
Packed(lines) ==
  LET packed[i \in 0..Len(lines)] ==
        IF i = 0 THEN NothingPacked ELSE TakeLine(lines, packed[i - 1], i)
  IN  packed

ChunkDocument(lines) == Flush(Packed(lines)[Len(lines)], Len(lines))

-----------------------------------------------------------------------------
\* Every line is in a chunk, chunks come in document order without a gap, and
\* their indices are their positions: the Document Viewer shows the source text
\* by sorting on chunk_index, and no passage is out of retrieval's reach.
CoversText(lines) ==
  LET chunks == ChunkDocument(lines) IN
  /\ (lines # <<>>) => (chunks # <<>> /\ chunks[1].first = 1)
  /\ (chunks # <<>>) => chunks[Len(chunks)].last = Len(lines)
  /\ \A c \in DOMAIN chunks :
       /\ chunks[c].index = c - 1
       /\ chunks[c].first <= chunks[c].last
       /\ c > 1 => /\ chunks[c].first \in chunks[c - 1].first..(chunks[c - 1].last + 1)
                   /\ chunks[c].last >= chunks[c - 1].last

\* A heading is one short line: the pattern takes some eighty characters.
HeadingsAreShort(lines) ==
  \A i \in DOMAIN lines : lines[i].heading => lines[i].tokens <= TargetMax - TargetMin \div 2

\* Where no line is longer than the target less the overlap, and a heading fits
\* behind what it does not cut off, a chunk passes the target by its last line at
\* most, so it stays far below what the embedding model accepts, and it repeats
\* less than a line more than Overlap.
StaysNearTarget(lines) ==
  LET chunks == ChunkDocument(lines) IN
  /\ \A i \in DOMAIN lines : lines[i].tokens <= TargetMax - Overlap
  /\ HeadingsAreShort(lines)
  => \A c \in DOMAIN chunks :
       /\ Tokens(lines, chunks[c].first, chunks[c].last - 1) < TargetMax
       /\ c > 1 => Tokens(lines, chunks[c].first + 1, chunks[c - 1].last) < Overlap
=============================================================================
