------------------------------ MODULE MCFiling ------------------------------
(* A small instance of Filing. *)
EXTENDS Algorithms, SequencesExt

Item(content, size, sum) == [content |-> content, size |-> size, sum |-> sum]
File(content, size, sum, members) ==
  [content |-> content, size |-> size, sum |-> sum, members |-> members]

\* a.pdf twice, a hidden file, b.png.
Letters == File("zip", 2, "letters",
  <<Item("pdf", 1, "a"), Item("hidden", 1, "h"), Item("pdf", 1, "a"), Item("png", 1, "b")>>)
\* More than the cap unpacked.
Bomb == File("zip", 1, "bomb", <<Item("pdf", 2, "c"), Item("pdf", 2, "e")>>)
\* Nothing in it that can be ingested.
Notes == File("zip", 1, "notes", <<Item("other", 1, "n")>>)
\* What Letters holds, on its own.
Single == File("pdf", 1, "a", <<>>)
Plain == File("other", 1, "p", <<>>)

\* One good entry, one that cannot be read.
Torn == File("zip", 1, "torn", <<Item("pdf", 1, "a"), Item("damaged", 1, "t")>>)

MCFiles == {Letters, Bomb, Notes, Single, Plain, Torn}
MCDeclared == {"pdf", "x-zip"}
OnePdf == {Single}

\* Requests of a kind are interchangeable.
Interchangeable == Permutations(Uploads) \cup Permutations(Moves)

\* A move touches one document: with moves under way there is no second one.
\* Nothing reads the spoke of an archive: all are filed under General.
Bounded ==
  /\ (\E m \in Moves : move[m].at # "idle") => Len(docs) <= 1
  /\ \A d \in DOMAIN docs : IsArchive(d) => docs[d].spoke = General
-----------------------------------------------------------------------------
(* Inputs for the algorithms. *)

SomeMembers ==
  [content : {"directory", "hidden", "damaged", "zip", "pdf"}, size : 0..3, sum : {"s"}]
ManyMembers == [content : {"directory", "hidden", "pdf"}, size : {1}, sum : {"s"}]
SomeArchives == SeqOf(SomeMembers, 3) \cup [1..5 -> ManyMembers]

SomeLines == [tokens : {2, 4, 7}, heading : BOOLEAN] \cup {[tokens |-> 1, heading |-> FALSE]}
SomeTexts == SeqOf(SomeLines, 6)

\* Sentences of which two fit, or not, or one alone does not, in up to three to a
\* line and two lines to a section; and two sections of lines of at most one.
SentencesOf(n) == [1..n -> [tokens : {3, 5, 9}]]
LongSections == SeqOf(UNION {SentencesOf(n) : n \in 0..3}, 2) \ {<<>>}
ShortLines == UNION {SentencesOf(n) : n \in 0..1}
SomeStatutes == {<<section>> : section \in LongSections}
                \cup {<<a, b>> : a \in [1..3 -> ShortLines], b \in [1..2 -> ShortLines]}

\* Three rows with two sort keys, so that some tie, and a row of another owner or
\* deleted.
Row(id, owner, deleted, key, time) ==
  [document_id |-> id, owner |-> owner, deleted |-> deleted, spoke |-> General,
   status |-> "indexed", origin |-> "uploaded", title |-> [key |-> key, matches |-> {"lease"}],
   created_at |-> time, updated_at |-> time]

SomeLibraries ==
  {{Row(i, "alice", FALSE, keys[i], 3 - keys[i]) : i \in 1..3} \cup {other} :
     keys \in [1..3 -> 1..2],
     other \in {Row(4, "bob", FALSE, 1, 1), Row(4, "alice", TRUE, 1, 1)}}

SomeFilters == [owner : {"alice"}, spoke : {None, General}, statuses : {None, {"failed"}},
                origin : {None}, q : {"lease"}]
=============================================================================
