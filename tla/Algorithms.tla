----------------------------- MODULE Algorithms -----------------------------
(***************************************************************************)
(* What is computed without touching anything: what comes out of an        *)
(* archive, the chunks of a text and of a statute, the pages of a listing. *)
(* The constants are the inputs that are looked at.  Having no state, they *)
(* are looked at in the initial state.                                     *)
(***************************************************************************)
EXTENDS Filing, Chunking, LawChunking, Listing

CONSTANTS
  Archives,   \* the members of zip files
  Texts,      \* the lines of documents
  Statutes,   \* the sections of statutes
  Libraries,  \* sets of documents rows
  Filters     \* what GET /documents may ask for

ASSUME InputsAssumption ==
  /\ Archives \subseteq Seq(Member)
  /\ Texts \subseteq Seq(Line)
  /\ Statutes \subseteq Seq(Section)
  /\ \A library \in Libraries : IsLibrary(library)
  /\ MaxLimit \in Nat

\* What extract_archive makes of an archive is what Archive's ExtractsWhatItShould
\* says without the loop.
ArchivesExtract == Init => \A archive \in Archives : ExtractsWhatItShould(archive)

\* chunk_document loses no line of a text (Chunking's CoversText).
ChunksCoverText == Init => \A lines \in Texts : CoversText(lines)

\* chunk_document keeps near its target (Chunking's StaysNearTarget).
ChunksStayNearTarget == Init => \A lines \in Texts : StaysNearTarget(lines)

\* chunk_sections quotes what the statute says (LawChunking's
\* QuotesEachSectionWhole).
StatutesAreQuotedWhole == Init => \A statute \in Statutes : QuotesEachSectionWhole(statute)

\* list_documents shows each document on one page (Listing's PagesShowEachOnce),
\* for every request list_my_documents takes.
PagesListTheLibrary == Init =>
  \A library \in Libraries, filter \in Filters, column \in Columns, order \in Orders,
     limit \in 1..MaxLimit :
    ValidRequest(filter, column, order, limit) =>
      PagesShowEachOnce(library, filter, column, order, limit)
=============================================================================
