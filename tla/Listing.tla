------------------------------ MODULE Listing -------------------------------
(***************************************************************************)
(* GET /documents (list_my_documents, list_documents): the owner's library *)
(* filtered, sorted and cut into pages.  Each page is a query of its own,  *)
(* and PostgreSQL may give rows that ORDER BY does not tell apart in       *)
(* another order each time.                                                *)
(*                                                                         *)
(* A library is a set of rows; a title is the key it sorts by, lower(title)*)
(* and the searches it matches.  A filter field that is None is not given. *)
(***************************************************************************)
EXTENDS Integers, Sequences, FiniteSets

CONSTANTS
  None,
  MaxLimit   \* the greatest limit the endpoint takes

Columns == {"created_at", "updated_at", "title"}
Orders == {"asc", "desc"}

Given(field, test) == field = None \/ test

\* The predicates of the WHERE clause.
Matches(doc, filter) ==
  /\ doc.owner = filter.owner
  /\ ~doc.deleted
  /\ Given(filter.spoke, doc.spoke = filter.spoke)
  /\ Given(filter.statuses, doc.status \in filter.statuses)
  /\ Given(filter.origin, doc.origin = filter.origin)
  /\ Given(filter.q, filter.q \in doc.title.matches)

Key(doc, column) ==
  CASE column = "created_at" -> doc.created_at
    [] column = "updated_at" -> doc.updated_at
    [] column = "title" -> doc.title.key

\* Mutant: the sort column alone.
PrecedesByColumn(d, e, column, order) ==
  IF order = "asc" THEN Key(d, column) < Key(e, column) ELSE Key(d, column) > Key(e, column)

\* ORDER BY column order, document_id order
Precedes(d, e, column, order) ==
  LET less(a, b) == Key(a, column) < Key(b, column)
                    \/ (Key(a, column) = Key(b, column) /\ a.document_id < b.document_id)
  IN  IF order = "asc" THEN less(d, e) ELSE less(e, d)

\* The orders the rows may be given in.
Sorted(rows, column, order) ==
  {s \in [1..Cardinality(rows) -> rows] :
    \A i, j \in DOMAIN s : i < j => s[i] # s[j] /\ ~Precedes(s[j], s[i], column, order)}

\* LIMIT limit OFFSET offset
Cut(s, limit, offset) ==
  SubSeq(s, offset + 1, IF offset + limit < Len(s) THEN offset + limit ELSE Len(s))

\* A library is finite, its ids are unique, and what it sorts by is ordered.
IsLibrary(library) ==
  /\ IsFiniteSet(library)
  /\ \A d \in library : d.document_id \in Nat /\ \A column \in Columns : Key(d, column) \in Nat
  /\ \A d, e \in library : d.document_id = e.document_id => d = e

\* What the endpoint takes: anything else is a 400 or a 422.
ValidRequest(filter, column, order, limit) ==
  /\ filter.origin \in {None, "uploaded", "generated"}
  /\ column \in Columns /\ order \in Orders
  /\ limit \in 1..MaxLimit

\* list_documents: what it may return.
ListDocuments(library, filter, column, order, limit, offset) ==
  LET rows == {d \in library : Matches(d, filter)}
  IN  [items : {Cut(s, limit, offset) : s \in Sorted(rows, column, order)},
       total : {Cardinality(rows)}]

-----------------------------------------------------------------------------
\* A reader who asks for page after page, until total is reached, is shown every
\* document that matches once and nothing else, though many share a sort key and
\* each page is sorted anew (list_documents: "for a stable order when the primary
\* sort column ties").
PagesShowEachOnce(library, filter, column, order, limit) ==
  LET rows == {d \in library : Matches(d, filter)}
      pages == 0..((Cardinality(rows) - 1) \div limit)
      results == [p \in pages |-> ListDocuments(library, filter, column, order, limit, p * limit)]
  IN  \A shown \in [pages -> UNION {results[p] : p \in pages}] :
        (\A p \in pages : shown[p] \in results[p]) =>
          \A d \in library :
            Cardinality({at \in pages \X (1..limit) :
                          /\ at[2] \in DOMAIN shown[at[1]].items
                          /\ shown[at[1]].items[at[2]] = d})
            = IF d \in rows THEN 1 ELSE 0
=============================================================================
