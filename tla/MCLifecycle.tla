---------------------------- MODULE MCLifecycle ----------------------------
(* Small instances of DocumentLifecycle for TLC. *)
EXTENDS DocumentLifecycle

CONSTANTS d1, d2

\* Both documents hold the same bytes: the second upload meets the dedupe, or
\* races it, or comes after the first was deleted.
SameBytes == [d \in Docs |-> "sum"]

OwnBytes == [d \in Docs |-> d]

=============================================================================
