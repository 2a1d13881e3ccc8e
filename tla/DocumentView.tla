---------------------------- MODULE DocumentView ----------------------------
(***************************************************************************)
(* What the platform promises about one owner's documents, without the     *)
(* queue, the worker or the stores that keep the promise.                  *)
(*                                                                         *)
(* A document is listed once it is registered, becomes searchable when its *)
(* vectors are written, disappears from every listing the moment its       *)
(* deletion is accepted, and is erased only after its vectors are gone.    *)
(* An erased document never comes back, and nothing of it is searchable.   *)
(***************************************************************************)
CONSTANT Docs

VARIABLES
  phase,       \* phase[d]: "absent" -> "live" -> "tombstoned" -> "erased"
  searchable   \* the documents with at least one vector in the index

viewVars == <<phase, searchable>>

Phases == {"absent", "live", "tombstoned", "erased"}

ViewInit ==
  /\ phase = [d \in Docs |-> "absent"]
  /\ searchable = {}

Register(d) ==
  /\ phase[d] = "absent"
  /\ phase' = [phase EXCEPT ![d] = "live"]
  /\ UNCHANGED searchable

\* A document whose deletion was accepted may still gain vectors: its indexing
\* was under way. One that was never registered, or is erased, may not.
Index(d) ==
  /\ phase[d] \in {"live", "tombstoned"}
  /\ searchable' = searchable \cup {d}
  /\ UNCHANGED phase

Tombstone(d) ==
  /\ phase[d] = "live"
  /\ phase' = [phase EXCEPT ![d] = "tombstoned"]
  /\ UNCHANGED searchable

\* Vectors are dropped only for a document its owner deleted.
Purge(d) ==
  /\ phase[d] = "tombstoned"
  /\ searchable' = searchable \ {d}
  /\ UNCHANGED phase

Erase(d) ==
  /\ phase[d] = "tombstoned"
  /\ d \notin searchable
  /\ phase' = [phase EXCEPT ![d] = "erased"]
  /\ UNCHANGED searchable

ViewNext ==
  \E d \in Docs :
    Register(d) \/ Index(d) \/ Tombstone(d) \/ Purge(d) \/ Erase(d)

ViewSpec == ViewInit /\ [][ViewNext]_viewVars

=============================================================================
