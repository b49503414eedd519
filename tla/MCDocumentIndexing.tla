------------------------- MODULE MCDocumentIndexing -------------------------
(* Document indexing on small sets of documents, chunks and requests. *)
EXTENDS DocumentIndexing, TLC

Symmetric == Permutations(Chunks) \union Permutations(Requests)

(***************************************************************************)
(* Bound: users who wait until a document is at rest before they recover,  *)
(* retry or delete it.                                                     *)
(***************************************************************************)
UsersWait == \A d \in Docs : ~overlapped[d]
=============================================================================
