---------------------------- MODULE MCDraftSync -----------------------------
(***************************************************************************)
(* An instance of DraftSync: which page makes which edits, of which kind.  *)
(***************************************************************************)
EXTENDS DraftSync, TLC

CONSTANTS t1, t2, e1, e2, f2, v1

\* The user of the first page edits a node and a variable, that of the second
\* page a node or the features.
TwoPages  == t1 :> {e1, v1} @@ t2 :> {e2, f2}
EditsMade == t1 :> 2 @@ t2 :> 1
=============================================================================
