--------------------------- MODULE MCTokenRefresh ---------------------------
(***************************************************************************)
(* An instance of TokenRefresh: which page sends which request.            *)
(***************************************************************************)
EXTENDS TokenRefresh, TLC

CONSTANTS t1, t2, r1, r2, s1

\* Two pages, the first with a plain request and a stream.
TwoPages == r1 :> t1 @@ s1 :> t1 @@ r2 :> t2
=============================================================================
