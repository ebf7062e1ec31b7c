--------------------------- MODULE MCReviewClient ---------------------------
(* A page with a current and an archived run of up to two queries.         *)
EXTENDS ReviewClient
=============================================================================
