-------------------------- MODULE MCDocumentReview --------------------------
(***************************************************************************)
(* Instances of DocumentReview for TLC.  Ids are model values and          *)
(* interchangeable; so are the handlers, and the values other than Null.   *)
(***************************************************************************)
EXTENDS DocumentReview, TLC

Symmetric == Permutations(Docs) \cup Permutations(Requests)
               \cup Permutations(Handlers) \cup Permutations(Values \ {Null})
=============================================================================
