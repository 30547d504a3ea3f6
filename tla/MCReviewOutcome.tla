--------------------------- MODULE MCReviewOutcome ---------------------------
\* Instances of ReviewOutcome for TLC.
EXTENDS ReviewOutcome, TLC

Symmetry == Permutations(Handlers) \cup Permutations(LogBooks)
=============================================================================
