------------------------- MODULE MCGenerationReview -------------------------
(* Instance of GenerationReview for TLC: reviewers are interchangeable.     *)
EXTENDS GenerationReview, TLC

ReviewerSymmetry == Permutations(Reviewers)
=============================================================================
