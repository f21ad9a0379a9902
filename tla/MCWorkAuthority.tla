-------------------------- MODULE MCWorkAuthority --------------------------
(* Instances of WorkAuthority: which runs the gate brings.                 *)
EXTENDS WorkAuthority, TLC

CONSTANTS author, author2, reviewer, corrector

\* One piece of work, its review and its correction.
ReviewedRuns == {author, reviewer, corrector}
\* One piece of work and its review.
OneReview == {author, reviewer}
\* Two pieces of work.
TwoRuns == {author, author2}
\* Two pieces of work and a review.
OneReviewOfTwo == {author, author2, reviewer}

AnyMode ==
    [r \in Runs |-> IF r = reviewer THEN "review"
                    ELSE IF r = corrector THEN "correction" ELSE "new"]
AnyEngine == [r \in Runs |-> IF r = reviewer THEN "codex" ELSE "claude"]

RefSymmetry == Permutations(Claims) \cup Permutations(Workers)
=============================================================================
