------------------------- MODULE MCCandidateReview -------------------------
(* Instances of CandidateReview for TLC. *)
EXTENDS CandidateReview, TLC

CONSTANTS c1, c2, s1, s2, s3, e1, e2, l1

\* Spellings of one label give two entities; a row stored with the spelling s3
\* is not found by the label.
MCEntityId == (s1 :> e1) @@ (s2 :> e2) @@ (s3 :> e2)
MCLabel == (s1 :> l1) @@ (s2 :> l1) @@ (s3 :> l1)
MCStoredLabel == (s1 :> l1) @@ (s2 :> l1) @@ (s3 :> NoLabel)

\* The candidates are about one entity, or c2 about another as well.
Shared == [c \in Candidates |-> <<s1>>]
Overlapping == [c \in Candidates |-> IF c = c1 THEN <<s1>> ELSE <<s1, s2>>]

\* An edit may name an entity twice.
NoEdits == {}
AnyEdit == {<<s1, s1>>, <<s3>>}

\* A request may be cut off anywhere; only after a write does it matter.
Anywhere == Steps

Symmetry == Permutations(Workers)
SharedSymmetry == Permutations(Workers) \union Permutations(Candidates)

=============================================================================
