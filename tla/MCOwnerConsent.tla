--------------------------- MODULE MCOwnerConsent ---------------------------
(* Instances of OwnerConsent for TLC. *)
EXTENDS OwnerConsent, TLC

Symmetry == Permutations(Workers) \union Permutations(Ids \ StaleReads) \union
            Permutations(Subjects)

=============================================================================
