------------------------- MODULE MCRunwayLifecycle -------------------------
(* Instances of RunwayLifecycle for TLC. *)
EXTENDS RunwayLifecycle, TLC

\* Runways, workers and attempts are interchangeable.
Symmetry == Permutations(Runways) \union Permutations(Workers)
                \union Permutations(Attempts)

=============================================================================
