------------------------- MODULE MCMemoryProjection -------------------------
(* Instances of MemoryProjection for TLC. *)
EXTENDS MemoryProjection, TLC

CONSTANTS a1, a2

\* The scope of a rejected candidate, and that of the project.
MCScopes == {{}, {a1, a2}}

MCJudged == {{}}

MCWide == {{a1, a2}}

\* Requests are alike when all of them may rebuild and delete.
Symmetry == Permutations(Workers)

=============================================================================
