--------------------------- MODULE MCAccessGrants ---------------------------
(* Instances of AccessGrants for TLC. *)
EXTENDS AccessGrants, TLC

CONSTANTS g1, g2, s1, p1, canon

\* Two approvals of one project for one assistant.
MCAssistantOf == [g \in Grants |-> s1]

MCProjectOf == [g \in Grants |-> p1]

\* One that is soon over, perhaps before it is approved, and one that starts
\* later and has no end.
MCTerms == {[starts |-> 0, expires |-> 1], [starts |-> 2, expires |-> Never]}

\* Nothing tells the two approvals apart, or the two requests.
Symmetry == Permutations(Workers) \union Permutations(Grants)

=============================================================================
