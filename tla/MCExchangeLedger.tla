-------------------------- MODULE MCExchangeLedger --------------------------
(* Instances of ExchangeLedger for TLC. *)
EXTENDS ExchangeLedger, TLC

\* The table of migration 001, and one that admits all that the handlers of
\* index.js write.
MCTables == {CheckedStates, CheckedStates \union {"archived"}}

\* The repository's own table only.
MCChecked == {CheckedStates}

\* MATRIX_EMAIL_QUEUE may be bound, and unbound, between requests.
MCBuffered == BOOLEAN

\* Personas, requests and consumers are interchangeable.
Symmetry == Permutations(Personas) \union Permutations(Requests)
                \union Permutations(Consumers)

=============================================================================
