--------------------------- MODULE AcceptedMemory ---------------------------
(***************************************************************************)
(* What review promises about the accepted memory of one project: each     *)
(* publication adds the memory of one candidate as the next generation,    *)
(* and the only other change withdraws everything a candidate contributed. *)
(***************************************************************************)
EXTENDS Naturals

CONSTANT Candidates

VARIABLES
    generation,    \* the last generation published
    canon          \* accepted memory: <<candidate, generation>> pairs

vars == <<generation, canon>>

Init == generation = 0 /\ canon = {}

Publish(c) ==
    /\ generation' = generation + 1
    /\ canon' = canon \union {<<c, generation + 1>>}

Withdraw(c) ==
    /\ canon' = {m \in canon : m[1] # c}
    /\ UNCHANGED generation

Next == \E c \in Candidates : Publish(c) \/ Withdraw(c)

Spec == Init /\ [][Next]_vars

=============================================================================
