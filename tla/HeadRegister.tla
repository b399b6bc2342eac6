---------------------------- MODULE HeadRegister ----------------------------
(***************************************************************************)
(* What continuity publication promises about one tuple: a register that   *)
(* names the current runway, moved by atomic operations.  A runway is      *)
(* published at most once, on top of the runway it was proposed over, and  *)
(* withdrawing the current runway uncovers the one below it.  A runway     *)
(* whose record is overwritten loses its place in history: it may be       *)
(* published or withdrawn again, but the register still moves along the    *)
(* parents of the runways and the others keep what they were promised.     *)
(***************************************************************************)
CONSTANTS Runways, NoRunway

VARIABLES
    head,       \* the current runway
    parent,     \* the runway each runway was proposed over
    proposed,   \* runways that exist
    history,    \* runways that were published
    withdrawn,  \* runways that were invalidated
    loose       \* runways whose record was overwritten

vars == <<head, parent, proposed, history, withdrawn, loose>>

Init ==
    /\ head = NoRunway
    /\ parent = [r \in Runways |-> NoRunway]
    /\ proposed = {}
    /\ history = {}
    /\ withdrawn = {}
    /\ loose = {}

\* A candidate may rest on a head that has moved on since it was read.
Propose(r) ==
    /\ r \notin proposed
    /\ \E p \in history \union loose \union {NoRunway} :
          parent' = [parent EXCEPT ![r] = p]
    /\ proposed' = proposed \union {r}
    /\ UNCHANGED <<head, history, withdrawn, loose>>

\* An empty register takes any candidate, whatever it was proposed over.
Publish(r) ==
    /\ r \in proposed \ history
    /\ head \in {parent[r], NoRunway}
    /\ head' = r
    /\ history' = history \union ({r} \ loose)
    /\ UNCHANGED <<parent, proposed, withdrawn, loose>>

Withdraw(r) ==
    /\ r \in (history \ withdrawn) \union loose
    /\ withdrawn' = withdrawn \union ({r} \ loose)
    /\ head' = IF head = r THEN parent[r] ELSE head
    /\ UNCHANGED <<parent, proposed, history, loose>>

\* The register itself does not move.
Overwrite(r) ==
    /\ r \in proposed \ loose
    /\ history' = history \ {r}
    /\ withdrawn' = withdrawn \ {r}
    /\ loose' = loose \union {r}
    /\ UNCHANGED <<head, parent, proposed>>

Next == \E r \in Runways : Propose(r) \/ Publish(r) \/ Withdraw(r) \/ Overwrite(r)

Spec == Init /\ [][Next]_vars

=============================================================================
