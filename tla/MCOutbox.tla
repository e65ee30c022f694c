------------------------------ MODULE MCOutbox ------------------------------
(* Instances of Outbox for TLC: see the MCOutbox*.cfg files. *)
EXTENDS Outbox, TLC

CONSTANTS s1, s2, v1, v2, c1, e1, w1, w2

Bound(about, commands, claims) == [about |-> about, commands |-> commands, claims |-> claims]

\* One notice of each kind, with a cancel or a repeated command and a second
\* claim; two results, whose callbacks are attached but not claimed.
OutboxBudgets == {Bound({v1}, 2, 2), Bound({c1}, 2, 2), Bound({e1}, 2, 2), Bound({v1, v2}, 3, 0)}

\* An event that is broadcast twice.
EventBudgets == {Bound({e1}, 2, 1)}

OutboxSymmetry ==
    Permutations(Sessions) \cup Permutations(Versions) \cup Permutations(Workers)
=============================================================================
