----------------------------- MODULE MCRotation -----------------------------
(* Instances of Rotation for TLC: see the MCRotation*.cfg files. *)
EXTENDS Rotation, TLC

CONSTANTS c1, c2, c3, r1, r2, k1, k2, t1, t2

Load(calls, claims, checkpoints, edits, exhausted) ==
    [calls |-> calls, claims |-> claims, checkpoints |-> checkpoints,
     edits |-> edits, exhausted |-> exhausted]

\* Two commands at a time with one edit by hand, or with full conversations;
\* one command with two edits, or with a second claim.
RotationLoads == {Load(2, 1, 2, 1, FALSE), Load(2, 1, 1, 0, TRUE),
                  Load(1, 1, 2, 2, FALSE), Load(1, 2, 2, 0, FALSE)}

\* A quarantine, a new rotation, and its recovery.
RecoveryLoads == {Load(1, 1, 2, 0, FALSE)}

RotationSymmetry == Permutations(Rotations) \cup Permutations(Calls)
                      \cup Permutations(Chats \ Handmade)
=============================================================================
