---------------------------- MODULE MCPacingLock ----------------------------
(* Instances of PacingLock for TLC.                                        *)
EXTENDS PacingLock, TLC

CONSTANTS p1, p2, p3

Commands2 == {p1, p2}
Commands3 == {p1, p2, p3}
Heavy1 == {p1}
NoHeavy == {}
=============================================================================
