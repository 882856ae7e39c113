---------------------------- MODULE MCHubBackup ----------------------------
(* Small instances of HubBackup; processes and paths are interchangeable.   *)
EXTENDS HubBackup, TLC

CONSTANTS o1, o2, b1, b2, b3

TwoOperators == {o1, o2}
ThreeBackups == {b1, b2, b3}
Alike == Permutations(Operators) \cup Permutations(Backups)
=============================================================================
