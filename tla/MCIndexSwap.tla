---------------------------- MODULE MCIndexSwap ----------------------------
(* Small instances of IndexSwap; the processes are interchangeable.         *)
EXTENDS IndexSwap, TLC

CONSTANTS p1, p2

TwoProcs == {p1, p2}
(* One manual backup, or an index that goes bad. *)
ManualOrHarmed ==
  Cardinality({b \in DOMAIN backups : backups[b].kind = "manual"}) <= IF harmed THEN 0 ELSE 1

Alike == Permutations(Procs)
=============================================================================
