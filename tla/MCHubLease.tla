----------------------------- MODULE MCHubLease -----------------------------
(* Three workers, two of them processes of one actor; one token more than   *)
(* workers, so that a fresh one always exists beside the row's.             *)
EXTENDS HubLease

CONSTANTS alice, bob, w1, w2, w3, k1, k2, k3, k4

ThreeWorkers == {w1, w2, w3}
ActorOfWorker == [w \in Workers |-> IF w = w3 THEN bob ELSE alice]
FourTokens == {k1, k2, k3, k4}
ShortOrLong == {1, 2}
=============================================================================
