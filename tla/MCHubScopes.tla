---------------------------- MODULE MCHubScopes ----------------------------
(* Small instances of HubScopes.  A state is explored further only if it     *)
(* belongs to one of two families: commands of two releases that open one    *)
(* hub, or commands of one release that enrol repositories in two.           *)
EXTENDS HubScopes, FiniteSets, TLC

CONSTANTS p1, p2, p3, h1, h2, q1, q2, a1

ThreeProcesses == {p1, p2, p3}
TwoHomes == {h1, h2}
TwoPaths == {q1, q2}
OneActor == {a1}
TwoReleases == {2, 3}
TwoInos == {1, 2}

Opens ==
  /\ dirs = <<>>
  /\ hub[h2] = NoFile /\ \A p \in Processes : Home(p) # h2

(* Two commands that open their hub before the first repository is made, the *)
(* first, of the first home, before the second.  Two calls at once are about one repository;    *)
(* one call alone may meet two.                                              *)
Enrols ==
  LET calls == {p \in Processes : ~In(p, "none")}
  IN  /\ handle[p3] = Closed /\ Home(p1) # h2
      /\ At(p2, "closed") \/ hub[h1].version = 3
      /\ dirs = <<>> => ~At(p2, "open") \/ At(p1, "open")
      /\ \A p \in Processes : handle[p].release # 2 /\ ~handle[p].readOnly
      /\ dirs = <<>> \/ \A p \in Processes : At(p, "closed") \/ At(p, "open")
      /\ Cardinality(calls) = 2 => Len(dirs) = 1
      /\ \A h \in Homes : global[h] = 0 /\ \A a \in ActorIds : actors[h][a] = 0

OpensOrEnrols == Opens \/ Enrols

Alike == Permutations(Paths)
=============================================================================
