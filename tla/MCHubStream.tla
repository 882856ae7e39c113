---------------------------- MODULE MCHubStream ----------------------------
(* Small instances of HubStream.  Clock samples are 0 and 2, the one        *)
(* deadline and the one cutoff lie between them at 1.  A state is explored  *)
(* further only if it belongs to one of three families, each of which does  *)
(* without what the others are about.                                       *)
EXTENDS HubStream

CONSTANTS owner, t1, t2, e1, text, k1, o1, o2

OneActor == {owner}
OneTopic == {t1}
TwoTopics == {t1, t2}
OneEventType == {e1}
OneText == {text}
OneKey == {k1}
None == {}
OneOperator == {o1}
OneScope == {1}
AllInScope1 == [t \in Topics |-> 1]
TwoOperators == {o1, o2}
BeforeAndAfter == {0, 2}
Between == {1}
UpOrClear == {0, 1}
TwoScopes == {1, 2}
TopicPerScope == [t \in Topics |-> IF t = t1 THEN 1 ELSE 2]

(* No deadlines, votes or pins. *)
NothingDecorated ==
  /\ \A t \in Topics : topic[t] # NoTopic => topic[t].expires = Never
  /\ \A s \in Scopes : /\ votes[s] = {} /\ pinAudit[s] = {}
                        /\ \A p \in pubs[s] : p.expires = Never

(* At most one of three sets has elements. *)
AtMostOne(A, B, C) == Cardinality({i \in 1 .. 3 : <<A, B, C>>[i] # {}}) <= 1

(* One topic, its messages and their keys, votes or pins; no events. *)
WithVotes ==
  /\ topic[t2] = NoTopic /\ plan[o2] = NoPlan
  /\ topic[t1].generation <= 1 /\ epoch <= 1
  /\ topic[t1].expires = Never
  /\ \A s \in Scopes : next[s] <= 4 /\ AtMostOne(votes[s], pinAudit[s], keyed[s])

(* One scope and one operator: chains of events next to messages, one prune; *)
(* keys as long as there are three entries or less.                          *)
WithEvents ==
  /\ topic[t2] = NoTopic /\ plan[o2] = NoPlan
  /\ topic[t1].generation = 2 => schemas[t1][e1] = "live"
  /\ epoch <= 1
  /\ NothingDecorated
  /\ \A s \in Scopes : next[s] <= 4 \/ keyed[s] = {}

(* Two scopes of messages without keys, whose entries compete for a batch, *)
(* and two operators.                                                      *)
AcrossScopes ==
  /\ \A t \in Topics : topic[t].generation <= 1
  /\ \A s \in Scopes : next[s] <= 3 /\ keyed[s] = {}
  /\ NothingDecorated

Families == WithVotes \/ WithEvents \/ AcrossScopes
=============================================================================
