---------------------------- MODULE MCHubCursor ----------------------------
(* Small instances of HubCursor.  The first has everything but keys, votes   *)
(* and pins; a state is explored further only if it belongs to one of two    *)
(* families: two workers over messages alone, or one over all there is.      *)
EXTENDS HubCursor, TLC

CONSTANTS owner, t1, t2, e1, text, k1, o1, x1, w1, w2

OneActor == {owner}
OneTopic == {t1}
TwoTopics == {t1, t2}
OneEventType == {e1}
OneText == {text}
OneOperator == {o1}
BeforeAndAfter == {0, 2}
Between == {1}
None == {}
OneScope == {1}
AllInScope1 == [t \in Topics |-> 1]
OneSubscription == {x1}
OneWorker == {w1}
TwoWorkers == {w1, w2}
JustTwo == {2}
MessagesOnly == {{"message"}}
MessagesOrBoth == {{"message"}, {"message", "event"}}

(* The clock does not step back here. *)
TwoWorkersAtMessages ==
  /\ topic[t1].generation <= 1
  /\ topic[t1].expires = Never
  /\ \A s \in Scopes : \A p \in pubs[s] : p.expires = Never
  /\ \A s \in Scopes : \A p, q \in pubs[s] : p.seq < q.seq => p.at <= q.at
  /\ \A x \in Subscriptions : subs[x].kinds \subseteq {"message"} /\ subs[x].created = 0

OneWorkerFilters ==
  /\ \A s \in Scopes : next[s] <= 3
  /\ \A x \in Subscriptions : subs[x].created = 0
  /\ Cardinality({w \in Workers : page[w] # NoPage}) <= 1

TwoWorkersOrFilters == TwoWorkersAtMessages \/ OneWorkerFilters

WorkersAlike == Permutations(Workers)
=============================================================================
