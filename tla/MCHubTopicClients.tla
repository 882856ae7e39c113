------------------------- MODULE MCHubTopicClients -------------------------
(* A small instance of HubTopicClients: an owner, another actor, one topic, *)
(* one event type, clock samples on either side of the one deadline.        *)
EXTENDS HubTopicClients

CONSTANTS owner, helper, t1, e1, plain, edited

MCActors == {owner, helper}
MCTopics == {t1}
MCEventTypes == {e1}
MCTexts == {plain, edited}
MCInstants == {0, 2}
MCDeadlines == {1}
=============================================================================
