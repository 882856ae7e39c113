-------------------------- MODULE HubTopicClients --------------------------
(***************************************************************************)
(* Actors that read a topic (ShowTopic, ListMaintainers, ShowEventSchema)  *)
(* and later change its policy with the generation they read.  Between the *)
(* two, other actors' changes commit.  "seen" is what each actor last read *)
(* of each topic, the generation it presents included.                     *)
(***************************************************************************)
EXTENDS HubTopic, FiniteSetsExt

VARIABLE seen

clientsVars == <<topic, roles, schemas, audit, seen>>

(* What a reader sees of a topic's policy. *)
Policy(t) == [row |-> topic[t], roles |-> roles[t], schemas |-> schemas[t]]

ClientsInit ==
  /\ TopicInit
  /\ seen = [a \in Actors |-> [t \in Topics |-> Policy(t)]]

ReadTopic(a, t) ==
  /\ Exists(t)
  /\ seen' = [seen EXCEPT ![a][t] = Policy(t)]
  /\ UNCHANGED topicVars

(* A change by actor a with the generation it read last. *)
ChangePolicy(a, t) ==
  /\ PolicyChange(a, t, seen[a][t].row.generation)
  /\ UNCHANGED seen

ClientsNext ==
  \E a \in Actors, t \in Topics :
     \/ Create(a, t) /\ UNCHANGED seen
     \/ ReadTopic(a, t)
     \/ ChangePolicy(a, t)

ClientsSpec == ClientsInit /\ [][ClientsNext]_clientsVars

-----------------------------------------------------------------------------
(* Properties. *)

(* The generation an actor presents stands for everything it read: as long *)
(* as the generation it holds is current, so are the text, the deadline,   *)
(* the archive state, the maintainers and the event types it saw.  This is *)
(* what makes topicForWrite's compare-and-swap on the generation alone     *)
(* (topic.go:426) protect every part of the policy.                        *)
GenerationIdentifiesPolicy ==
  \A a \in Actors, t \in Topics :
     seen[a][t].row.generation = topic[t].generation
       => seen[a][t] = Policy(t)

(* No lost update: a change of an existing topic's policy is made by an    *)
(* actor whose last read is exactly the policy it replaces.                *)
NoLostPolicyUpdate ==
  [][\A t \in Topics :
       Exists(t) /\ Policy(t)' # Policy(t)
         => seen[audit'[t][Len(audit'[t])].actor][t] = Policy(t)]_clientsVars

(* The last row of t's audit that matches, or 0. *)
LastRow(t, Match(_)) ==
  LET hits == {i \in DOMAIN audit[t] : Match(audit[t][i])}
  IN  IF hits = {} THEN 0 ELSE Max(hits)

LastAction(t, subject, actions) ==
  LET i == LastRow(t, LAMBDA r : r.subject = subject /\ r.action \in actions)
  IN  IF i = 0 THEN "none" ELSE audit[t][i].action

(* The audit is the whole story of a topic: one row per generation, and    *)
(* reading the rows back gives the live row, maintainers and event types.  *)
AuditReplays ==
  \A t \in Topics :
     /\ Len(audit[t]) = topic[t].generation
     /\ roles[t] = {a \in Actors :
                      LastAction(t, a, {"grant_maintainer", "revoke_maintainer"})
                        = "grant_maintainer"}
     /\ \A e \in EventTypes :
           LET last == LastAction(t, e, {"register_event_schema", "retire_event_schema"})
           IN  schemas[t][e] = CASE last = "register_event_schema" -> "live"
                                 [] last = "retire_event_schema" -> "retired"
                                 [] last = "none" -> "absent"
     /\ Exists(t) =>
          LET i == LastRow(t, LAMBDA r : r.policy # NoTopic)
          IN  /\ i > 0
              /\ [audit[t][i].policy EXCEPT !.generation = 0]
                   = [topic[t] EXCEPT !.generation = 0]

(* Authority is never self-granted: whoever changes a topic owned it or    *)
(* was a maintainer the owner had granted and not revoked, the owner stays *)
(* the owner, and only the owner changes the maintainers.                  *)
AuthorityIsDelegated ==
  [][\A t \in Topics :
       Exists(t) /\ topic'[t] # topic[t]
         => LET who == audit'[t][Len(audit'[t])].actor
            IN  /\ who = topic[t].owner
                     \/ LastAction(t, who, {"grant_maintainer", "revoke_maintainer"})
                          = "grant_maintainer"
                /\ topic'[t].owner = topic[t].owner
                /\ roles'[t] # roles[t] => who = topic[t].owner]_clientsVars

(* "An already elapsed deadline remains the earlier effective archive      *)
(* instant even when a manual archive is recorded" (topic.go:509): at any  *)
(* clock reading that finds the topic archived, archiving it by hand does  *)
(* not move the instant reported; and a topic leaves the archived state of *)
(* a clock reading only by a restore.                                      *)
ArchivedFrom(t, now) ==
  /\ Exists(t)
  /\ \A later \in Instants : later >= now => ~TopicActive(t, later)

ArchiveInstantStands ==
  [][\A t \in Topics, now \in Instants :
       LET row == audit'[t][Len(audit'[t])]
       IN  (/\ ArchivedFrom(t, now)
            /\ audit'[t] # audit[t]
            /\ row.action # "restore"
            /\ row.at >= now)
           => /\ ArchivedFrom(t, now)'
              /\ EffectiveArchivedAt(t, now)' = EffectiveArchivedAt(t, now)]_clientsVars

=============================================================================
