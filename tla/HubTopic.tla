------------------------------ MODULE HubTopic ------------------------------
(***************************************************************************)
(* Topic governance in the local hub (internal/hubstore/topic.go and the   *)
(* event-type registry of event.go).                                       *)
(*                                                                         *)
(* Every operation is one SQLite write transaction: DB.write takes the     *)
(* single writer slot before it samples the wall clock, and any error      *)
(* rolls everything back.  An operation is therefore one action, its       *)
(* refusals are its disabled states, and the clock it samples is a         *)
(* parameter "now" drawn freely from Instants: nothing is assumed about    *)
(* the wall clocks of the processes that share the file.                   *)
(*                                                                         *)
(* A topic is named by its (scope, key) pair, which is unique, immutable   *)
(* and never deleted.  NULL deadlines and NULL archive instants are the    *)
(* value Never, which is later than every instant.                         *)
(***************************************************************************)
EXTENDS Integers, Sequences

CONSTANTS
  Actors,         \* enrolled actors
  Nobody,         \* "no actor", the owner of a topic not created yet
  Topics,         \* (scope, key) pairs that may be created
  EventTypes,     \* (type key, version) pairs that may be registered
  Texts,          \* discovery texts (name and description)
  Instants,       \* clock samples a write transaction can take
  Deadlines,      \* deadlines a caller can ask for
  Never,          \* NULL deadline or archive instant
  MaxGeneration   \* bound: policy generation reached by a topic

ASSUME ActorsAssumption == Nobody \notin Actors
ASSUME TextsAssumption == Texts # {}
ASSUME ClockAssumption ==
  /\ Instants \subseteq Nat
  /\ Deadlines \subseteq Nat
  /\ Never \in Nat
  /\ \A i \in Instants \cup Deadlines : i < Never

VARIABLES
  topic,    \* topics: the row of each topic, NoTopic before CreateTopic
  roles,    \* topic_roles: the maintainers of each topic
  schemas,  \* event_schemas: "absent", "live" or "retired"
  audit     \* topic_audit: the rows of each topic in insertion order

topicVars == <<topic, roles, schemas, audit>>

Expiries == Deadlines \cup {Never}

TopicRow == [owner : Actors \cup {Nobody}, text : Texts,
             expires : Expiries, archived : Instants \cup {Never},
             generation : Nat]

NoTopic == [owner |-> Nobody, text |-> CHOOSE x \in Texts : TRUE,
            expires |-> Never, archived |-> Never, generation |-> 0]

TopicActions == {"create", "edit", "archive", "restore", "grant_maintainer",
                 "revoke_maintainer", "register_event_schema",
                 "retire_event_schema"}

(* An audit row: who did what when, on whom or what, and the topic row it  *)
(* records as the new value (NoTopic for the two event-type actions, whose *)
(* new value is the type).                                                 *)
AuditRow == [actor : Actors, action : TopicActions, at : Instants,
             subject : Actors \cup EventTypes \cup {Nobody},
             policy : TopicRow]

TopicTypeOK ==
  /\ topic \in [Topics -> TopicRow]
  /\ roles \in [Topics -> SUBSET Actors]
  /\ schemas \in [Topics -> [EventTypes -> {"absent", "live", "retired"}]]
  /\ audit \in [Topics -> Seq(AuditRow)]

TopicInit ==
  /\ topic = [t \in Topics |-> NoTopic]
  /\ roles = [t \in Topics |-> {}]
  /\ schemas = [t \in Topics |-> [e \in EventTypes |-> "absent"]]
  /\ audit = [t \in Topics |-> <<>>]

-----------------------------------------------------------------------------
(* What a transaction reads. *)

Exists(t) == topic[t].generation > 0

(* Fault: a manual archive hides a deadline that elapsed before it. *)
ExpiredFirst_ManualWins(t, now) ==
  topic[t].expires <= now /\ topic[t].archived = Never

(* scanTopic: a topic is archived from its deadline on, or once archived by *)
(* hand, and the earlier of the two is the instant that counts.             *)
ExpiredFirst(t, now) ==
  /\ topic[t].expires <= now
  /\ topic[t].expires <= topic[t].archived

TopicActive(t, now) ==
  /\ Exists(t)
  /\ ~ExpiredFirst(t, now)
  /\ topic[t].archived = Never

EffectiveArchivedAt(t, now) ==
  IF ExpiredFirst(t, now) THEN topic[t].expires ELSE topic[t].archived

(* expiryMillis: a deadline has to lie ahead; no deadline always does. *)
DeadlineAhead(deadline, now) == deadline > now

(* Fault: the compare-and-swap on the generation is dropped. *)
TopicForWrite_LastWriterWins(a, t, expected) ==
  Exists(t) /\ (a = topic[t].owner \/ a \in roles[t])

(* topicForWrite: the generation the caller read must still be current, and *)
(* the caller must be the owner or a maintainer.                            *)
TopicForWrite(a, t, expected) ==
  /\ Exists(t)
  /\ topic[t].generation = expected
  /\ a = topic[t].owner \/ a \in roles[t]

(* Fault: maintainers pass for the owner. *)
OwnerForWrite_AnyMaintainer(a, t, expected) == TopicForWrite(a, t, expected)

OwnerForWrite(a, t, expected) ==
  TopicForWrite(a, t, expected) /\ a = topic[t].owner

(* Fault: a change that leaves the topic row alone keeps the generation. *)
SetTopic_OnlyIfRowChanges(t, row) ==
  /\ topic[t].generation < MaxGeneration
  /\ topic' = [topic EXCEPT ![t] =
                 [row EXCEPT !.generation =
                    IF row = topic[t] THEN @ ELSE @ + 1]]

(* A policy change: the new row, one generation later, and its audit row.   *)
SetTopic(t, row) ==
  /\ topic[t].generation < MaxGeneration
  /\ topic' = [topic EXCEPT ![t] =
                 [row EXCEPT !.generation = topic[t].generation + 1]]

(* Fault: the row before the change is recorded as the new value. *)
AppendAudit_RecordsOldRow(t, a, action, now, subject, policy) ==
  audit' = [audit EXCEPT ![t] =
              Append(@, [actor |-> a, action |-> action, at |-> now,
                         subject |-> subject, policy |-> topic[t]])]

AppendAudit(t, a, action, now, subject, policy) ==
  audit' = [audit EXCEPT ![t] =
              Append(@, [actor |-> a, action |-> action, at |-> now,
                         subject |-> subject, policy |-> policy])]

-----------------------------------------------------------------------------
(* The operations. *)

CreateTopic(a, t, text, deadline, now) ==
  /\ ~Exists(t)
  /\ DeadlineAhead(deadline, now)
  /\ SetTopic(t, [NoTopic EXCEPT !.owner = a, !.text = text,
                                 !.expires = deadline])
  /\ AppendAudit(t, a, "create", now, Nobody, topic'[t])
  /\ UNCHANGED <<roles, schemas>>

(* EditTopic: the deadline is set only when the caller asks to change it.   *)
EditTopic(a, t, expected, text, change, deadline, now) ==
  /\ TopicForWrite(a, t, expected)
  /\ TopicActive(t, now)
  /\ change => DeadlineAhead(deadline, now)
  /\ SetTopic(t, [topic[t] EXCEPT
                    !.text = text,
                    !.expires = IF change THEN deadline ELSE @])
  /\ AppendAudit(t, a, "edit", now, Nobody, topic'[t])
  /\ UNCHANGED <<roles, schemas>>

(* ArchiveTopic: only a manual archive blocks another one, so a topic whose *)
(* deadline has passed can still be archived by hand.                       *)
ArchiveTopic(a, t, expected, now) ==
  /\ TopicForWrite(a, t, expected)
  /\ topic[t].archived = Never
  /\ SetTopic(t, [topic[t] EXCEPT !.archived = now])
  /\ AppendAudit(t, a, "archive", now, Nobody, topic'[t])
  /\ UNCHANGED <<roles, schemas>>

(* RestoreTopic: a deadline that has passed must be changed in the same     *)
(* transaction.                                                             *)
RestoreTopic(a, t, expected, change, deadline, now) ==
  /\ TopicForWrite(a, t, expected)
  /\ ~TopicActive(t, now)
  /\ DeadlineAhead(IF change THEN deadline ELSE topic[t].expires, now)
  /\ SetTopic(t, [topic[t] EXCEPT
                    !.archived = Never,
                    !.expires = IF change THEN deadline ELSE @])
  /\ AppendAudit(t, a, "restore", now, Nobody, topic'[t])
  /\ UNCHANGED <<roles, schemas>>

(* SetMaintainer: by the owner, about somebody else; granting twice and     *)
(* revoking what was not granted are refused.                               *)
GrantMaintainer(o, t, expected, a, now) ==
  /\ OwnerForWrite(o, t, expected)
  /\ TopicActive(t, now)
  /\ a # o
  /\ a \notin roles[t]
  /\ roles' = [roles EXCEPT ![t] = @ \cup {a}]
  /\ SetTopic(t, topic[t])
  /\ AppendAudit(t, o, "grant_maintainer", now, a, topic'[t])
  /\ UNCHANGED schemas

RevokeMaintainer(o, t, expected, a, now) ==
  /\ OwnerForWrite(o, t, expected)
  /\ TopicActive(t, now)
  /\ a # o
  /\ a \in roles[t]
  /\ roles' = [roles EXCEPT ![t] = @ \ {a}]
  /\ SetTopic(t, topic[t])
  /\ AppendAudit(t, o, "revoke_maintainer", now, a, topic'[t])
  /\ UNCHANGED schemas

(* RegisterEventSchema: a version is registered once and never redefined.   *)
RegisterEventSchema(a, t, expected, e, now) ==
  /\ TopicForWrite(a, t, expected)
  /\ TopicActive(t, now)
  /\ schemas[t][e] = "absent"
  /\ schemas' = [schemas EXCEPT ![t][e] = "live"]
  /\ SetTopic(t, topic[t])
  /\ AppendAudit(t, a, "register_event_schema", now, e, NoTopic)
  /\ UNCHANGED roles

RetireEventSchema(a, t, expected, e, now) ==
  /\ TopicForWrite(a, t, expected)
  /\ TopicActive(t, now)
  /\ schemas[t][e] = "live"
  /\ schemas' = [schemas EXCEPT ![t][e] = "retired"]
  /\ SetTopic(t, topic[t])
  /\ AppendAudit(t, a, "retire_event_schema", now, e, NoTopic)
  /\ UNCHANGED roles

(* One policy change by actor a of topic t that presents generation         *)
(* "expected".                                                              *)
PolicyChange(a, t, expected) ==
  \E now \in Instants :
     \/ \E text \in Texts, change \in BOOLEAN, deadline \in Expiries :
           EditTopic(a, t, expected, text, change, deadline, now)
     \/ ArchiveTopic(a, t, expected, now)
     \/ \E change \in BOOLEAN, deadline \in Expiries :
           RestoreTopic(a, t, expected, change, deadline, now)
     \/ \E b \in Actors : GrantMaintainer(a, t, expected, b, now)
     \/ \E b \in Actors : RevokeMaintainer(a, t, expected, b, now)
     \/ \E e \in EventTypes : RegisterEventSchema(a, t, expected, e, now)
     \/ \E e \in EventTypes : RetireEventSchema(a, t, expected, e, now)

Create(a, t) ==
  \E text \in Texts, deadline \in Expiries, now \in Instants :
     CreateTopic(a, t, text, deadline, now)

TopicNext ==
  \E a \in Actors, t \in Topics :
     Create(a, t) \/ \E g \in 1 .. MaxGeneration : PolicyChange(a, t, g)

=============================================================================
