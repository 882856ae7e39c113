-------------------------- MODULE HubStreamProofs --------------------------
(***************************************************************************)
(* Proofs about the stream, in three parts: "Topics", the governance of    *)
(* topics and the actors that change them (HubTopicClients), and lemmas on *)
(* the operations of topics that the rest uses; "Publications", the stream *)
(* itself (HubStream); "Cursors", the subscriptions that follow it         *)
(* (HubCursor).  All for every number of actors, topics, event types,      *)
(* scopes, keys, operators, workers, subscriptions, cutoffs, page sizes    *)
(* and filters, and for streams and audits of any length.                  *)
(***************************************************************************)
EXTENDS HubCursor, HubTopicClients, FiniteSetTheorems, WellFoundedInduction, TLAPS

-----------------------------------------------------------------------------
(* Topics. *)

(* A non-empty set of naturals has a least member: when a prune leaves     *)
(* something behind, there is a first position left.                       *)
LEMMA LeastNatural ==
  ASSUME NEW S, S \subseteq Nat, S # {}
  PROVE  \E m \in S : \A n \in S : m <= n
<1> DEFINE Less == {p \in Nat \X Nat : p[1] < p[2]}
<1>1. IsWellFoundedOn(Less, Nat)
  <2>1. OpToRel(<, Nat) = Less
    BY DEF OpToRel
  <2>2. QED
    BY <2>1, NatLessThanWellFounded, Zenon
<1> HIDE DEF Less
<1>2. PICK m \in S : \A n \in S : <<n, m>> \notin Less
  BY <1>1, WFMin
<1>3. ASSUME NEW n \in S  PROVE ~(n < m)
  <2>1. <<n, m>> \notin Less
    BY <1>2
  <2>2. n \in Nat /\ m \in Nat
    OBVIOUS
  <2>3. QED
    BY <2>1, <2>2 DEF Less
<1>4. QED
  <2>1. \A n \in S : n \in Int /\ m \in Int
    OBVIOUS
  <2>2. QED
    BY <1>3, <2>1

-----------------------------------------------------------------------------
(* Types of the topic tables. *)

(* The row before CreateTopic is well typed. *)
LEMMA NoTopicTyped == NoTopic \in TopicRow
  BY TextsAssumption DEF NoTopic, TopicRow, Expiries

(* A policy change of a well-typed row leaves well-typed tables. *)
LEMMA PolicyChangeTyped ==
  ASSUME TopicTypeOK,
         NEW a \in Actors, NEW t \in Topics, NEW row \in TopicRow,
         NEW action \in TopicActions, NEW now \in Instants,
         NEW subject \in Actors \cup EventTypes \cup {Nobody}, NEW policy,
         SetTopic(t, row),
         policy \in TopicRow \/ policy = topic'[t],
         AppendAudit(t, a, action, now, subject, policy)
  PROVE  /\ topic' \in [Topics -> TopicRow]
         /\ audit' \in [Topics -> Seq(AuditRow)]
<1> DEFINE new == [row EXCEPT !.generation = topic[t].generation + 1]
<1>1. topic' \in [Topics -> TopicRow]
  <2>1. topic[t] \in TopicRow
    BY DEF TopicTypeOK
  <2>2. new \in TopicRow
    BY <2>1 DEF TopicRow
  <2>3. topic' = [topic EXCEPT ![t] = new]
    BY DEF SetTopic
  <2> HIDE DEF new
  <2>4. QED
    BY <2>2, <2>3 DEF TopicTypeOK
<1>2. policy \in TopicRow
  BY <1>1
<1> DEFINE line == [actor |-> a, action |-> action, at |-> now,
                    subject |-> subject, policy |-> policy]
<1>3. line \in AuditRow
  BY <1>2 DEF AuditRow
<1>4. audit' = [audit EXCEPT ![t] = Append(audit[t], line)]
  BY DEF AppendAudit
<1> HIDE DEF line
<1>5. Append(audit[t], line) \in Seq(AuditRow)
  BY <1>3 DEF TopicTypeOK
<1>6. QED
  BY <1>1, <1>4, <1>5 DEF TopicTypeOK

(* Creating a topic keeps the types. *)
LEMMA CreateTyped ==
  ASSUME TopicTypeOK, NEW a \in Actors, NEW t \in Topics, Create(a, t)
  PROVE  TopicTypeOK'
<1> USE DEF TopicTypeOK
<1>1. PICK text \in Texts, deadline \in Expiries, now \in Instants :
        CreateTopic(a, t, text, deadline, now)
  BY DEF Create
<1>2. [NoTopic EXCEPT !.owner = a, !.text = text, !.expires = deadline]
        \in TopicRow
  BY NoTopicTyped DEF TopicRow
<1>3. QED
  BY <1>1, <1>2, PolicyChangeTyped DEF CreateTopic, TopicActions

(* Every change of a policy keeps the types, whatever generation is shown. *)
LEMMA ChangeTyped ==
  ASSUME TopicTypeOK, NEW a \in Actors, NEW t \in Topics, NEW g,
         PolicyChange(a, t, g)
  PROVE  TopicTypeOK'
<1> USE DEF TopicTypeOK
<1>0. topic[t] \in TopicRow
  OBVIOUS
<1>1. PICK now \in Instants :
        \/ \E text \in Texts, change \in BOOLEAN, deadline \in Expiries :
              EditTopic(a, t, g, text, change, deadline, now)
        \/ ArchiveTopic(a, t, g, now)
        \/ \E change \in BOOLEAN, deadline \in Expiries :
              RestoreTopic(a, t, g, change, deadline, now)
        \/ \E b \in Actors : GrantMaintainer(a, t, g, b, now)
        \/ \E b \in Actors : RevokeMaintainer(a, t, g, b, now)
        \/ \E e \in EventTypes : RegisterEventSchema(a, t, g, e, now)
        \/ \E e \in EventTypes : RetireEventSchema(a, t, g, e, now)
  BY DEF PolicyChange
<1>2. ASSUME NEW text \in Texts, NEW change \in BOOLEAN,
             NEW deadline \in Expiries,
             EditTopic(a, t, g, text, change, deadline, now)
      PROVE  TopicTypeOK'
  <2>1. [topic[t] EXCEPT !.text = text,
                         !.expires = IF change THEN deadline ELSE @]
          \in TopicRow
    BY <1>0 DEF TopicRow
  <2>2. QED
    BY <1>2, <2>1, PolicyChangeTyped DEF EditTopic, TopicActions
<1>3. CASE ArchiveTopic(a, t, g, now)
  <2>1. [topic[t] EXCEPT !.archived = now] \in TopicRow
    BY <1>0 DEF TopicRow
  <2>2. QED
    BY <1>3, <2>1, PolicyChangeTyped DEF ArchiveTopic, TopicActions
<1>4. ASSUME NEW change \in BOOLEAN, NEW deadline \in Expiries,
             RestoreTopic(a, t, g, change, deadline, now)
      PROVE  TopicTypeOK'
  <2>1. [topic[t] EXCEPT !.archived = Never,
                         !.expires = IF change THEN deadline ELSE @]
          \in TopicRow
    BY <1>0 DEF TopicRow
  <2>2. QED
    BY <1>4, <2>1, PolicyChangeTyped DEF RestoreTopic, TopicActions
<1>5. ASSUME NEW b \in Actors,
             GrantMaintainer(a, t, g, b, now) \/ RevokeMaintainer(a, t, g, b, now)
      PROVE  TopicTypeOK'
  <2>1. roles' \in [Topics -> SUBSET Actors] /\ UNCHANGED schemas
    BY <1>5 DEF GrantMaintainer, RevokeMaintainer
  <2>2. QED
    BY <1>0, <1>5, <2>1, PolicyChangeTyped
    DEF GrantMaintainer, RevokeMaintainer, TopicActions
<1>6. ASSUME NEW e \in EventTypes,
             \/ RegisterEventSchema(a, t, g, e, now)
             \/ RetireEventSchema(a, t, g, e, now)
      PROVE  TopicTypeOK'
  <2>1. /\ schemas' \in [Topics -> [EventTypes -> {"absent", "live", "retired"}]]
        /\ UNCHANGED roles
    <3>1. PICK state \in {"live", "retired"} :
            schemas' = [schemas EXCEPT ![t][e] = state] /\ UNCHANGED roles
      BY <1>6 DEF RegisterEventSchema, RetireEventSchema
    <3>2. schemas[t] \in [EventTypes -> {"absent", "live", "retired"}]
      OBVIOUS
    <3>3. [schemas[t] EXCEPT ![e] = state]
            \in [EventTypes -> {"absent", "live", "retired"}]
      BY <3>2
    <3>4. QED
      BY <3>1, <3>3
  <2>2. QED
    BY <1>0, <1>6, <2>1, NoTopicTyped, PolicyChangeTyped
    DEF RegisterEventSchema, RetireEventSchema, TopicActions
<1>7. QED
  BY <1>1, <1>2, <1>3, <1>4, <1>5, <1>6

(* Every operation on topics, roles and event types keeps the types. *)
LEMMA TopicStepTyped ==
  ASSUME TopicTypeOK, TopicNext
  PROVE  TopicTypeOK'
  BY CreateTyped, ChangeTyped DEF TopicNext

-----------------------------------------------------------------------------
(* What a policy change does, whichever it is. *)

(* The row that is set, one generation later. *)
LEMMA SetEffect ==
  ASSUME TopicTypeOK, NEW t \in Topics, NEW row \in TopicRow, SetTopic(t, row)
  PROVE  /\ \A u \in Topics \ {t} : topic'[u] = topic[u]
         /\ topic'[t] \in TopicRow
         /\ topic'[t].generation = topic[t].generation + 1
         /\ topic'[t].owner = row.owner /\ topic'[t].text = row.text
         /\ topic'[t].expires = row.expires /\ topic'[t].archived = row.archived
         /\ [topic'[t] EXCEPT !.generation = 0] = [row EXCEPT !.generation = 0]
<1>1. topic' = [topic EXCEPT ![t] = [row EXCEPT !.generation = topic[t].generation + 1]]
      /\ topic \in [Topics -> TopicRow]
  BY DEF TopicTypeOK, SetTopic
<1>2. topic'[t] = [row EXCEPT !.generation = topic[t].generation + 1]
      /\ topic[t].generation + 1 \in Nat
  BY <1>1 DEF TopicRow
<1> QED BY <1>1, <1>2 DEF TopicRow

SameRow(t) == [topic'[t] EXCEPT !.generation = 0] = [topic[t] EXCEPT !.generation = 0]

(* The audit row r tells the change of topic t. *)
Tells(t, r) ==
  \/ /\ r.action \in {"edit", "archive", "restore"} /\ r.subject = Nobody
     /\ roles' = roles /\ schemas' = schemas /\ r.policy = topic'[t]
  \/ /\ r.action = "grant_maintainer" /\ r.subject \in Actors /\ r.actor = topic[t].owner
     /\ roles' = [roles EXCEPT ![t] = @ \cup {r.subject}]
     /\ schemas' = schemas /\ r.policy = topic'[t]
  \/ /\ r.action = "revoke_maintainer" /\ r.subject \in Actors /\ r.actor = topic[t].owner
     /\ roles' = [roles EXCEPT ![t] = @ \ {r.subject}]
     /\ schemas' = schemas /\ r.policy = topic'[t]
  \/ /\ r.action = "register_event_schema" /\ r.subject \in EventTypes
     /\ schemas' = [schemas EXCEPT ![t][r.subject] = "live"]
     /\ roles' = roles /\ r.policy = NoTopic /\ SameRow(t)
  \/ /\ r.action = "retire_event_schema" /\ r.subject \in EventTypes
     /\ schemas' = [schemas EXCEPT ![t][r.subject] = "retired"]
     /\ roles' = roles /\ r.policy = NoTopic /\ SameRow(t)

(* Every policy change is made by the owner or a maintainer with the        *)
(* current generation, makes one generation and one audit row that tells    *)
(* it, and leaves the owner and the other topics alone.                     *)
LEMMA ChangeEffect ==
  ASSUME TopicTypeOK, NEW a \in Actors, NEW t \in Topics, NEW g, PolicyChange(a, t, g)
  PROVE  /\ TopicForWrite(a, t, g)
         /\ \A u \in Topics \ {t} : topic'[u] = topic[u]
         /\ topic'[t] \in TopicRow
         /\ topic'[t].generation = topic[t].generation + 1
         /\ topic'[t].owner = topic[t].owner
         /\ \E r : /\ r.actor = a
                  /\ audit' = [audit EXCEPT ![t] = Append(@, r)]
                  /\ Tells(t, r)
<1>0. topic[t] \in TopicRow
  BY DEF TopicTypeOK
<1>1. PICK now \in Instants :
          \/ \E text \in Texts, change \in BOOLEAN, deadline \in Expiries :
                EditTopic(a, t, g, text, change, deadline, now)
          \/ ArchiveTopic(a, t, g, now)
          \/ \E change \in BOOLEAN, deadline \in Expiries :
                RestoreTopic(a, t, g, change, deadline, now)
          \/ \E b \in Actors : GrantMaintainer(a, t, g, b, now)
          \/ \E b \in Actors : RevokeMaintainer(a, t, g, b, now)
          \/ \E e \in EventTypes : RegisterEventSchema(a, t, g, e, now)
          \/ \E e \in EventTypes : RetireEventSchema(a, t, g, e, now)
  BY DEF PolicyChange
<1>2. ASSUME NEW row \in TopicRow, row.owner = topic[t].owner, SetTopic(t, row),
             NEW action \in {"edit", "archive", "restore"},
             AppendAudit(t, a, action, now, Nobody, topic'[t]), UNCHANGED <<roles, schemas>>
      PROVE  /\ \A u \in Topics \ {t} : topic'[u] = topic[u]
             /\ topic'[t] \in TopicRow
             /\ topic'[t].generation = topic[t].generation + 1
             /\ topic'[t].owner = topic[t].owner
             /\ \E r : /\ r.actor = a
                      /\ audit' = [audit EXCEPT ![t] = Append(@, r)]
                      /\ Tells(t, r)
  <2>1. PICK r : r = [actor |-> a, action |-> action, at |-> now, subject |-> Nobody,
                      policy |-> topic'[t]]
    OBVIOUS
  <2>2. audit' = [audit EXCEPT ![t] = Append(@, r)]
    BY <1>2, <2>1 DEF AppendAudit
  <2>3. Tells(t, r)
    BY <1>2, <2>1 DEF Tells
  <2> QED BY <1>2, <2>1, <2>2, <2>3, SetEffect
<1>3. ASSUME NEW text \in Texts, NEW change \in BOOLEAN, NEW deadline \in Expiries
      PROVE  [topic[t] EXCEPT !.text = text, !.expires = IF change THEN deadline ELSE @]
               \in {row \in TopicRow : row.owner = topic[t].owner}
  BY <1>0 DEF TopicRow
<1>4. [topic[t] EXCEPT !.archived = now] \in {row \in TopicRow : row.owner = topic[t].owner}
  BY <1>0 DEF TopicRow
<1>5. ASSUME NEW change \in BOOLEAN, NEW deadline \in Expiries
      PROVE  [topic[t] EXCEPT !.archived = Never, !.expires = IF change THEN deadline ELSE @]
               \in {row \in TopicRow : row.owner = topic[t].owner}
  BY <1>0 DEF TopicRow
<1>6. ASSUME NEW b \in Actors,
             GrantMaintainer(a, t, g, b, now) \/ RevokeMaintainer(a, t, g, b, now)
      PROVE  \E r : /\ r.actor = a
                  /\ audit' = [audit EXCEPT ![t] = Append(@, r)]
                  /\ Tells(t, r)
  <2>1. PICK action \in {"grant_maintainer", "revoke_maintainer"} :
          /\ AppendAudit(t, a, action, now, b, topic'[t])
          /\ schemas' = schemas /\ a = topic[t].owner
          /\ roles' = [roles EXCEPT ![t] = IF action = "grant_maintainer" THEN @ \cup {b}
                                           ELSE @ \ {b}]
    BY <1>6 DEF GrantMaintainer, RevokeMaintainer, OwnerForWrite
  <2>2. PICK r : r = [actor |-> a, action |-> action, at |-> now, subject |-> b,
                      policy |-> topic'[t]]
    OBVIOUS
  <2>3. audit' = [audit EXCEPT ![t] = Append(@, r)]
    BY <2>1, <2>2 DEF AppendAudit
  <2>4. Tells(t, r)
    BY <2>1, <2>2 DEF Tells
  <2> QED BY <2>2, <2>3, <2>4
<1>7. ASSUME NEW e \in EventTypes,
             RegisterEventSchema(a, t, g, e, now) \/ RetireEventSchema(a, t, g, e, now)
      PROVE  \E r : /\ r.actor = a
                  /\ audit' = [audit EXCEPT ![t] = Append(@, r)]
                  /\ Tells(t, r)
  <2>1. PICK action \in {"register_event_schema", "retire_event_schema"} :
          /\ AppendAudit(t, a, action, now, e, NoTopic) /\ SetTopic(t, topic[t])
          /\ roles' = roles
          /\ schemas' = [schemas EXCEPT ![t][e] = IF action = "register_event_schema"
                                                  THEN "live" ELSE "retired"]
    BY <1>7 DEF RegisterEventSchema, RetireEventSchema
  <2>2. PICK r : r = [actor |-> a, action |-> action, at |-> now, subject |-> e,
                      policy |-> NoTopic]
    OBVIOUS
  <2>3. audit' = [audit EXCEPT ![t] = Append(@, r)]
    BY <2>1, <2>2 DEF AppendAudit
  <2>a. SameRow(t)
    BY <2>1, <1>0, SetEffect DEF SameRow
  <2>4. Tells(t, r)
    BY <2>1, <2>2, <2>a DEF Tells
  <2> QED BY <2>2, <2>3, <2>4
<1>8. CASE \/ \E text \in Texts, change \in BOOLEAN, deadline \in Expiries :
                EditTopic(a, t, g, text, change, deadline, now)
           \/ ArchiveTopic(a, t, g, now)
           \/ \E change \in BOOLEAN, deadline \in Expiries :
                RestoreTopic(a, t, g, change, deadline, now)
  <2> DEFINE Sets == /\ TopicForWrite(a, t, g)
                     /\ \E row \in {row \in TopicRow : row.owner = topic[t].owner},
                           action \in {"edit", "archive", "restore"} :
                          /\ SetTopic(t, row) /\ UNCHANGED <<roles, schemas>>
                          /\ AppendAudit(t, a, action, now, Nobody, topic'[t])
  <2>1. ASSUME NEW text \in Texts, NEW change \in BOOLEAN, NEW deadline \in Expiries,
               EditTopic(a, t, g, text, change, deadline, now)
        PROVE  Sets
    BY <2>1, <1>3 DEF EditTopic
  <2>2. ArchiveTopic(a, t, g, now) => Sets
    BY <1>4 DEF ArchiveTopic
  <2>3. ASSUME NEW change \in BOOLEAN, NEW deadline \in Expiries,
               RestoreTopic(a, t, g, change, deadline, now)
        PROVE  Sets
    BY <2>3, <1>5 DEF RestoreTopic
  <2> QED BY <1>8, <2>1, <2>2, <2>3, <1>2
<1>9. CASE \/ \E b \in Actors : \/ GrantMaintainer(a, t, g, b, now)
                               \/ RevokeMaintainer(a, t, g, b, now)
           \/ \E e \in EventTypes : \/ RegisterEventSchema(a, t, g, e, now)
                                   \/ RetireEventSchema(a, t, g, e, now)
  <2>1. SetTopic(t, topic[t]) /\ TopicForWrite(a, t, g)
    BY <1>9 DEF GrantMaintainer, RevokeMaintainer, RegisterEventSchema, RetireEventSchema,
               OwnerForWrite
  <2> QED BY <2>1, <1>0, <1>6, <1>7, <1>9, SetEffect
<1> QED BY <1>1, <1>8, <1>9

(* A topic is created with an owner, no maintainers and its first row.      *)
LEMMA CreateEffect ==
  ASSUME TopicTypeOK, NEW a \in Actors, NEW t \in Topics, Create(a, t)
  PROVE  /\ ~Exists(t) /\ UNCHANGED <<roles, schemas>>
         /\ \A u \in Topics \ {t} : topic'[u] = topic[u]
         /\ topic'[t] \in TopicRow
         /\ topic'[t].generation = topic[t].generation + 1
         /\ \E r : /\ r.actor = a /\ r.action = "create" /\ r.subject = Nobody
                  /\ r.policy = topic'[t]
                  /\ audit' = [audit EXCEPT ![t] = Append(@, r)]
<1>1. PICK text \in Texts, deadline \in Expiries, now \in Instants :
        CreateTopic(a, t, text, deadline, now)
  BY DEF Create
<1>2. [NoTopic EXCEPT !.owner = a, !.text = text, !.expires = deadline] \in TopicRow
  BY NoTopicTyped DEF TopicRow
<1>3. PICK r : r = [actor |-> a, action |-> "create", at |-> now, subject |-> Nobody,
                    policy |-> topic'[t]]
  OBVIOUS
<1>4. audit' = [audit EXCEPT ![t] = Append(@, r)]
  BY <1>1, <1>3 DEF CreateTopic, AppendAudit
<1>5. /\ \A u \in Topics \ {t} : topic'[u] = topic[u]
      /\ topic'[t] \in TopicRow
      /\ topic'[t].generation = topic[t].generation + 1
  BY <1>1, <1>2, SetEffect DEF CreateTopic
<1> QED BY <1>1, <1>3, <1>4, <1>5 DEF CreateTopic

-----------------------------------------------------------------------------
(* The last row of an audit. *)

(* A non-empty set of indexes has a greatest member, and Max finds it. *)
LEMMA MaxFound ==
  ASSUME NEW n \in Nat, NEW S \in SUBSET (1..n), S # {}
  PROVE  Max(S) \in S /\ \A k \in S : k <= Max(S)
<1> DEFINE T == {n - k : k \in S}
<1>1. \A k \in S : k \in Int /\ n - k \in Nat
  OBVIOUS
<1>2. T \subseteq Nat /\ T # {}
  BY <1>1
<1>3. PICK d \in T : \A x \in T : d <= x
  <2> HIDE DEF T
  <2> QED BY <1>2, LeastNatural
<1>4. PICK m \in S : d = n - m
  BY <1>3
<1>5. \A k \in S : m >= k
  <2>1. ASSUME NEW k \in S PROVE m >= k
    <3>1. n - k \in T
      OBVIOUS
    <3>2. n - m <= n - k
      BY <3>1, <1>3, <1>4
    <3> QED BY <3>2, <1>1
  <2> QED BY <2>1
<1>6. \E x \in S : \A y \in S : x >= y
  BY <1>5
<1>7. Max(S) \in S /\ \A y \in S : Max(S) >= y
  BY <1>6 DEF Max
<1> QED BY <1>1, <1>7

LEMMA MaxIs ==
  ASSUME NEW S, S \subseteq Int, NEW m \in S, \A k \in S : k <= m
  PROVE  Max(S) = m
<1>1. \E x \in S : \A y \in S : x >= y
  OBVIOUS
<1>2. Max(S) \in S /\ \A y \in S : Max(S) >= y
  BY <1>1 DEF Max
<1>3. Max(S) \in Int /\ m \in Int /\ Max(S) <= m /\ Max(S) >= m
  BY <1>2
<1> QED BY <1>3

(* The rows that tell of x, and the rows that record a policy. *)
Hits(t, x, actions) ==
  {i \in DOMAIN audit[t] : audit[t][i].subject = x /\ audit[t][i].action \in actions}
PolicyHits(t) == {i \in DOMAIN audit[t] : audit[t][i].policy # NoTopic}

LEMMA LastActionIs ==
  ASSUME NEW t, NEW x, NEW actions, audit[t] \in Seq(AuditRow)
  PROVE  LastAction(t, x, actions) =
           IF Hits(t, x, actions) = {} THEN "none"
           ELSE audit[t][Max(Hits(t, x, actions))].action
<1>1. LastRow(t, LAMBDA r : r.subject = x /\ r.action \in actions) =
        IF Hits(t, x, actions) = {} THEN 0 ELSE Max(Hits(t, x, actions))
  BY DEF LastRow, Hits
<1>2. Hits(t, x, actions) # {} => Max(Hits(t, x, actions)) \in 1..Len(audit[t])
  <2>1. Hits(t, x, actions) \subseteq 1..Len(audit[t]) /\ Len(audit[t]) \in Nat
    BY DEF Hits
  <2> QED BY <2>1, MaxFound
<1> QED BY <1>1, <1>2 DEF LastAction

(* A row that is appended is the last if it matches, or else changes none.  *)
LEMMA LastActionAppended ==
  ASSUME NEW t, NEW x, NEW actions, NEW r,
         audit[t] \in Seq(AuditRow), audit'[t] \in Seq(AuditRow),
         audit'[t] = Append(audit[t], r)
  PROVE  LastAction(t, x, actions)' =
           IF r.subject = x /\ r.action \in actions THEN r.action
           ELSE LastAction(t, x, actions)
<1> DEFINE n == Len(audit[t])
           hits == Hits(t, x, actions)
<1>1. /\ n \in Nat /\ DOMAIN audit[t] = 1..n /\ DOMAIN audit'[t] = 1..(n + 1)
      /\ audit'[t][n + 1] = r /\ \A i \in 1..n : audit'[t][i] = audit[t][i]
  OBVIOUS
<1>2. hits \subseteq 1..n
  BY <1>1 DEF Hits
<1>3. LastAction(t, x, actions)' =
        IF hits' = {} THEN "none" ELSE audit'[t][Max(hits')].action
  <2>1. PICK h : h = hits'
    OBVIOUS
  <2>3. h # {} => Max(h) \in 1..(n + 1)
    <3>1. h \subseteq 1..(n + 1) /\ n + 1 \in Nat
      BY <2>1, <1>1 DEF Hits
    <3> QED BY <3>1, MaxFound
  <2>4. LastAction(t, x, actions)' =
          LET i == IF h = {} THEN 0 ELSE Max(h)
          IN  IF i = 0 THEN "none" ELSE audit'[t][i].action
    BY <2>1 DEF LastAction, LastRow, Hits
  <2> QED BY <2>1, <2>3, <2>4
<1>4. CASE r.subject = x /\ r.action \in actions
  <2>1. PICK h : h = hits'
    OBVIOUS
  <2>2. n + 1 \in h /\ h \subseteq 1..(n + 1)
    BY <2>1, <1>1, <1>4 DEF Hits
  <2>3. Max(h) = n + 1
    <3>1. h \subseteq Int /\ \A k \in h : k <= n + 1
      BY <2>2, <1>1
    <3> QED BY <3>1, <2>2, MaxIs
  <2> QED BY <2>1, <2>2, <2>3, <1>1, <1>3, <1>4
<1>5. CASE ~(r.subject = x /\ r.action \in actions)
  <2>1. PICK h : h = hits'
    OBVIOUS
  <2>2. h = hits
    BY <2>1, <1>1, <1>5 DEF Hits
  <2>3. hits # {} => Max(hits) \in 1..n
    BY <1>1, <1>2, MaxFound
  <2> HIDE DEF hits
  <2>4. LastAction(t, x, actions) =
          IF hits = {} THEN "none" ELSE audit[t][Max(hits)].action
    BY LastActionIs DEF hits
  <2> QED BY <2>1, <2>2, <2>3, <2>4, <1>1, <1>3, <1>5
<1> QED BY <1>4, <1>5

(* An audit that does not change keeps its last rows. *)
LEMMA LastActionKept ==
  ASSUME NEW t, NEW x, NEW actions, audit'[t] = audit[t]
  PROVE  LastAction(t, x, actions)' = LastAction(t, x, actions)
  BY DEF LastAction, LastRow

(* The last row that records a policy, or 0. *)
PolicyRowOf(t) == LastRow(t, LAMBDA r : r.policy # NoTopic)

LEMMA PolicyRowKept ==
  ASSUME NEW t, audit'[t] = audit[t]
  PROVE  PolicyRowOf(t)' = PolicyRowOf(t)
  BY DEF PolicyRowOf, LastRow

LEMMA PolicyRowIs ==
  ASSUME NEW t, audit[t] \in Seq(AuditRow)
  PROVE  /\ PolicyRowOf(t) = IF PolicyHits(t) = {} THEN 0 ELSE Max(PolicyHits(t))
         /\ PolicyRowOf(t) \in 0..Len(audit[t])
<1>1. PolicyRowOf(t) = IF PolicyHits(t) = {} THEN 0 ELSE Max(PolicyHits(t))
  BY DEF PolicyRowOf, LastRow, PolicyHits
<1>2. Len(audit[t]) \in Nat /\ PolicyHits(t) \subseteq 1..Len(audit[t])
  BY DEF PolicyHits
<1>3. PolicyHits(t) # {} => Max(PolicyHits(t)) \in 1..Len(audit[t])
  BY <1>2, MaxFound
<1> QED BY <1>1, <1>2, <1>3

LEMMA PolicyRowAppended ==
  ASSUME NEW t, NEW r, audit[t] \in Seq(AuditRow), audit'[t] \in Seq(AuditRow),
         audit'[t] = Append(audit[t], r)
  PROVE  PolicyRowOf(t)' = IF r.policy # NoTopic THEN Len(audit[t]) + 1
                           ELSE PolicyRowOf(t)
<1> DEFINE n == Len(audit[t])
           hits == PolicyHits(t)
<1>1. /\ n \in Nat /\ DOMAIN audit[t] = 1..n /\ DOMAIN audit'[t] = 1..(n + 1)
      /\ audit'[t][n + 1] = r /\ \A i \in 1..n : audit'[t][i] = audit[t][i]
  OBVIOUS
<1>2. PICK h : h = hits'
  OBVIOUS
<1>3. PolicyRowOf(t)' = IF h = {} THEN 0 ELSE Max(h)
  BY <1>2 DEF PolicyRowOf, LastRow, PolicyHits
<1>4. CASE r.policy # NoTopic
  <2>1. n + 1 \in h /\ h \subseteq 1..(n + 1)
    BY <1>1, <1>2, <1>4 DEF PolicyHits
  <2>2. h \subseteq Int /\ \A k \in h : k <= n + 1
    BY <2>1, <1>1
  <2>3. Max(h) = n + 1
    BY <2>1, <2>2, MaxIs
  <2> QED BY <1>3, <1>4, <2>1, <2>3
<1>5. CASE r.policy = NoTopic
  <2>1. h = hits
    BY <1>1, <1>2, <1>5 DEF PolicyHits
  <2> HIDE DEF hits
  <2>2. PolicyRowOf(t) = IF hits = {} THEN 0 ELSE Max(hits)
    BY PolicyRowIs DEF hits
  <2> QED BY <1>3, <1>5, <2>1, <2>2
<1> QED BY <1>4, <1>5

-----------------------------------------------------------------------------
(* The audit of a topic, part by part. *)

RoleActions == {"grant_maintainer", "revoke_maintainer"}
TypeActions == {"register_event_schema", "retire_event_schema"}

RolesReplay(t) ==
  roles[t] = {a \in Actors : LastAction(t, a, RoleActions) = "grant_maintainer"}

TypeReplay(t, e) ==
  \/ /\ LastAction(t, e, TypeActions) = "register_event_schema"
     /\ schemas[t][e] = "live"
  \/ /\ LastAction(t, e, TypeActions) = "retire_event_schema"
     /\ schemas[t][e] = "retired"
  \/ /\ LastAction(t, e, TypeActions) = "none"
     /\ schemas[t][e] = "absent"

PolicyReplay(t) ==
  Exists(t) => /\ PolicyRowOf(t) > 0
               /\ [audit[t][PolicyRowOf(t)].policy EXCEPT !.generation = 0]
                    = [topic[t] EXCEPT !.generation = 0]

Replays(t) ==
  /\ Len(audit[t]) = topic[t].generation
  /\ RolesReplay(t)
  /\ \A e \in EventTypes : TypeReplay(t, e)
  /\ PolicyReplay(t)

LEMMA ReplaysIsAuditReplays ==
  (\A t \in Topics : Replays(t)) => AuditReplays
<1> SUFFICES ASSUME \A t \in Topics : Replays(t), NEW t \in Topics
    PROVE  /\ Len(audit[t]) = topic[t].generation
           /\ RolesReplay(t)
           /\ \A e \in EventTypes :
                 LET last == LastAction(t, e, TypeActions)
                 IN  schemas[t][e] = CASE last = "register_event_schema" -> "live"
                                       [] last = "retire_event_schema" -> "retired"
                                       [] last = "none" -> "absent"
           /\ PolicyReplay(t)
  BY DEF AuditReplays, RolesReplay, TypeActions, RoleActions, PolicyReplay, PolicyRowOf
<1>1. Replays(t)
  OBVIOUS
<1>2. ASSUME NEW e \in EventTypes
      PROVE  LET last == LastAction(t, e, TypeActions)
             IN  schemas[t][e] = CASE last = "register_event_schema" -> "live"
                                   [] last = "retire_event_schema" -> "retired"
                                   [] last = "none" -> "absent"
  <2>1. TypeReplay(t, e)
    BY <1>1 DEF Replays
  <2> QED BY <2>1 DEF TypeReplay
<1> QED BY <1>1, <1>2 DEF Replays

(* A row appended to the audit of t, which stays well typed. *)
Appends(t, r) ==
  /\ audit[t] \in Seq(AuditRow) /\ audit'[t] \in Seq(AuditRow)
  /\ audit'[t] = Append(audit[t], r)

(* Granting and revoking keep the maintainers what the audit tells. *)
LEMMA RolesReplayStep ==
  ASSUME NEW t, NEW r, Appends(t, r), RolesReplay(t),
         \/ r.action \notin RoleActions /\ roles'[t] = roles[t]
         \/ /\ r.action = "grant_maintainer" /\ r.subject \in Actors
            /\ roles'[t] = roles[t] \cup {r.subject}
         \/ /\ r.action = "revoke_maintainer" /\ r.subject \in Actors
            /\ roles'[t] = roles[t] \ {r.subject}
  PROVE  RolesReplay(t)'
<1>1. \A b \in Actors : LastAction(t, b, RoleActions)' =
        IF r.subject = b /\ r.action \in RoleActions THEN r.action
        ELSE LastAction(t, b, RoleActions)
  BY LastActionAppended DEF Appends
<1>2. PICK L : L = [b \in Actors |-> LastAction(t, b, RoleActions)]
  OBVIOUS
<1>3. PICK M : M = [b \in Actors |-> LastAction(t, b, RoleActions)']
  OBVIOUS
<1>4. \A b \in Actors : M[b] = IF r.subject = b /\ r.action \in RoleActions
                              THEN r.action ELSE L[b]
  BY <1>1, <1>2, <1>3
<1>5. roles[t] = {b \in Actors : L[b] = "grant_maintainer"}
  BY <1>2 DEF RolesReplay
<1>6. roles'[t] = {b \in Actors : M[b] = "grant_maintainer"}
  BY <1>4, <1>5 DEF RoleActions
<1> QED BY <1>3, <1>6 DEF RolesReplay

(* Registering and retiring keep the event types what the audit tells. *)
LEMMA TypeReplayStep ==
  ASSUME NEW t, NEW r, NEW e, Appends(t, r), TypeReplay(t, e),
         \/ r.action \notin TypeActions /\ schemas'[t][e] = schemas[t][e]
         \/ /\ r.action = "register_event_schema"
            /\ schemas'[t][e] = IF r.subject = e THEN "live" ELSE schemas[t][e]
         \/ /\ r.action = "retire_event_schema"
            /\ schemas'[t][e] = IF r.subject = e THEN "retired" ELSE schemas[t][e]
  PROVE  TypeReplay(t, e)'
<1>1. LastAction(t, e, TypeActions)' =
        IF r.subject = e /\ r.action \in TypeActions THEN r.action
        ELSE LastAction(t, e, TypeActions)
  BY LastActionAppended DEF Appends
<1>2. PICK L : L = LastAction(t, e, TypeActions)
  OBVIOUS
<1>3. PICK M : M = LastAction(t, e, TypeActions)'
  OBVIOUS
<1>4. \/ M = "register_event_schema" /\ schemas'[t][e] = "live"
      \/ M = "retire_event_schema" /\ schemas'[t][e] = "retired"
      \/ M = "none" /\ schemas'[t][e] = "absent"
  BY <1>1, <1>2, <1>3 DEF TypeReplay, TypeActions
<1> QED BY <1>3, <1>4 DEF TypeReplay

(* The row that records a policy records the whole of it. *)
LEMMA PolicyReplayStep ==
  ASSUME NEW t, NEW r, Appends(t, r), PolicyReplay(t),
         \/ r.policy = topic'[t] /\ topic'[t] # NoTopic
         \/ r.policy = NoTopic /\ SameRow(t) /\ Exists(t)
  PROVE  PolicyReplay(t)'
<1>1. PolicyRowOf(t)' = IF r.policy # NoTopic THEN Len(audit[t]) + 1
                        ELSE PolicyRowOf(t)
  BY PolicyRowAppended DEF Appends
<1>2. PICK p : p = PolicyRowOf(t)'
  OBVIOUS
<1>3. PICK q : q = PolicyRowOf(t)
  OBVIOUS
<1>4. q \in 0..Len(audit[t]) /\ Len(audit[t]) \in Nat
  BY <1>3, PolicyRowIs DEF Appends
<1>5. /\ p > 0
      /\ [audit'[t][p].policy EXCEPT !.generation = 0]
           = [topic'[t] EXCEPT !.generation = 0]
  <2>1. CASE r.policy # NoTopic
    <3>1. p = Len(audit[t]) + 1 /\ audit'[t][p] = r
      BY <1>1, <1>2, <1>4, <2>1 DEF Appends
    <3> QED BY <3>1, <1>4, <2>1
  <2>2. CASE r.policy = NoTopic
    <3>1. p = q /\ q > 0
          /\ [audit[t][q].policy EXCEPT !.generation = 0]
               = [topic[t] EXCEPT !.generation = 0]
      BY <1>1, <1>2, <1>3, <2>2 DEF PolicyReplay
    <3>2. audit'[t][q] = audit[t][q]
      BY <3>1, <1>4 DEF Appends
    <3> QED BY <3>1, <3>2, <2>2 DEF SameRow
  <2> QED BY <2>1, <2>2
<1> QED BY <1>2, <1>5 DEF PolicyReplay

LEMMA ReplaysKept ==
  ASSUME NEW t, Replays(t), topic'[t] = topic[t], roles'[t] = roles[t],
         schemas'[t] = schemas[t], audit'[t] = audit[t]
  PROVE  Replays(t)'
<1>1. RolesReplay(t)'
  <2>1. PICK L : L = [b \in Actors |-> LastAction(t, b, RoleActions)]
    OBVIOUS
  <2>2. \A b \in Actors : LastAction(t, b, RoleActions)' = L[b]
    BY <2>1, LastActionKept
  <2>3. roles'[t] = {b \in Actors : L[b] = "grant_maintainer"}
    BY <2>1 DEF Replays, RolesReplay
  <2> QED BY <2>2, <2>3 DEF RolesReplay
<1>2. ASSUME NEW e \in EventTypes PROVE TypeReplay(t, e)'
  <2>1. LastAction(t, e, TypeActions)' = LastAction(t, e, TypeActions)
    BY LastActionKept
  <2> QED BY <2>1 DEF Replays, TypeReplay
<1>3. PolicyReplay(t)'
  <2>1. PICK q : q = PolicyRowOf(t)
    OBVIOUS
  <2>2. PolicyRowOf(t)' = q
    BY <2>1, PolicyRowKept
  <2>3. Exists(t) => /\ q > 0
                     /\ [audit[t][q].policy EXCEPT !.generation = 0]
                          = [topic[t] EXCEPT !.generation = 0]
    BY <2>1 DEF Replays, PolicyReplay
  <2> QED BY <2>2, <2>3 DEF PolicyReplay, Exists
<1> QED BY <1>1, <1>2, <1>3 DEF Replays

-----------------------------------------------------------------------------
(* The inductive invariant: the types, audits that replay, and readers whose *)
(* generation is behind the topic's or identifies the policy they read.      *)

Views == [row : TopicRow, roles : SUBSET Actors,
          schemas : [EventTypes -> {"absent", "live", "retired"}]]

SeenBehind(a, t) ==
  /\ seen[a][t].row.generation <= topic[t].generation
  /\ seen[a][t].row.generation = topic[t].generation => seen[a][t] = Policy(t)

ClientInv ==
  /\ TopicTypeOK
  /\ seen \in [Actors -> [Topics -> Views]]
  /\ \A t \in Topics : Replays(t)
  /\ \A a \in Actors, t \in Topics : SeenBehind(a, t)

LEMMA PolicyTyped ==
  ASSUME TopicTypeOK, NEW t \in Topics
  PROVE  Policy(t) \in Views /\ topic[t].generation \in Nat
  BY DEF TopicTypeOK, Policy, Views, TopicRow

(* Before any change every audit is empty and every reader is up to date. *)
LEMMA ClientInit == ClientsInit => ClientInv
<1> SUFFICES ASSUME ClientsInit PROVE ClientInv
  OBVIOUS
<1>1. TopicTypeOK
  BY NoTopicTyped DEF ClientsInit, TopicInit, TopicTypeOK
<1>2. seen \in [Actors -> [Topics -> Views]]
  BY <1>1, PolicyTyped DEF ClientsInit
<1>3. ASSUME NEW t \in Topics PROVE Replays(t)
  <2>1. /\ topic[t] = NoTopic /\ NoTopic.generation = 0 /\ audit[t] = <<>>
        /\ roles[t] = {} /\ \A e \in EventTypes : schemas[t][e] = "absent"
    BY <1>3 DEF ClientsInit, TopicInit, NoTopic
  <2>2. \A x, actions : Hits(t, x, actions) = {}
    BY <2>1 DEF Hits
  <2>3. \A x, actions : LastAction(t, x, actions) = "none"
    BY <1>1, <2>2, LastActionIs DEF TopicTypeOK
  <2> QED BY <2>1, <2>3 DEF Replays, RolesReplay, TypeReplay, PolicyReplay, Exists
<1>4. ASSUME NEW a \in Actors, NEW t \in Topics PROVE SeenBehind(a, t)
  <2>1. seen[a][t] = Policy(t) /\ topic[t].generation \in Nat
    BY <1>1, PolicyTyped DEF ClientsInit
  <2> QED BY <2>1 DEF SeenBehind, Policy
<1> QED BY <1>1, <1>2, <1>3, <1>4 DEF ClientInv

(* The audit replays after a topic is created or its policy changed. *)
LEMMA WriteReplays ==
  ASSUME TopicTypeOK, TopicTypeOK', \A u \in Topics : Replays(u),
         NEW a \in Actors, NEW t \in Topics, NEW g,
         Create(a, t) \/ PolicyChange(a, t, g)
  PROVE  /\ \A u \in Topics : Replays(u)'
         /\ topic'[t].generation = topic[t].generation + 1
         /\ \A u \in Topics \ {t} : /\ topic'[u] = topic[u] /\ roles'[u] = roles[u]
                                   /\ schemas'[u] = schemas[u] /\ audit'[u] = audit[u]
<1>0. Replays(t) /\ topic[t].generation \in Nat
  BY PolicyTyped
<1>1. PICK r : /\ audit' = [audit EXCEPT ![t] = Append(@, r)]
               /\ \/ /\ ~Exists(t) /\ r.action = "create" /\ r.policy = topic'[t]
                     /\ UNCHANGED <<roles, schemas>>
                  \/ Exists(t) /\ Tells(t, r)
  BY CreateEffect, ChangeEffect DEF TopicForWrite
<1>2. /\ topic'[t].generation = topic[t].generation + 1
      /\ \A u \in Topics \ {t} : topic'[u] = topic[u]
  BY CreateEffect, ChangeEffect
<1>3. Appends(t, r)
  BY <1>1 DEF Appends, TopicTypeOK
<1>4. topic'[t] # NoTopic
  BY <1>0, <1>2 DEF NoTopic
<1>5. \A u \in Topics \ {t} : /\ topic'[u] = topic[u] /\ roles'[u] = roles[u]
                             /\ schemas'[u] = schemas[u] /\ audit'[u] = audit[u]
  <2>1. roles' \in [Topics -> SUBSET Actors] /\ roles \in [Topics -> SUBSET Actors]
        /\ audit \in [Topics -> Seq(AuditRow)]
        /\ schemas \in [Topics -> [EventTypes -> {"absent", "live", "retired"}]]
    BY DEF TopicTypeOK
  <2> QED BY <1>1, <1>2, <2>1 DEF Tells
<1>6. RolesReplay(t)'
  <2>1. roles \in [Topics -> SUBSET Actors]
    BY DEF TopicTypeOK
  <2>2. \/ r.action \notin RoleActions /\ roles'[t] = roles[t]
        \/ /\ r.action = "grant_maintainer" /\ r.subject \in Actors
           /\ roles'[t] = roles[t] \cup {r.subject}
        \/ /\ r.action = "revoke_maintainer" /\ r.subject \in Actors
           /\ roles'[t] = roles[t] \ {r.subject}
    BY <1>1, <2>1 DEF Tells, RoleActions
  <2> QED BY <1>0, <1>3, <2>2, RolesReplayStep DEF Replays
<1>7. ASSUME NEW e \in EventTypes PROVE TypeReplay(t, e)'
  <2>1. schemas \in [Topics -> [EventTypes -> {"absent", "live", "retired"}]]
    BY DEF TopicTypeOK
  <2>2. \/ r.action \notin TypeActions /\ schemas'[t][e] = schemas[t][e]
        \/ /\ r.action = "register_event_schema"
           /\ schemas'[t][e] = IF r.subject = e THEN "live" ELSE schemas[t][e]
        \/ /\ r.action = "retire_event_schema"
           /\ schemas'[t][e] = IF r.subject = e THEN "retired" ELSE schemas[t][e]
    BY <1>1, <2>1 DEF Tells, TypeActions
  <2> QED BY <1>0, <1>3, <2>2, TypeReplayStep DEF Replays
<1>8. PolicyReplay(t)'
  <2>1. \/ r.policy = topic'[t] /\ topic'[t] # NoTopic
        \/ r.policy = NoTopic /\ SameRow(t) /\ Exists(t)
    BY <1>1, <1>4 DEF Tells
  <2> QED BY <1>0, <1>3, <2>1, PolicyReplayStep DEF Replays
<1>9. Len(audit'[t]) = topic'[t].generation
  BY <1>0, <1>2, <1>3 DEF Appends, Replays
<1>10. ASSUME NEW u \in Topics \ {t} PROVE Replays(u)'
  BY <1>5, ReplaysKept
<1>11. Replays(t)'
  BY <1>6, <1>7, <1>8, <1>9 DEF Replays
<1> QED BY <1>2, <1>5, <1>10, <1>11

LEMMA ClientStep == ClientInv /\ [ClientsNext]_clientsVars => ClientInv'
<1> SUFFICES ASSUME ClientInv, [ClientsNext]_clientsVars PROVE ClientInv'
  OBVIOUS
<1>1. TopicTypeOK /\ \A u \in Topics : Replays(u)
  BY DEF ClientInv
<1>2. CASE /\ UNCHANGED topicVars
           /\ UNCHANGED seen \/ \E a \in Actors, t \in Topics : ReadTopic(a, t)
  <2>1. TopicTypeOK'
    BY <1>1, <1>2 DEF TopicTypeOK, topicVars
  <2>2. ASSUME NEW u \in Topics PROVE Replays(u)'
    BY <1>1, <1>2, ReplaysKept DEF topicVars
  <2>3. CASE UNCHANGED seen
    BY <1>2, <2>1, <2>2, <2>3 DEF ClientInv, SeenBehind, Policy, topicVars
  <2>4. ASSUME NEW a \in Actors, NEW t \in Topics, ReadTopic(a, t)
        PROVE  ClientInv'
    <3>1. /\ seen \in [Actors -> [Topics -> Views]] /\ Policy(t) \in Views
          /\ topic[t].generation \in Nat
      BY <1>1, PolicyTyped DEF ClientInv
    <3>2. seen' = [seen EXCEPT ![a] = [seen[a] EXCEPT ![t] = Policy(t)]]
      BY <2>4 DEF ReadTopic
    <3>3. [seen[a] EXCEPT ![t] = Policy(t)] \in [Topics -> Views]
      BY <3>1
    <3>4. seen' \in [Actors -> [Topics -> Views]]
      BY <3>1, <3>2, <3>3
    <3>5. ASSUME NEW b \in Actors, NEW u \in Topics PROVE SeenBehind(b, u)'
      <4>1. seen'[b][u] = IF b = a /\ u = t THEN Policy(t) ELSE seen[b][u]
        BY <3>1, <3>2
      <4>2. SeenBehind(b, u)
        BY DEF ClientInv
      <4> QED BY <1>2, <3>1, <4>1, <4>2 DEF SeenBehind, Policy, topicVars
    <3> QED BY <2>1, <2>2, <3>4, <3>5 DEF ClientInv
  <2> QED BY <1>2, <2>3, <2>4
<1>3. ASSUME NEW a \in Actors, NEW t \in Topics, UNCHANGED seen, NEW g,
             Create(a, t) \/ PolicyChange(a, t, g)
      PROVE  ClientInv'
  <2>1. TopicTypeOK'
    BY <1>1, <1>3, CreateTyped, ChangeTyped
  <2>2. /\ \A u \in Topics : Replays(u)'
        /\ topic'[t].generation = topic[t].generation + 1
        /\ \A u \in Topics \ {t} : /\ topic'[u] = topic[u] /\ roles'[u] = roles[u]
                                  /\ schemas'[u] = schemas[u] /\ audit'[u] = audit[u]
    BY <1>1, <1>3, <2>1, WriteReplays
  <2>3. ASSUME NEW b \in Actors, NEW u \in Topics PROVE SeenBehind(b, u)'
    <3>1. SeenBehind(b, u) /\ seen'[b][u] = seen[b][u]
      BY <1>3 DEF ClientInv
    <3>2. CASE u = t
      <4>1. seen[b][t].row.generation \in Nat /\ topic[t].generation \in Nat
        BY <1>1, PolicyTyped DEF ClientInv, Views, TopicRow
      <4> QED BY <2>2, <3>1, <3>2, <4>1 DEF SeenBehind
    <3>3. CASE u # t
      BY <2>2, <3>1, <3>3 DEF SeenBehind, Policy
    <3> QED BY <3>2, <3>3
  <2> QED BY <1>3, <2>1, <2>2, <2>3 DEF ClientInv
<1>4. CASE ClientsNext
  <2>1. PICK a \in Actors, t \in Topics :
          \/ Create(a, t) /\ UNCHANGED seen
          \/ ReadTopic(a, t)
          \/ ChangePolicy(a, t)
    BY <1>4 DEF ClientsNext
  <2>2. CASE ReadTopic(a, t)
    BY <1>2, <2>2 DEF ReadTopic
  <2>3. CASE Create(a, t) /\ UNCHANGED seen
    BY <1>3, <2>3
  <2>4. CASE ChangePolicy(a, t)
    BY <1>3, <2>4 DEF ChangePolicy
  <2> QED BY <2>1, <2>2, <2>3, <2>4
<1>5. CASE UNCHANGED clientsVars
  BY <1>2, <1>5 DEF clientsVars, topicVars
<1> QED BY <1>4, <1>5

-----------------------------------------------------------------------------
(* What the steps may do. *)

(* In a step that changes topic t, the row it appends and what it tells. *)
LEMMA StepOfTopic ==
  ASSUME ClientInv, [ClientsNext]_clientsVars, NEW t \in Topics,
         topic'[t] # topic[t] \/ audit'[t] # audit[t] \/ Policy(t)' # Policy(t)
  PROVE  \/ ~Exists(t)
         \/ /\ Exists(t)
            /\ \E a \in Actors : PolicyChange(a, t, seen[a][t].row.generation)
<1>1. TopicTypeOK
  BY DEF ClientInv
<1>2. ~UNCHANGED topicVars
  BY DEF topicVars, Policy
<1>3. PICK a \in Actors, u \in Topics : Create(a, u) \/ ChangePolicy(a, u)
  BY <1>2 DEF ClientsNext, ReadTopic, clientsVars, topicVars
<1>4. CASE u = t
  <2>1. Create(a, t) => ~Exists(t)
    BY <1>1, CreateEffect
  <2>2. ChangePolicy(a, t) => Exists(t) /\ PolicyChange(a, t, seen[a][t].row.generation)
    BY <1>1, ChangeEffect DEF ChangePolicy, TopicForWrite
  <2> QED BY <1>3, <1>4, <2>1, <2>2
<1>5. CASE u # t
  <2>1. PICK g : Create(a, u) \/ PolicyChange(a, u, g)
    BY <1>3 DEF ChangePolicy
  <2>2. TopicTypeOK' /\ \A w \in Topics : Replays(w)
    BY <1>1, <2>1, CreateTyped, ChangeTyped DEF ClientInv
  <2>3. /\ topic'[t] = topic[t] /\ roles'[t] = roles[t]
        /\ schemas'[t] = schemas[t] /\ audit'[t] = audit[t]
    BY <1>1, <1>5, <2>1, <2>2, WriteReplays
  <2> QED BY <2>3 DEF Policy
<1> QED BY <1>4, <1>5

(* The row a policy change appends is its last. *)
LEMMA ChangeLast ==
  ASSUME TopicTypeOK, NEW a \in Actors, NEW t \in Topics, NEW g, PolicyChange(a, t, g)
  PROVE  /\ audit'[t][Len(audit'[t])].actor = a
         /\ Tells(t, audit'[t][Len(audit'[t])])
<1>1. PICK r : /\ r.actor = a /\ Tells(t, r)
               /\ audit' = [audit EXCEPT ![t] = Append(@, r)]
  BY ChangeEffect
<1>2. TopicTypeOK'
  BY ChangeTyped
<1>3. audit[t] \in Seq(AuditRow) /\ audit'[t] = Append(audit[t], r)
      /\ audit'[t] \in Seq(AuditRow)
  BY <1>1, <1>2 DEF TopicTypeOK
<1>4. audit'[t][Len(audit'[t])] = r
  BY <1>3
<1> QED BY <1>1, <1>4

(* A change of a policy is made by an actor that read the policy it replaces. *)
LEMMA NoLostStep ==
  ASSUME ClientInv, [ClientsNext]_clientsVars, NEW t \in Topics, Exists(t), Policy(t)' # Policy(t)
  PROVE  seen[audit'[t][Len(audit'[t])].actor][t] = Policy(t)
<1>1. PICK a \in Actors : PolicyChange(a, t, seen[a][t].row.generation)
  BY StepOfTopic
<1>2. TopicTypeOK /\ SeenBehind(a, t)
  BY DEF ClientInv
<1>3. topic[t].generation = seen[a][t].row.generation
  BY <1>1, <1>2, ChangeEffect DEF TopicForWrite
<1>4. audit'[t][Len(audit'[t])].actor = a
  BY <1>1, <1>2, ChangeLast
<1> QED BY <1>2, <1>3, <1>4 DEF SeenBehind

(* The owner stays; maintainers change by the owner, the rest by either. *)
LEMMA AuthorityStep ==
  ASSUME ClientInv, [ClientsNext]_clientsVars, NEW t \in Topics, Exists(t), topic'[t] # topic[t]
  PROVE  LET who == audit'[t][Len(audit'[t])].actor
         IN  /\ who = topic[t].owner \/ LastAction(t, who, RoleActions) = "grant_maintainer"
             /\ topic'[t].owner = topic[t].owner
             /\ roles'[t] # roles[t] => who = topic[t].owner
<1>1. PICK a \in Actors : PolicyChange(a, t, seen[a][t].row.generation)
  BY StepOfTopic
<1>2. TopicTypeOK /\ RolesReplay(t)
  BY DEF ClientInv, Replays
<1>3. audit'[t][Len(audit'[t])].actor = a /\ Tells(t, audit'[t][Len(audit'[t])])
  BY <1>1, <1>2, ChangeLast
<1>4. topic'[t].owner = topic[t].owner /\ (a = topic[t].owner \/ a \in roles[t])
  BY <1>1, <1>2, ChangeEffect DEF TopicForWrite
<1>5. a \in roles[t] => LastAction(t, a, RoleActions) = "grant_maintainer"
  BY <1>2 DEF RolesReplay
<1>6. roles'[t] # roles[t] => a = topic[t].owner
  BY <1>3 DEF Tells
<1> QED BY <1>3, <1>4, <1>5, <1>6

(* A topic archived from "now" on is changed later only by archiving it by   *)
(* hand or restoring it.                                                     *)
LEMMA ArchivedChange ==
  ASSUME ClientInv, NEW t \in Topics, NEW now \in Instants, ArchivedFrom(t, now),
         NEW a \in Actors, NEW g, PolicyChange(a, t, g),
         audit'[t][Len(audit'[t])].action # "restore",
         audit'[t][Len(audit'[t])].at >= now
  PROVE  /\ topic[t].archived = Never
         /\ topic'[t].archived \in Instants /\ topic'[t].archived >= now
         /\ topic'[t].expires = topic[t].expires
<1>0. TopicTypeOK /\ TopicTypeOK' /\ topic[t] \in TopicRow
  BY ChangeTyped DEF ClientInv, TopicTypeOK
<1>1. PICK at \in Instants :
          \/ \E text \in Texts, change \in BOOLEAN, deadline \in Expiries :
                EditTopic(a, t, g, text, change, deadline, at)
          \/ ArchiveTopic(a, t, g, at)
          \/ \E change \in BOOLEAN, deadline \in Expiries :
                RestoreTopic(a, t, g, change, deadline, at)
          \/ \E b \in Actors : GrantMaintainer(a, t, g, b, at)
          \/ \E b \in Actors : RevokeMaintainer(a, t, g, b, at)
          \/ \E e \in EventTypes : RegisterEventSchema(a, t, g, e, at)
          \/ \E e \in EventTypes : RetireEventSchema(a, t, g, e, at)
  BY DEF PolicyChange
<1>2. ASSUME NEW action, NEW subject, NEW policy,
             AppendAudit(t, a, action, at, subject, policy)
      PROVE  /\ audit'[t][Len(audit'[t])].at = at
             /\ audit'[t][Len(audit'[t])].action = action
  <2>1. PICK r : r = [actor |-> a, action |-> action, at |-> at, subject |-> subject,
                      policy |-> policy]
    OBVIOUS
  <2>2. audit'[t] = Append(audit[t], r) /\ audit[t] \in Seq(AuditRow)
        /\ audit'[t] \in Seq(AuditRow)
    BY <1>0, <1>2, <2>1 DEF AppendAudit, TopicTypeOK
  <2>3. audit'[t][Len(audit'[t])] = r
    BY <2>2
  <2> QED BY <2>1, <2>3
<1>3. audit'[t][Len(audit'[t])].at = at
  BY <1>1, <1>2 DEF EditTopic, ArchiveTopic, RestoreTopic, GrantMaintainer,
                    RevokeMaintainer, RegisterEventSchema, RetireEventSchema
<1>4. ~TopicActive(t, at)
  BY <1>3 DEF ArchivedFrom
<1>5. ArchiveTopic(a, t, g, at)
  <2>1. ~ \E change \in BOOLEAN, deadline \in Expiries :
             RestoreTopic(a, t, g, change, deadline, at)
    BY <1>2 DEF RestoreTopic
  <2> QED BY <1>1, <1>4, <2>1 DEF EditTopic, GrantMaintainer, RevokeMaintainer,
                                  RegisterEventSchema, RetireEventSchema
<1>6. [topic[t] EXCEPT !.archived = at] \in TopicRow
  BY <1>0 DEF TopicRow
<1>7. topic'[t].archived = at /\ topic'[t].expires = topic[t].expires
  BY <1>0, <1>5, <1>6, SetEffect DEF ArchiveTopic, TopicRow
<1> QED BY <1>3, <1>5, <1>7 DEF ArchiveTopic

LEMMA ArchiveStep ==
  ASSUME ClientInv, [ClientsNext]_clientsVars, NEW t \in Topics, NEW now \in Instants,
         ArchivedFrom(t, now), audit'[t] # audit[t],
         audit'[t][Len(audit'[t])].action # "restore",
         audit'[t][Len(audit'[t])].at >= now
  PROVE  /\ ArchivedFrom(t, now)'
         /\ EffectiveArchivedAt(t, now)' = EffectiveArchivedAt(t, now)
<1>1. PICK a \in Actors : PolicyChange(a, t, seen[a][t].row.generation)
  BY StepOfTopic DEF ArchivedFrom
<1>2. /\ topic[t].archived = Never
      /\ topic'[t].archived \in Instants /\ topic'[t].archived >= now
      /\ topic'[t].expires = topic[t].expires
  BY <1>1, ArchivedChange
<1>3. topic[t] \in TopicRow /\ topic'[t].generation = topic[t].generation + 1
  BY <1>1, ChangeEffect DEF ClientInv, TopicTypeOK
<1>4. Exists(t) /\ ~TopicActive(t, now) /\ now \in Nat /\ Instants \subseteq Nat
  BY ClockAssumption DEF ArchivedFrom
<1>5. ExpiredFirst(t, now) /\ topic[t].expires <= now
  BY <1>2, <1>4 DEF TopicActive, ExpiredFirst
<1>6. topic[t].expires \in Nat /\ topic[t].generation \in Nat
  BY <1>3, ClockAssumption DEF TopicRow, Expiries
<1>7. ASSUME NEW later \in Instants, later >= now PROVE ExpiredFirst(t, later)'
  <2>1. topic'[t].expires <= later
    BY <1>2, <1>4, <1>5, <1>6, <1>7
  <2>2. topic'[t].expires <= topic'[t].archived
    <3>1. PICK x : x = topic[t].expires
      OBVIOUS
    <3>2. PICK y : y = topic'[t].archived
      OBVIOUS
    <3>3. x \in Nat /\ y \in Nat /\ x <= now /\ now <= y /\ now \in Nat
      BY <1>2, <1>4, <1>5, <1>6, <3>1, <3>2
    <3>4. x <= y
      BY <3>3
    <3> QED BY <3>1, <3>2, <3>4, <1>2
  <2> QED BY <2>1, <2>2 DEF ExpiredFirst
<1>8. ArchivedFrom(t, now)'
  BY <1>3, <1>4, <1>6, <1>7 DEF ArchivedFrom, TopicActive, Exists
<1>9. ExpiredFirst(t, now)'
  BY <1>4, <1>7
<1> QED BY <1>2, <1>5, <1>8, <1>9 DEF EffectiveArchivedAt

-----------------------------------------------------------------------------
(* The theorems. *)

LEMMA ClientInvariant == ClientsSpec => []ClientInv
<1>1. ClientsInit => ClientInv
  BY ClientInit
<1>2. ClientInv /\ [ClientsNext]_clientsVars => ClientInv'
  BY ClientStep
<1> QED BY <1>1, <1>2, PTL DEF ClientsSpec

(* The tables of topics, roles, event types and audit keep the columns that *)
(* topic.go and event.go give them.                                         *)
THEOREM TopicsTypeCorrect == ClientsSpec => []TopicTypeOK
<1>1. ClientInv => TopicTypeOK
  BY DEF ClientInv
<1> QED BY <1>1, ClientInvariant, PTL

(* An actor whose generation is still the topic's holds the policy it read: *)
(* topicForWrite's one comparison (topic.go:426) stands for all of it.      *)
THEOREM GenerationStandsForPolicy == ClientsSpec => []GenerationIdentifiesPolicy
<1>1. ClientInv => GenerationIdentifiesPolicy
  BY DEF ClientInv, SeenBehind, GenerationIdentifiesPolicy
<1> QED BY <1>1, ClientInvariant, PTL

(* The rows appendTopicAudit writes, read back, are the topic: as many as    *)
(* its generation, and they give its row, maintainers and event types.       *)
THEOREM AuditTellsTheTopic == ClientsSpec => []AuditReplays
<1>1. ClientInv => AuditReplays
  BY ReplaysIsAuditReplays DEF ClientInv
<1> QED BY <1>1, ClientInvariant, PTL

(* Nobody overwrites a policy it has not read: what EditTopic, ArchiveTopic, *)
(* RestoreTopic, SetMaintainer and the event-type operations replace is what *)
(* their caller last saw.                                                    *)
THEOREM NoUpdateIsLost == ClientsSpec => NoLostPolicyUpdate
<1>1. ASSUME ClientInv, [ClientsNext]_clientsVars, NEW t \in Topics
      PROVE  Exists(t) /\ Policy(t)' # Policy(t)
               => seen[audit'[t][Len(audit'[t])].actor][t] = Policy(t)
  BY <1>1, NoLostStep
<1>2. ClientInv /\ [ClientsNext]_clientsVars
        => [\A t \in Topics :
              Exists(t) /\ Policy(t)' # Policy(t)
                => seen[audit'[t][Len(audit'[t])].actor][t] = Policy(t)]_clientsVars
  BY <1>1
<1> QED BY <1>2, ClientInvariant, PTL DEF ClientsSpec, NoLostPolicyUpdate

(* Who changes a topic is its owner or a maintainer by the audit, the owner  *)
(* never changes, and only the owner's SetMaintainer changes the             *)
(* maintainers.                                                              *)
THEOREM AuthorityComesFromTheOwner == ClientsSpec => AuthorityIsDelegated
<1>1. ASSUME ClientInv, [ClientsNext]_clientsVars, NEW t \in Topics
      PROVE  Exists(t) /\ topic'[t] # topic[t]
         => LET who == audit'[t][Len(audit'[t])].actor
            IN  /\ who = topic[t].owner
                     \/ LastAction(t, who, {"grant_maintainer", "revoke_maintainer"})
                          = "grant_maintainer"
                /\ topic'[t].owner = topic[t].owner
                /\ roles'[t] # roles[t] => who = topic[t].owner
  BY <1>1, AuthorityStep DEF RoleActions
<1>2. ClientInv /\ [ClientsNext]_clientsVars
        => [\A t \in Topics :
              Exists(t) /\ topic'[t] # topic[t]
         => LET who == audit'[t][Len(audit'[t])].actor
            IN  /\ who = topic[t].owner
                     \/ LastAction(t, who, {"grant_maintainer", "revoke_maintainer"})
                          = "grant_maintainer"
                /\ topic'[t].owner = topic[t].owner
                /\ roles'[t] # roles[t] => who = topic[t].owner]_clientsVars
  BY <1>1
<1> QED BY <1>2, ClientInvariant, PTL DEF ClientsSpec, AuthorityIsDelegated

(* ArchiveTopic after the deadline leaves scanTopic's archive instant where  *)
(* it was, and only RestoreTopic brings an archived topic back.              *)
THEOREM ElapsedDeadlineStands == ClientsSpec => ArchiveInstantStands
<1>1. ASSUME ClientInv, [ClientsNext]_clientsVars, NEW t \in Topics, NEW now \in Instants
      PROVE  LET row == audit'[t][Len(audit'[t])]
             IN  (/\ ArchivedFrom(t, now)
                  /\ audit'[t] # audit[t]
                  /\ row.action # "restore"
                  /\ row.at >= now)
                 => /\ ArchivedFrom(t, now)'
                    /\ EffectiveArchivedAt(t, now)' = EffectiveArchivedAt(t, now)
  BY <1>1, ArchiveStep
<1>2. ClientInv /\ [ClientsNext]_clientsVars
        => [\A t \in Topics, now \in Instants :
              LET row == audit'[t][Len(audit'[t])]
              IN  (/\ ArchivedFrom(t, now)
                   /\ audit'[t] # audit[t]
                   /\ row.action # "restore"
                   /\ row.at >= now)
                  => /\ ArchivedFrom(t, now)'
                     /\ EffectiveArchivedAt(t, now)' = EffectiveArchivedAt(t, now)]_clientsVars
  BY <1>1
<1> QED BY <1>2, ClientInvariant, PTL DEF ClientsSpec, ArchiveInstantStands

-----------------------------------------------------------------------------
(* Publications: facts about the operators the model is built from. *)

(* A batch is made of retained entries. *)
LEMMA BatchIsRetained ==
  ASSUME NEW s \in Scopes, NEW cutoff
  PROVE  Batch(s, cutoff) \subseteq pubs[s]
<1>1. \A G \in OldMessages(s, cutoff) : G \subseteq pubs[s]
  BY DEF OldMessages, Revisions, Messages
<1>2. \A G \in OldRevisions(s, cutoff) : G \subseteq pubs[s]
  BY DEF OldRevisions, Messages
<1>3. \A G \in OldChains(s, cutoff) : G \subseteq pubs[s]
  BY DEF OldChains, Chain, Events
<1>4. QED
  BY <1>1, <1>2, <1>3 DEF Batch, Groups

-----------------------------------------------------------------------------
(* The inductive invariant.  Types need it: a revision that keeps the      *)
(* deadline reads it from the entry its head points at, so heads have to   *)
(* point at retained entries; that survives a prune because a message has  *)
(* one head only and a position one entry only.                            *)

PinsFinite == \A s \in Scopes : IsFiniteSet(pinAudit[s])

OneHeadPerMessage ==
  \A s \in Scopes :
     /\ \A h \in heads[s] : h.msg \in 1 .. HighWater(s)
     /\ \A g, h \in heads[s] : g.msg = h.msg => g = h

StreamInv ==
  /\ TopicTypeOK
  /\ StreamTypeOK
  /\ PinsFinite
  /\ PositionsAccounted
  /\ OneHeadPerMessage
  /\ HeadsCoherent

(* The invariant holds of empty tables. *)
LEMMA InitEstablishesInv == Init => StreamInv
<1> SUFFICES ASSUME Init  PROVE StreamInv
  OBVIOUS
<1> USE DEF Init, TopicInit, StreamInit
<1>1. TopicTypeOK
  <2>1. topic \in [Topics -> TopicRow]
    BY NoTopicTyped
  <2>2. <<>> \in Seq(AuditRow)
    OBVIOUS
  <2>3. audit \in [Topics -> Seq(AuditRow)]
    BY <2>2
  <2>4. QED
    BY <2>1, <2>3 DEF TopicTypeOK
<1>2. StreamTypeOK
  BY DEF StreamTypeOK
<1>3. PinsFinite
  BY FS_EmptySet DEF PinsFinite
<1>4. PositionsAccounted
  BY DEF PositionsAccounted, Retained, HighWater
<1>5. OneHeadPerMessage /\ HeadsCoherent
  BY DEF OneHeadPerMessage, HeadsCoherent, Messages
<1>6. QED
  BY <1>1, <1>2, <1>3, <1>4, <1>5 DEF StreamInv

(* A change of policy leaves the stream alone. *)
LEMMA TopicStepKeepsInv ==
  ASSUME StreamInv, TopicNext, UNCHANGED streamVars
  PROVE  StreamInv'
<1> USE DEF StreamInv, streamVars
<1>1. TopicTypeOK'
  BY TopicStepTyped
<1>2. StreamTypeOK' /\ PinsFinite'
  BY DEF StreamTypeOK, PinsFinite
<1>3. PositionsAccounted'
  BY DEF PositionsAccounted, Retained, HighWater
<1>4. OneHeadPerMessage' /\ HeadsCoherent'
  BY DEF OneHeadPerMessage, HeadsCoherent, Revisions, Messages, HighWater
<1>5. QED
  BY <1>1, <1>2, <1>3, <1>4

(* Publishing: the new entry takes the next position. *)
LEMMA AppendKeepsPositions ==
  ASSUME StreamInv, NEW s \in Scopes, NEW p \in Publication,
         p.seq = NextSequence(s), AppendEntry(s, p),
         UNCHANGED <<pruned, low>>
  PROVE  /\ next' \in [Scopes -> Nat \ {0}]
         /\ pubs' \in [Scopes -> SUBSET Publication]
         /\ idem' \in [Scopes -> SUBSET KeyedRow]
         /\ keyed' \in [Scopes -> SUBSET KeyedRow]
         /\ PositionsAccounted'
<1> USE DEF StreamInv
<1>1. /\ next[s] \in Nat \ {0}
      /\ p.seq = next[s]
      /\ next' = [next EXCEPT ![s] = next[s] + 1]
      /\ pubs' = [pubs EXCEPT ![s] = pubs[s] \cup {p}]
  BY DEF AppendEntry, NextSequence, StreamTypeOK
<1>2. /\ next' \in [Scopes -> Nat \ {0}]
      /\ pubs' \in [Scopes -> SUBSET Publication]
  BY <1>1 DEF StreamTypeOK
<1>3. /\ idem' \in [Scopes -> SUBSET KeyedRow]
      /\ keyed' \in [Scopes -> SUBSET KeyedRow]
  <2> DEFINE row == [topic |-> p.topic, actor |-> p.actor, key |-> p.key,
                     entry |-> p.seq]
             new == IF p.key = NoKey THEN {} ELSE {row}
  <2>1. new \subseteq KeyedRow
    BY DEF Publication, KeyedRow
  <2>2. /\ idem' = [idem EXCEPT ![s] = idem[s] \cup new]
        /\ keyed' = [keyed EXCEPT ![s] = keyed[s] \cup new]
    BY DEF AppendEntry
  <2> HIDE DEF new
  <2>3. QED
    BY <2>1, <2>2 DEF StreamTypeOK
<1>4. PositionsAccounted'
  <2> SUFFICES ASSUME NEW r \in Scopes
               PROVE  /\ Retained(r)' \cup pruned'[r] = 1 .. HighWater(r)'
                      /\ Retained(r)' \cap pruned'[r] = {}
                      /\ \A x, y \in pubs'[r] : x.seq = y.seq => x = y
                      /\ low'[r] <= HighWater(r)'
                      /\ 1 .. low'[r] \subseteq pruned'[r]
    BY DEF PositionsAccounted
  <2>1. /\ Retained(r) \cup pruned[r] = 1 .. HighWater(r)
        /\ Retained(r) \cap pruned[r] = {}
        /\ \A x, y \in pubs[r] : x.seq = y.seq => x = y
        /\ low[r] <= HighWater(r)
        /\ 1 .. low[r] \subseteq pruned[r]
    BY DEF PositionsAccounted
  <2>2. CASE r # s
    <3>1. next'[r] = next[r] /\ pubs'[r] = pubs[r]
      BY <1>1, <2>2 DEF StreamTypeOK
    <3>2. QED
      BY <2>1, <3>1 DEF Retained, HighWater
  <2>3. CASE r = s
    <3>1. next'[r] = next[r] + 1 /\ pubs'[r] = pubs[r] \cup {p}
      BY <1>1, <2>3 DEF StreamTypeOK
    <3>2. HighWater(r)' = next[r] /\ HighWater(r) = next[r] - 1
      BY <3>1, <1>1, <2>3 DEF HighWater
    <3>3. Retained(r)' = Retained(r) \cup {next[r]}
      BY <3>1, <1>1, <2>3 DEF Retained
    <3>4. 1 .. next[r] = (1 .. next[r] - 1) \cup {next[r]}
      BY <1>1, <2>3
    <3>5. next[r] \notin Retained(r) \cup pruned[r]
      BY <2>1, <3>2, <1>1, <2>3
    <3>6. \A x \in pubs[r] : x.seq # p.seq
      BY <3>5, <1>1, <2>3 DEF Retained
    <3>7. low[r] <= next[r]
      BY <2>1, <3>2, <1>1, <2>3 DEF StreamTypeOK
    <3>8. QED
      BY <2>1, <3>1, <3>2, <3>3, <3>4, <3>5, <3>6, <3>7
  <2>4. QED
    BY <2>2, <2>3
<1>5. QED
  BY <1>2, <1>3, <1>4

(* A new message: its entry, and a head that points at it. *)
LEMMA PostKeepsInv ==
  ASSUME StreamInv,
         NEW a \in Actors, NEW t \in Topics, NEW k \in Keys \cup {NoKey},
         NEW deadline \in Expiries, NEW now \in Instants,
         PostMessage(a, t, k, deadline, now), UNCHANGED topicVars
  PROVE  StreamInv'
<1> USE DEF StreamInv
<1> DEFINE s == ScopeOf[t]
           q == next[s]
           p == [topic |-> t, seq |-> q, actor |-> a, kind |-> "message",
                 at |-> now, expires |-> deadline, key |-> k, type |-> NoType,
                 of |-> q, rev |-> 1]
           new == [msg |-> q, topic |-> t, author |-> a, rev |-> 1,
                   entry |-> q, pinned |-> FALSE]
<1>1. s \in Scopes /\ q \in Nat \ {0}
  BY ScopesAssumption DEF StreamTypeOK
<1>2. p \in Publication /\ new \in HeadRow
  BY <1>1, ClockAssumption DEF Publication, HeadRow
<1>3. /\ AppendEntry(s, p)
      /\ heads' = [heads EXCEPT ![s] = heads[s] \cup {new}]
      /\ UNCHANGED <<votes, pinAudit, tomb, pruned, low, epoch, plan>>
  BY DEF PostMessage, NextSequence
<1>4. /\ p.seq = NextSequence(s) /\ p.seq = q /\ p.of = q /\ p.rev = 1
      /\ p.kind = "message" /\ p.topic = t /\ p.actor = a
  BY DEF NextSequence
<1>5. /\ new.msg = q /\ new.entry = q /\ new.rev = 1
      /\ new.topic = t /\ new.author = a
  OBVIOUS
<1>6. next' = [next EXCEPT ![s] = q + 1] /\ pubs' = [pubs EXCEPT ![s] = pubs[s] \cup {p}]
  BY <1>3, <1>4 DEF AppendEntry
<1> HIDE DEF p, new
<1>7. /\ next' \in [Scopes -> Nat \ {0}]
      /\ pubs' \in [Scopes -> SUBSET Publication]
      /\ idem' \in [Scopes -> SUBSET KeyedRow]
      /\ keyed' \in [Scopes -> SUBSET KeyedRow]
      /\ PositionsAccounted'
  BY <1>1, <1>2, <1>3, <1>4, AppendKeepsPositions
<1>8. TopicTypeOK' /\ StreamTypeOK' /\ PinsFinite'
  BY <1>2, <1>3, <1>7 DEF TopicTypeOK, StreamTypeOK, PinsFinite, topicVars
<1>9. OneHeadPerMessage' /\ HeadsCoherent'
  <2> SUFFICES ASSUME NEW r \in Scopes
               PROVE  /\ \A h \in heads'[r] : h.msg \in 1 .. HighWater(r)'
                      /\ \A g, h \in heads'[r] : g.msg = h.msg => g = h
                      /\ \A h \in heads'[r] :
                            /\ \E x \in Revisions(r, h.msg)' :
                                  /\ x.seq = h.entry /\ x.rev = h.rev
                                  /\ x.topic = h.topic /\ x.actor = h.author
                            /\ \A x \in Revisions(r, h.msg)' :
                                  x.rev < h.rev \/ x.seq = h.entry
                      /\ \A x \in Messages(r)' : \E h \in heads'[r] : h.msg = x.of
    BY DEF OneHeadPerMessage, HeadsCoherent
  <2>1. /\ \A h \in heads[r] : h.msg \in 1 .. HighWater(r)
        /\ \A g, h \in heads[r] : g.msg = h.msg => g = h
    BY DEF OneHeadPerMessage
  <2>2. /\ \A h \in heads[r] :
              /\ \E x \in Revisions(r, h.msg) :
                    /\ x.seq = h.entry /\ x.rev = h.rev
                    /\ x.topic = h.topic /\ x.actor = h.author
              /\ \A x \in Revisions(r, h.msg) : x.rev < h.rev \/ x.seq = h.entry
        /\ \A x \in Messages(r) : \E h \in heads[r] : h.msg = x.of
    BY DEF HeadsCoherent
  <2>3. CASE r # s
    <3>1. next'[r] = next[r] /\ pubs'[r] = pubs[r] /\ heads'[r] = heads[r]
      BY <1>3, <1>6, <2>3 DEF StreamTypeOK
    <3>2. QED
      BY <2>1, <2>2, <3>1 DEF Revisions, Messages, HighWater
  <2>4. CASE r = s
    <3>1. /\ next'[r] = q + 1
          /\ pubs'[r] = pubs[r] \cup {p}
          /\ heads'[r] = heads[r] \cup {new}
      BY <1>1, <1>3, <1>6, <2>4 DEF StreamTypeOK
    <3>2. HighWater(r)' = q /\ HighWater(r) = q - 1
      BY <3>1, <1>1, <2>4 DEF HighWater
    <3>3. \A h \in heads[r] : h.msg \in 1 .. q /\ h.msg # q
      BY <2>1, <3>2, <1>1
    <3>4. Messages(r)' = Messages(r) \cup {p}
      BY <3>1, <1>4 DEF Messages
    <3>5. \A m : Revisions(r, m)' = Revisions(r, m) \cup
                                      (IF m = q THEN {p} ELSE {})
      BY <3>4, <1>4 DEF Revisions
    <3>6. Revisions(r, q) = {}
      BY <2>2, <3>3 DEF Revisions
    <3>7. /\ \A h \in heads'[r] : h.msg \in 1 .. HighWater(r)'
          /\ \A g, h \in heads'[r] : g.msg = h.msg => g = h
      BY <2>1, <3>1, <3>2, <3>3, <1>1, <1>5
    <3>8. ASSUME NEW h \in heads'[r]
          PROVE  /\ \E x \in Revisions(r, h.msg)' :
                       /\ x.seq = h.entry /\ x.rev = h.rev
                       /\ x.topic = h.topic /\ x.actor = h.author
                 /\ \A x \in Revisions(r, h.msg)' :
                       x.rev < h.rev \/ x.seq = h.entry
      <4>1. CASE h = new
        BY <4>1, <3>5, <3>6, <1>4, <1>5
      <4>2. CASE h \in heads[r]
        <5>1. Revisions(r, h.msg)' = Revisions(r, h.msg)
          BY <3>3, <3>5, <4>2
        <5>2. QED
          BY <5>1, <2>2, <4>2
      <4>3. QED
        BY <4>1, <4>2, <3>1
    <3>9. \A x \in Messages(r)' : \E h \in heads'[r] : h.msg = x.of
      BY <2>2, <3>1, <3>4, <1>4, <1>5
    <3>10. QED
      BY <3>7, <3>8, <3>9
  <2>5. QED
    BY <2>3, <2>4
<1>10. QED
  BY <1>7, <1>8, <1>9

(* A new event: an entry, and no head. *)
LEMMA PublishEventKeepsInv ==
  ASSUME StreamInv,
         NEW a \in Actors, NEW t \in Topics, NEW e \in EventTypes,
         NEW k \in Keys \cup {NoKey}, NEW c \in {0} \cup Retained(ScopeOf[t]),
         NEW deadline \in Expiries, NEW now \in Instants,
         PublishEvent(a, t, e, k, c, deadline, now), UNCHANGED topicVars
  PROVE  StreamInv'
<1> USE DEF StreamInv
<1> DEFINE s == ScopeOf[t]
           q == next[s]
           p == [topic |-> t, seq |-> q, actor |-> a, kind |-> "event",
                 at |-> now, expires |-> deadline, key |-> k, type |-> e,
                 of |-> c, rev |-> 0]
<1>1. s \in Scopes /\ q \in Nat \ {0} /\ c \in Nat
  <2>1. s \in Scopes
    BY ScopesAssumption
  <2>2. pubs[s] \subseteq Publication /\ q \in Nat \ {0}
    BY <2>1 DEF StreamTypeOK
  <2>3. \A x \in pubs[s] : x.seq \in Nat
    BY <2>2 DEF Publication
  <2>4. QED
    BY <2>1, <2>2, <2>3 DEF Retained
<1>2. p \in Publication
  BY <1>1, ClockAssumption DEF Publication
<1>3. /\ AppendEntry(s, p)
      /\ UNCHANGED <<heads, votes, pinAudit, tomb, pruned, low, epoch, plan>>
  BY DEF PublishEvent, NextSequence
<1>4. p.seq = NextSequence(s) /\ p.seq = q /\ p.kind = "event"
  BY DEF NextSequence
<1>5. next' = [next EXCEPT ![s] = q + 1] /\ pubs' = [pubs EXCEPT ![s] = pubs[s] \cup {p}]
  BY <1>3, <1>4 DEF AppendEntry
<1> HIDE DEF p
<1>6. /\ next' \in [Scopes -> Nat \ {0}]
      /\ pubs' \in [Scopes -> SUBSET Publication]
      /\ idem' \in [Scopes -> SUBSET KeyedRow]
      /\ keyed' \in [Scopes -> SUBSET KeyedRow]
      /\ PositionsAccounted'
  BY <1>1, <1>2, <1>3, <1>4, AppendKeepsPositions
<1>7. TopicTypeOK' /\ StreamTypeOK' /\ PinsFinite'
  BY <1>3, <1>6 DEF TopicTypeOK, StreamTypeOK, PinsFinite, topicVars
<1>8. \A r \in Scopes : Messages(r)' = Messages(r) /\ heads'[r] = heads[r]
  BY <1>3, <1>4, <1>5 DEF StreamTypeOK, Messages
<1>9. HeadsCoherent'
  BY <1>8 DEF HeadsCoherent, Revisions
<1>10. OneHeadPerMessage'
  <2> SUFFICES ASSUME NEW r \in Scopes, NEW h \in heads[r]
               PROVE  h.msg \in 1 .. HighWater(r)'
    BY <1>8 DEF OneHeadPerMessage
  <2>1. h.msg \in 1 .. HighWater(r)
    BY DEF OneHeadPerMessage
  <2>2. next[r] \in Nat /\ next'[r] \in Nat /\ next[r] <= next'[r]
    BY <1>1, <1>5 DEF StreamTypeOK
  <2>3. QED
    BY <2>1, <2>2 DEF HighWater
<1>11. QED
  BY <1>6, <1>7, <1>9, <1>10

(* A revision: its entry becomes the newest, and the head moves to it. *)
LEMMA ReviseKeepsInv ==
  ASSUME StreamInv,
         NEW a \in Actors, NEW t \in Topics, NEW h \in heads[ScopeOf[t]],
         NEW k \in Keys \cup {NoKey}, NEW change \in BOOLEAN,
         NEW deadline \in Expiries, NEW now \in Instants,
         ReviseMessage(a, t, h, h.rev, k, change, deadline, now),
         UNCHANGED topicVars
  PROVE  StreamInv'
<1> USE DEF StreamInv
<1> DEFINE s == ScopeOf[t]
           q == next[s]
           old == CHOOSE p \in pubs[s] : p.seq = h.entry
           expires == IF change THEN deadline ELSE old.expires
           p == [topic |-> t, seq |-> q, actor |-> a, kind |-> "message",
                 at |-> now, expires |-> expires, key |-> k, type |-> NoType,
                 of |-> h.msg, rev |-> h.rev + 1]
           new == NextHead(h, q)
<1>1. /\ s \in Scopes /\ q \in Nat \ {0}
      /\ h \in HeadRow /\ h.msg \in Nat /\ h.rev \in Nat
      /\ pubs[s] \subseteq Publication
  <2>1. s \in Scopes
    BY ScopesAssumption
  <2>2. q \in Nat \ {0} /\ heads[s] \subseteq HeadRow /\ pubs[s] \subseteq Publication
    BY <2>1 DEF StreamTypeOK
  <2>3. QED
    BY <2>1, <2>2 DEF HeadRow
<1>2. expires \in Expiries
  <2>1. \E x \in pubs[s] : x.seq = h.entry
    BY <1>1 DEF HeadsCoherent, Revisions, Messages
  <2>2. old \in pubs[s]
    BY <2>1
  <2>3. QED
    BY <1>1, <2>2 DEF Publication
<1> HIDE DEF expires
<1>3. p \in Publication /\ new \in HeadRow
  <2>1. p \in Publication
    BY <1>1, <1>2, ClockAssumption DEF Publication
  <2>2. new \in HeadRow
    <3>1. \A n \in Nat :
            [h EXCEPT !.rev = n, !.entry = q, !.pinned = FALSE] \in HeadRow
      BY <1>1 DEF HeadRow
    <3>2. h.rev + 1 \in Nat
      BY <1>1
    <3>3. QED
      BY <3>1, <3>2, Zenon DEF NextHead
  <2>3. QED
    BY <2>1, <2>2
<1>4. /\ AppendEntry(s, p)
      /\ heads' = [heads EXCEPT ![s] = (heads[s] \ {h}) \cup {new}]
      /\ h.topic = t /\ h.author = a
      /\ UNCHANGED <<votes, pinAudit, tomb, pruned, low, epoch, plan>>
  BY DEF ReviseMessage, NextSequence, expires
<1>5. /\ p.seq = NextSequence(s) /\ p.seq = q /\ p.of = h.msg
      /\ p.rev = h.rev + 1 /\ p.kind = "message" /\ p.topic = t /\ p.actor = a
  BY DEF NextSequence
<1>6. /\ new.msg = h.msg /\ new.entry = q /\ new.rev = h.rev + 1
      /\ new.topic = t /\ new.author = a
  BY <1>1, <1>4 DEF NextHead, HeadRow
<1>7. next' = [next EXCEPT ![s] = q + 1] /\ pubs' = [pubs EXCEPT ![s] = pubs[s] \cup {p}]
  BY <1>4, <1>5 DEF AppendEntry
<1> HIDE DEF p, new
<1>8. /\ next' \in [Scopes -> Nat \ {0}]
      /\ pubs' \in [Scopes -> SUBSET Publication]
      /\ idem' \in [Scopes -> SUBSET KeyedRow]
      /\ keyed' \in [Scopes -> SUBSET KeyedRow]
      /\ PositionsAccounted'
  BY <1>1, <1>3, <1>4, <1>5, AppendKeepsPositions
<1>9. TopicTypeOK' /\ StreamTypeOK' /\ PinsFinite'
  <2>1. heads' \in [Scopes -> SUBSET HeadRow]
    BY <1>1, <1>3, <1>4 DEF StreamTypeOK
  <2>2. QED
    BY <2>1, <1>4, <1>8 DEF TopicTypeOK, StreamTypeOK, PinsFinite, topicVars
<1>10. OneHeadPerMessage' /\ HeadsCoherent'
  <2> SUFFICES ASSUME NEW r \in Scopes
               PROVE  /\ \A g \in heads'[r] : g.msg \in 1 .. HighWater(r)'
                      /\ \A f, g \in heads'[r] : f.msg = g.msg => f = g
                      /\ \A g \in heads'[r] :
                            /\ \E x \in Revisions(r, g.msg)' :
                                  /\ x.seq = g.entry /\ x.rev = g.rev
                                  /\ x.topic = g.topic /\ x.actor = g.author
                            /\ \A x \in Revisions(r, g.msg)' :
                                  x.rev < g.rev \/ x.seq = g.entry
                      /\ \A x \in Messages(r)' : \E g \in heads'[r] : g.msg = x.of
    BY DEF OneHeadPerMessage, HeadsCoherent
  <2>1. /\ \A g \in heads[r] : g.msg \in 1 .. HighWater(r)
        /\ \A f, g \in heads[r] : f.msg = g.msg => f = g
    BY DEF OneHeadPerMessage
  <2>2. /\ \A g \in heads[r] :
              /\ \E x \in Revisions(r, g.msg) :
                    /\ x.seq = g.entry /\ x.rev = g.rev
                    /\ x.topic = g.topic /\ x.actor = g.author
              /\ \A x \in Revisions(r, g.msg) : x.rev < g.rev \/ x.seq = g.entry
        /\ \A x \in Messages(r) : \E g \in heads[r] : g.msg = x.of
    BY DEF HeadsCoherent
  <2>3. CASE r # s
    <3>1. next'[r] = next[r] /\ pubs'[r] = pubs[r] /\ heads'[r] = heads[r]
      BY <1>4, <1>7, <2>3 DEF StreamTypeOK
    <3>2. QED
      BY <2>1, <2>2, <3>1 DEF Revisions, Messages, HighWater
  <2>4. CASE r = s
    <3>1. /\ next'[r] = q + 1
          /\ pubs'[r] = pubs[r] \cup {p}
          /\ heads'[r] = (heads[r] \ {h}) \cup {new}
      BY <1>1, <1>4, <1>7, <2>4 DEF StreamTypeOK
    <3>2. HighWater(r)' = q /\ HighWater(r) = q - 1
      BY <3>1, <1>1, <2>4 DEF HighWater
    <3>3. \A g \in heads[r] \ {h} : g.msg \in 1 .. q /\ g.msg # h.msg
      BY <2>1, <2>4, <3>2, <1>1
    <3>4. Messages(r)' = Messages(r) \cup {p}
      BY <3>1, <1>5 DEF Messages
    <3>5. \A m : Revisions(r, m)' = Revisions(r, m) \cup
                                      (IF m = h.msg THEN {p} ELSE {})
      BY <3>4, <1>5 DEF Revisions
    <3>6. \A x \in Revisions(r, h.msg) : x.rev < h.rev + 1
      <4>1. PICK y \in Revisions(r, h.msg) : y.seq = h.entry /\ y.rev = h.rev
        BY <2>2, <2>4
      <4>2. ASSUME NEW x \in Revisions(r, h.msg)  PROVE x.rev < h.rev + 1
        <5>1. x \in pubs[r] /\ y \in pubs[r]
          BY DEF Revisions, Messages
        <5>2. x.rev < h.rev \/ x = y
          BY <4>1, <5>1, <2>2, <2>4 DEF PositionsAccounted
        <5>3. x.rev \in Nat
          BY <5>1, <1>1, <2>4 DEF Publication
        <5>4. QED
          BY <5>2, <5>3, <4>1, <1>1
      <4>3. QED
        BY <4>2
    <3>7. /\ \A g \in heads'[r] : g.msg \in 1 .. HighWater(r)'
          /\ \A f, g \in heads'[r] : f.msg = g.msg => f = g
      <4>1. h.msg \in 1 .. q
        BY <2>1, <2>4, <3>2, <1>1
      <4>2. QED
        BY <4>1, <2>1, <3>1, <3>2, <3>3, <1>6
    <3>8. ASSUME NEW g \in heads'[r]
          PROVE  /\ \E x \in Revisions(r, g.msg)' :
                       /\ x.seq = g.entry /\ x.rev = g.rev
                       /\ x.topic = g.topic /\ x.actor = g.author
                 /\ \A x \in Revisions(r, g.msg)' :
                       x.rev < g.rev \/ x.seq = g.entry
      <4>1. CASE g = new
        BY <4>1, <3>5, <3>6, <1>5, <1>6
      <4>2. CASE g \in heads[r] \ {h}
        <5>1. Revisions(r, g.msg)' = Revisions(r, g.msg)
          BY <3>3, <3>5, <4>2
        <5>2. QED
          BY <5>1, <2>2, <4>2
      <4>3. QED
        BY <4>1, <4>2, <3>1
    <3>9. \A x \in Messages(r)' : \E g \in heads'[r] : g.msg = x.of
      BY <2>2, <3>1, <3>4, <1>5, <1>6
    <3>10. QED
      BY <3>7, <3>8, <3>9
  <2>5. QED
    BY <2>3, <2>4
<1>11. QED
  BY <1>8, <1>9, <1>10

(* Pinning and voting change neither positions nor revisions. *)
LEMMA PinKeepsInv ==
  ASSUME StreamInv,
         NEW a \in Actors, NEW t \in Topics, NEW h \in heads[ScopeOf[t]],
         NEW pin \in BOOLEAN, NEW now \in Instants,
         PinMessage(a, t, topic[t].generation, h, h.rev, pin, now),
         UNCHANGED topicVars
  PROVE  StreamInv'
<1> USE DEF StreamInv
<1> DEFINE s == ScopeOf[t]
           n == Cardinality(PinRows(s, h.msg, h.rev)) + 1
           row == [msg |-> h.msg, rev |-> h.rev, n |-> n, pinned |-> pin]
           new == [h EXCEPT !.pinned = pin]
<1>1. s \in Scopes /\ h \in HeadRow
  <2>1. s \in Scopes
    BY ScopesAssumption
  <2>2. QED
    BY <2>1 DEF StreamTypeOK
<1>2. n \in Nat
  <2>1. IsFiniteSet(PinRows(s, h.msg, h.rev))
    BY <1>1, FS_Subset DEF PinRows, PinsFinite
  <2>2. QED
    BY <2>1, FS_CardinalityType
<1> HIDE DEF n
<1>3. row \in PinRow /\ new \in HeadRow
  BY <1>1, <1>2 DEF PinRow, HeadRow
<1>4. /\ new.msg = h.msg /\ new.entry = h.entry /\ new.rev = h.rev
      /\ new.topic = h.topic /\ new.author = h.author
  BY <1>1 DEF HeadRow
<1>5. /\ heads' = [heads EXCEPT ![s] = (heads[s] \ {h}) \cup {new}]
      /\ pinAudit' = [pinAudit EXCEPT ![s] = pinAudit[s] \cup {row}]
      /\ UNCHANGED <<next, pubs, votes, idem, tomb, pruned, low, epoch, plan, keyed>>
  BY DEF PinMessage, n
<1> HIDE DEF row, new
<1>6. TopicTypeOK' /\ StreamTypeOK'
  <2>1. /\ heads' \in [Scopes -> SUBSET HeadRow]
        /\ pinAudit' \in [Scopes -> SUBSET PinRow]
    BY <1>1, <1>3, <1>5 DEF StreamTypeOK
  <2>2. QED
    BY <2>1, <1>5 DEF TopicTypeOK, StreamTypeOK, topicVars
<1>7. PinsFinite'
  BY <1>1, <1>5, FS_AddElement DEF PinsFinite, StreamTypeOK
<1>8. PositionsAccounted'
  BY <1>5 DEF PositionsAccounted, Retained, HighWater
<1>9. \A r \in Scopes : heads'[r] = IF r = s THEN (heads[s] \ {h}) \cup {new}
                                    ELSE heads[r]
  BY <1>5 DEF StreamTypeOK
<1>10. OneHeadPerMessage'
  BY <1>1, <1>4, <1>5, <1>9 DEF OneHeadPerMessage, HighWater
<1>11. HeadsCoherent'
  BY <1>1, <1>4, <1>5, <1>9 DEF HeadsCoherent, Revisions, Messages
<1>12. QED
  BY <1>6, <1>7, <1>8, <1>10, <1>11

(* Voting touches the votes only. *)
LEMMA VoteKeepsInv ==
  ASSUME StreamInv,
         NEW a \in Actors, NEW t \in Topics, NEW h \in heads[ScopeOf[t]],
         NEW value \in VoteValues, NEW now \in Instants,
         VoteMessage(a, t, h, h.rev, value, now), UNCHANGED topicVars
  PROVE  StreamInv'
<1> USE DEF StreamInv
<1> DEFINE s == ScopeOf[t]
           mine == {v \in votes[s] : v.msg = h.msg /\ v.rev = h.rev /\ v.actor = a}
           cast == CastVote(h.msg, h.rev, a, value)
<1>1. s \in Scopes /\ h \in HeadRow
  <2>1. s \in Scopes
    BY ScopesAssumption
  <2>2. QED
    BY <2>1 DEF StreamTypeOK
<1>2. cast \subseteq Vote
  BY <1>1, StreamAssumption DEF CastVote, Vote, HeadRow
<1>3. /\ votes' = [votes EXCEPT ![s] = (votes[s] \ mine) \cup cast]
      /\ UNCHANGED <<next, pubs, heads, pinAudit, idem, tomb, pruned, low,
                     epoch, plan, keyed>>
  BY DEF VoteMessage
<1> HIDE DEF mine, cast
<1>4. votes' \in [Scopes -> SUBSET Vote]
  BY <1>1, <1>2, <1>3 DEF StreamTypeOK
<1>5. TopicTypeOK' /\ StreamTypeOK' /\ PinsFinite'
  BY <1>3, <1>4 DEF TopicTypeOK, StreamTypeOK, PinsFinite, topicVars
<1>6. PositionsAccounted' /\ OneHeadPerMessage' /\ HeadsCoherent'
  BY <1>3 DEF PositionsAccounted, OneHeadPerMessage, HeadsCoherent, Retained,
              HighWater, Revisions, Messages
<1>7. QED
  BY <1>5, <1>6

-----------------------------------------------------------------------------
(* Retention. *)

(* A plan shows rows of the tables as they are. *)
LEMMA PlanTyped ==
  ASSUME StreamTypeOK, NEW cutoff \in Cutoffs
  PROVE  PrunePlan(cutoff) \in
           [cutoff : Cutoffs, rows : SUBSET PlanRows, more : BOOLEAN]
<1>1. ASSUME NEW s \in Scopes, NEW p \in Batch(s, cutoff)
      PROVE  PlanRow(s, p) \in PlanRows
  <2>1. p \in Publication
    BY BatchIsRetained DEF StreamTypeOK
  <2>2. /\ heads[s] \subseteq HeadRow /\ votes[s] \subseteq Vote
        /\ pinAudit[s] \subseteq PinRow
    BY DEF StreamTypeOK
  <2>3. QED
    BY <2>1, <2>2 DEF PlanRow, PlanRows
<1>2. PruneRows(cutoff) \subseteq PlanRows
  BY <1>1 DEF PruneRows
<1>3. QED
  BY <1>2 DEF PrunePlan

(* Planning or giving up a prune touches the plan only. *)
LEMMA PlanKeepsInv ==
  ASSUME StreamInv, NEW o \in Operators,
         \/ \E cutoff \in Cutoffs, now \in Instants : PlanPrune(o, cutoff, now)
         \/ PruneFails(o),
         UNCHANGED topicVars
  PROVE  StreamInv'
<1> USE DEF StreamInv
<1>1. UNCHANGED <<tables, keyed>>
  BY DEF PlanPrune, PruneFails
<1>2. plan' \in [Operators -> {NoPlan} \cup
                   [cutoff : Cutoffs, rows : SUBSET PlanRows, more : BOOLEAN]]
  <2>1. CASE PruneFails(o)
    BY <2>1 DEF PruneFails, StreamTypeOK
  <2>2. ASSUME NEW cutoff \in Cutoffs, NEW now \in Instants,
               PlanPrune(o, cutoff, now)
        PROVE  plan' \in [Operators -> {NoPlan} \cup
                   [cutoff : Cutoffs, rows : SUBSET PlanRows, more : BOOLEAN]]
    <3>1. plan' = [plan EXCEPT ![o] = PrunePlan(cutoff)]
      BY <2>2 DEF PlanPrune
    <3>2. QED
      BY <3>1, PlanTyped DEF StreamTypeOK
  <2>3. QED
    BY <2>1, <2>2
<1>3. TopicTypeOK' /\ StreamTypeOK' /\ PinsFinite'
  BY <1>1, <1>2 DEF TopicTypeOK, StreamTypeOK, PinsFinite, topicVars, tables
<1>4. PositionsAccounted' /\ OneHeadPerMessage' /\ HeadsCoherent'
  BY <1>1 DEF PositionsAccounted, OneHeadPerMessage, HeadsCoherent, Retained,
              HighWater, Revisions, Messages, tables
<1>5. QED
  BY <1>3, <1>4

(* The mark of a set of positions left: every position up to it is gone.   *)
LEMMA LowWaterBounds ==
  ASSUME NEW s \in Scopes, NEW left, left \subseteq 1 .. HighWater(s),
         next[s] \in Nat \ {0}, low[s] \in Nat, low[s] <= HighWater(s)
  PROVE  /\ LowWater(s, left) \in Nat
         /\ LowWater(s, left) <= HighWater(s)
         /\ LowWater(s, left) >= low[s]
         /\ \A i \in 1 .. LowWater(s, left) : i <= low[s] \/ i \notin left
<1> DEFINE first == CHOOSE q \in left : \A r \in left : q <= r
           mark == IF left = {} THEN HighWater(s) ELSE first - 1
<1>1. HighWater(s) \in Nat
  BY DEF HighWater
<1>2. /\ mark \in Nat
      /\ mark <= HighWater(s)
      /\ \A i \in 1 .. mark : i \notin left
  <2>1. CASE left = {}
    BY <1>1, <2>1
  <2>2. CASE left # {}
    <3>1. left \subseteq Nat
      BY <1>1
    <3>2. first \in left /\ \A r \in left : first <= r
      BY <2>2, <3>1, LeastNatural
    <3>3. first \in 1 .. HighWater(s) /\ mark = first - 1
      BY <3>2, <2>2
    <3> HIDE DEF first, mark
    <3>4. mark \in Nat /\ mark <= HighWater(s)
      BY <1>1, <3>3
    <3>5. \A i \in 1 .. mark : i < first
      BY <1>1, <3>3, <3>4
    <3>6. \A r \in left : r \in Int /\ first \in Int
      BY <3>1, <3>2
    <3>7. QED
      BY <3>2, <3>4, <3>5, <3>6
  <2>3. QED
    BY <2>1, <2>2
<1>3. LowWater(s, left) = IF mark > low[s] THEN mark ELSE low[s]
  BY DEF LowWater
<1> HIDE DEF mark
<1>4. QED
  BY <1>1, <1>2, <1>3

(* A batch that takes the current revision of a message takes all of them: *)
(* the message is old, and its group is taken whole.                       *)
LEMMA HeadTakenMessageTaken ==
  ASSUME StreamInv, NEW s \in Scopes, NEW cutoff,
         NEW h \in heads[s], NEW p \in Batch(s, cutoff),
         p.kind = "message", p.of = h.msg, p.seq = h.entry
  PROVE  OldHead(s, h, cutoff) /\ Revisions(s, h.msg) \subseteq Batch(s, cutoff)
<1>1. PICK G \in Groups(s, cutoff) : p \in G /\ G \subseteq Batch(s, cutoff)
  BY DEF Batch
<1>2. \A g \in heads[s] : g.msg = h.msg => g = h
  BY DEF StreamInv, OneHeadPerMessage
<1>3. CASE G \in OldMessages(s, cutoff)
  <2>1. PICK g \in heads[s] : OldHead(s, g, cutoff) /\ G = Revisions(s, g.msg)
    BY <1>3 DEF OldMessages
  <2>2. g = h
    BY <1>1, <1>2, <2>1 DEF Revisions
  <2>3. QED
    BY <1>1, <2>1, <2>2
<1>4. CASE G \in OldRevisions(s, cutoff)
  <2>1. PICK x \in Messages(s) :
          /\ G = {x}
          /\ \E g \in heads[s] : g.msg = x.of /\ g.entry # x.seq
    BY <1>4 DEF OldRevisions
  <2>2. QED
    BY <1>1, <1>2, <2>1
<1>5. CASE G \in OldChains(s, cutoff)
  BY <1>1, <1>5 DEF OldChains, Chain, Events
<1>6. QED
  BY <1>1, <1>3, <1>4, <1>5 DEF Groups

(* A prune takes entries, and with the last of them the head. *)
LEMMA PruneKeepsInv ==
  ASSUME StreamInv, NEW o \in Operators, NEW now \in Instants,
         CommitPrune(o, now), UNCHANGED topicVars
  PROVE  StreamInv'
<1> USE DEF StreamInv
<1> DEFINE cutoff == plan[o].cutoff
           gone == [s \in Scopes |-> Batch(s, cutoff)]
           IsGone(s, e) == \E p \in gone[s] : p.seq = e
           RevGone(s, m, r) ==
             \E p \in gone[s] : p.kind = "message" /\ p.of = m /\ p.rev = r
           left(s) == {p.seq : p \in pubs[s] \ gone[s]}
<1>1. \A s \in Scopes : gone[s] = Batch(s, cutoff) /\ gone[s] \subseteq pubs[s]
  BY BatchIsRetained
<1>2. /\ tomb' = [s \in Scopes |-> tomb[s] \cup Tombstones(gone[s])]
      /\ idem' = [s \in Scopes |-> {x \in idem[s] : ~IsGone(s, x.entry)}]
      /\ votes' = [s \in Scopes |-> {v \in votes[s] : ~RevGone(s, v.msg, v.rev)}]
      /\ pinAudit' = [s \in Scopes |-> {x \in pinAudit[s] : ~RevGone(s, x.msg, x.rev)}]
      /\ heads' = [s \in Scopes |->
                     {h \in heads[s] : ~(OldHead(s, h, cutoff) /\ IsGone(s, h.entry))}]
      /\ pubs' = [s \in Scopes |-> pubs[s] \ gone[s]]
      /\ pruned' = [s \in Scopes |-> pruned[s] \cup {p.seq : p \in gone[s]}]
      /\ low' = [s \in Scopes |-> IF gone[s] = {} THEN low[s]
                                  ELSE LowWater(s, left(s))]
      /\ epoch' = epoch + 1
      /\ plan' = [plan EXCEPT ![o] = NoPlan]
      /\ UNCHANGED <<next, keyed>>
  BY DEF CommitPrune
<1> HIDE DEF gone, cutoff
<1>3. ASSUME NEW s \in Scopes
      PROVE  /\ left(s) \subseteq 1 .. HighWater(s)
             /\ LowWater(s, left(s)) \in Nat
             /\ LowWater(s, left(s)) <= HighWater(s)
             /\ \A i \in 1 .. LowWater(s, left(s)) : i <= low[s] \/ i \notin left(s)
  <2>1. left(s) \subseteq 1 .. HighWater(s)
    BY DEF PositionsAccounted, Retained
  <2>2. next[s] \in Nat \ {0} /\ low[s] \in Nat /\ low[s] <= HighWater(s)
    BY DEF StreamTypeOK, PositionsAccounted
  <2>3. QED
    BY <2>1, <2>2, LowWaterBounds
<1>4. TopicTypeOK' /\ StreamTypeOK' /\ PinsFinite'
  <2>1. /\ pubs' \in [Scopes -> SUBSET Publication]
        /\ heads' \in [Scopes -> SUBSET HeadRow]
        /\ votes' \in [Scopes -> SUBSET Vote]
        /\ pinAudit' \in [Scopes -> SUBSET PinRow]
        /\ idem' \in [Scopes -> SUBSET KeyedRow]
    BY <1>2 DEF StreamTypeOK
  <2>2. tomb' \in [Scopes -> SUBSET KeyRow]
    <3>1. \A s \in Scopes : Tombstones(gone[s]) \subseteq KeyRow
      BY <1>1 DEF Tombstones, StreamTypeOK, Publication, KeyRow
    <3>2. QED
      BY <1>2, <3>1 DEF StreamTypeOK
  <2>3. pruned' \in [Scopes -> SUBSET Nat]
    <3>1. \A s \in Scopes : {p.seq : p \in gone[s]} \subseteq Nat
      BY <1>1 DEF StreamTypeOK, Publication
    <3>2. QED
      BY <1>2, <3>1 DEF StreamTypeOK
  <2>4. low' \in [Scopes -> Nat]
    BY <1>2, <1>3 DEF StreamTypeOK
  <2>5. /\ plan' \in [Operators -> {NoPlan} \cup
                        [cutoff : Cutoffs, rows : SUBSET PlanRows, more : BOOLEAN]]
        /\ epoch' \in Nat
    BY <1>2 DEF StreamTypeOK
  <2>6. PinsFinite'
    <3>1. \A s \in Scopes : pinAudit'[s] \subseteq pinAudit[s]
      BY <1>2
    <3>2. QED
      BY <3>1, FS_Subset DEF PinsFinite
  <2>7. QED
    BY <1>2, <2>1, <2>2, <2>3, <2>4, <2>5, <2>6
    DEF TopicTypeOK, StreamTypeOK, topicVars
<1>5. PositionsAccounted'
  <2> SUFFICES ASSUME NEW s \in Scopes
               PROVE  /\ Retained(s)' \cup pruned'[s] = 1 .. HighWater(s)'
                      /\ Retained(s)' \cap pruned'[s] = {}
                      /\ \A x, y \in pubs'[s] : x.seq = y.seq => x = y
                      /\ low'[s] <= HighWater(s)'
                      /\ 1 .. low'[s] \subseteq pruned'[s]
    BY DEF PositionsAccounted
  <2>1. /\ Retained(s) \cup pruned[s] = 1 .. HighWater(s)
        /\ Retained(s) \cap pruned[s] = {}
        /\ \A x, y \in pubs[s] : x.seq = y.seq => x = y
        /\ low[s] <= HighWater(s)
        /\ 1 .. low[s] \subseteq pruned[s]
    BY DEF PositionsAccounted
  <2>2. /\ pubs'[s] = pubs[s] \ gone[s] /\ gone[s] \subseteq pubs[s]
        /\ pruned'[s] = pruned[s] \cup {p.seq : p \in gone[s]}
        /\ low'[s] = IF gone[s] = {} THEN low[s] ELSE LowWater(s, left(s))
        /\ HighWater(s)' = HighWater(s)
        /\ Retained(s)' = left(s)
    BY <1>1, <1>2 DEF HighWater, Retained
  <2>3. /\ Retained(s)' \cup pruned'[s] = 1 .. HighWater(s)'
        /\ Retained(s)' \cap pruned'[s] = {}
        /\ \A x, y \in pubs'[s] : x.seq = y.seq => x = y
    BY <2>1, <2>2 DEF Retained
  <2>4. /\ low'[s] <= HighWater(s)'
        /\ low'[s] \in Nat
        /\ \A i \in 1 .. low'[s] : i <= low[s] \/ i \notin left(s)
    <3>1. CASE gone[s] = {}
      BY <2>1, <2>2, <3>1 DEF StreamTypeOK
    <3>2. CASE gone[s] # {}
      BY <1>3, <2>2, <3>2
    <3>3. QED
      BY <3>1, <3>2
  <2>5. HighWater(s) \in Nat /\ low[s] \in Nat
    BY DEF HighWater, StreamTypeOK
  <2>6. ASSUME NEW i \in 1 .. low'[s]  PROVE i \in pruned'[s]
    <3>1. CASE i <= low[s]
      BY <2>1, <2>2, <2>4, <2>5, <3>1
    <3>2. CASE i \notin left(s)
      BY <2>2, <2>3, <2>4, <2>5, <3>2
    <3>3. QED
      BY <2>4, <3>1, <3>2
  <2>7. QED
    BY <2>3, <2>4, <2>6
<1>6. OneHeadPerMessage'
  BY <1>2 DEF OneHeadPerMessage, HighWater
<1>7. HeadsCoherent'
  <2> SUFFICES ASSUME NEW s \in Scopes
               PROVE  /\ \A h \in heads'[s] :
                            /\ \E p \in Revisions(s, h.msg)' :
                                  /\ p.seq = h.entry /\ p.rev = h.rev
                                  /\ p.topic = h.topic /\ p.actor = h.author
                            /\ \A p \in Revisions(s, h.msg)' :
                                  p.rev < h.rev \/ p.seq = h.entry
                      /\ \A p \in Messages(s)' : \E h \in heads'[s] : h.msg = p.of
    BY DEF HeadsCoherent
  <2>1. /\ \A h \in heads[s] :
              /\ \E p \in Revisions(s, h.msg) :
                    /\ p.seq = h.entry /\ p.rev = h.rev
                    /\ p.topic = h.topic /\ p.actor = h.author
              /\ \A p \in Revisions(s, h.msg) : p.rev < h.rev \/ p.seq = h.entry
        /\ \A p \in Messages(s) : \E h \in heads[s] : h.msg = p.of
    BY DEF HeadsCoherent
  <2>2. /\ Messages(s)' = Messages(s) \ gone[s]
        /\ \A m : Revisions(s, m)' = Revisions(s, m) \ gone[s]
        /\ heads'[s] = {h \in heads[s] :
                          ~(OldHead(s, h, cutoff) /\ IsGone(s, h.entry))}
    BY <1>2 DEF Messages, Revisions
  <2>3. ASSUME NEW h \in heads[s], NEW p \in Revisions(s, h.msg), p \in gone[s],
               p.seq = h.entry
        PROVE  OldHead(s, h, cutoff) /\ Revisions(s, h.msg) \subseteq gone[s]
    BY <1>1, <2>3, HeadTakenMessageTaken DEF Revisions, Messages
  <2>4. ASSUME NEW h \in heads'[s]
        PROVE  /\ \E p \in Revisions(s, h.msg)' :
                     /\ p.seq = h.entry /\ p.rev = h.rev
                     /\ p.topic = h.topic /\ p.actor = h.author
               /\ \A p \in Revisions(s, h.msg)' : p.rev < h.rev \/ p.seq = h.entry
    <3>1. PICK p \in Revisions(s, h.msg) :
            /\ p.seq = h.entry /\ p.rev = h.rev
            /\ p.topic = h.topic /\ p.actor = h.author
      BY <2>1, <2>2
    <3>2. p \notin gone[s]
      BY <2>2, <2>3, <3>1
    <3>3. QED
      BY <2>1, <2>2, <3>1, <3>2
  <2>5. ASSUME NEW x \in Messages(s)'
        PROVE  \E h \in heads'[s] : h.msg = x.of
    <3>1. PICK h \in heads[s] : h.msg = x.of
      BY <2>1, <2>2
    <3>2. x \in Revisions(s, h.msg) /\ x \notin gone[s]
      BY <2>2, <3>1 DEF Revisions
    <3>3. PICK p \in Revisions(s, h.msg) : p.seq = h.entry
      BY <2>1
    <3>4. ASSUME IsGone(s, h.entry)  PROVE p \in gone[s]
      BY <1>1, <3>3, <3>4 DEF PositionsAccounted, Revisions, Messages
    <3>5. ~IsGone(s, h.entry)
      BY <2>3, <3>2, <3>3, <3>4
    <3>6. QED
      BY <2>2, <3>1, <3>5
  <2>6. QED
    BY <2>4, <2>5
<1>8. QED
  BY <1>4, <1>5, <1>6, <1>7

-----------------------------------------------------------------------------

(* Every step of the hub preserves the invariant. *)
LEMMA NextKeepsInv == StreamInv /\ [Next]_vars => StreamInv'
<1> SUFFICES ASSUME StreamInv, [Next]_vars  PROVE StreamInv'
  OBVIOUS
<1>1. CASE TopicNext /\ UNCHANGED streamVars
  BY <1>1, TopicStepKeepsInv
<1>2. CASE Publish /\ UNCHANGED topicVars
  <2>1. PICK a \in Actors, t \in Topics, k \in Keys \cup {NoKey},
             deadline \in Expiries, now \in Instants :
          \/ PostMessage(a, t, k, deadline, now)
          \/ \E h \in heads[ScopeOf[t]], change \in BOOLEAN :
                ReviseMessage(a, t, h, h.rev, k, change, deadline, now)
          \/ \E e \in EventTypes, c \in {0} \cup Retained(ScopeOf[t]) :
                PublishEvent(a, t, e, k, c, deadline, now)
    BY <1>2 DEF Publish
  <2>2. QED
    BY <1>2, <2>1, PostKeepsInv, ReviseKeepsInv, PublishEventKeepsInv
<1>3. CASE Curate /\ UNCHANGED topicVars
  <2>1. PICK a \in Actors, t \in Topics, now \in Instants :
          \E h \in heads[ScopeOf[t]] :
             \/ \E pin \in BOOLEAN :
                   PinMessage(a, t, topic[t].generation, h, h.rev, pin, now)
             \/ \E value \in VoteValues : VoteMessage(a, t, h, h.rev, value, now)
    BY <1>3 DEF Curate
  <2>2. QED
    BY <1>3, <2>1, PinKeepsInv, VoteKeepsInv
<1>4. CASE Retain /\ UNCHANGED topicVars
  <2>1. PICK o \in Operators :
          \/ \E cutoff \in Cutoffs, now \in Instants : PlanPrune(o, cutoff, now)
          \/ \E now \in Instants : CommitPrune(o, now)
          \/ PruneFails(o)
    BY <1>4 DEF Retain
  <2>2. QED
    BY <1>4, <2>1, PlanKeepsInv, PruneKeepsInv
<1>5. CASE UNCHANGED vars
  <2>1. UNCHANGED streamVars /\ UNCHANGED topicVars
    BY <1>5 DEF vars
  <2>2. TopicTypeOK' /\ StreamTypeOK' /\ PinsFinite'
    BY <2>1 DEF StreamInv, TopicTypeOK, StreamTypeOK, PinsFinite, topicVars,
                streamVars
  <2>3. PositionsAccounted' /\ OneHeadPerMessage' /\ HeadsCoherent'
    BY <2>1 DEF StreamInv, streamVars, PositionsAccounted, OneHeadPerMessage,
                HeadsCoherent, Retained, HighWater, Revisions, Messages
  <2>4. QED
    BY <2>2, <2>3 DEF StreamInv
<1>6. QED
  BY <1>1, <1>2, <1>3, <1>4, <1>5 DEF Next, StreamNext

(* The stream invariant holds in every reachable state. *)
LEMMA InvHolds == Spec => []StreamInv
  BY InitEstablishesInv, NextKeepsInv, PTL DEF Spec

(* Every table of the hub holds rows of its own shape in every reachable   *)
(* state: in particular a revision that keeps its deadline always finds    *)
(* the entry it takes it from (ReviseMessage, message.go:455).             *)
THEOREM TypeCorrect == Spec => []TypeOK
<1>1. StreamInv => TypeOK
  BY DEF StreamInv, TypeOK
<1>2. QED
  BY <1>1, InvHolds, PTL

(* Every position a scope issued is held by exactly one retained entry or  *)
(* recorded as pruned, and the low-water mark covers pruned positions      *)
(* only, whatever is published, revised and pruned by however many         *)
(* processes (nextSequence, message.go:274; PruneHub, retention.go:77).    *)
THEOREM PositionsAreAccounted == Spec => []PositionsAccounted
<1>1. StreamInv => PositionsAccounted
  BY DEF StreamInv
<1>2. QED
  BY <1>1, InvHolds, PTL

(* The head of a message points at its newest revision, which is retained, *)
(* and no retained revision is without a head (ReviseMessage's head        *)
(* update, message.go:331; PruneHub's head deletion, retention.go:157).    *)
THEOREM HeadsAreCoherent == Spec => []HeadsCoherent
<1>1. StreamInv => HeadsCoherent
  BY DEF StreamInv
<1>2. QED
  BY <1>1, InvHolds, PTL

-----------------------------------------------------------------------------
(* Idempotency keys.  A row of the history belongs to one position of the  *)
(* stream, and says of a retained entry what the entry says of itself.     *)

KeyOf(p) == [topic |-> p.topic, actor |-> p.actor, key |-> p.key]
RowOf(p) == [topic |-> p.topic, actor |-> p.actor, key |-> p.key,
             entry |-> p.seq]

KeyedByEntries ==
  \A s \in Scopes :
     /\ \A x \in keyed[s] : x.entry \in 1 .. HighWater(s)
     /\ \A p \in pubs[s] :
           /\ p.key # NoKey => RowOf(p) \in keyed[s]
           /\ \A x \in keyed[s] :
                 x.entry = p.seq => p.key # NoKey /\ x = RowOf(p)

KeyInv == KeyedByEntries /\ OneEntryPerKey /\ KeysRemembered

(* No key has been used at first. *)
LEMMA InitEstablishesKeys == Init => KeyInv
<1> SUFFICES ASSUME Init  PROVE KeyInv
  OBVIOUS
<1> USE DEF Init, StreamInit
<1>1. KeyedByEntries /\ OneEntryPerKey
  BY DEF KeyedByEntries, OneEntryPerKey
<1>2. KeysRemembered
  BY DEF KeysRemembered
<1>3. QED
  BY <1>1, <1>2 DEF KeyInv

(* A new entry under a free key: the key leads to nothing else, neither    *)
(* through publication_idempotency nor through a tombstone.                *)
LEMMA AppendKeepsKeys ==
  ASSUME StreamInv, KeyInv, NEW s \in Scopes, NEW p,
         p.seq = NextSequence(s), AppendEntry(s, p),
         KeyFree(s, p.topic, p.actor, p.key),
         UNCHANGED <<tomb, pruned>>
  PROVE  KeyInv'
<1> DEFINE row == RowOf(p)
           new == IF p.key = NoKey THEN {} ELSE {row}
<1>1. /\ next[s] \in Nat \ {0}
      /\ p.seq = next[s]
      /\ next' = [next EXCEPT ![s] = next[s] + 1]
      /\ pubs' = [pubs EXCEPT ![s] = pubs[s] \cup {p}]
      /\ idem' = [idem EXCEPT ![s] = idem[s] \cup new]
      /\ keyed' = [keyed EXCEPT ![s] = keyed[s] \cup new]
  BY DEF AppendEntry, NextSequence, StreamInv, StreamTypeOK, RowOf
<1>2. /\ row.topic = p.topic /\ row.actor = p.actor /\ row.key = p.key
      /\ row.entry = next[s]
  BY <1>1 DEF RowOf
<1>3. \A x \in new : x = row /\ p.key # NoKey
  OBVIOUS
<1>4. p.key # NoKey => row \in new
  OBVIOUS
<1> HIDE DEF row, new
<1>5. ASSUME NEW r \in Scopes, r # s
      PROVE  /\ next'[r] = next[r] /\ pubs'[r] = pubs[r]
             /\ idem'[r] = idem[r] /\ keyed'[r] = keyed[r]
  BY <1>1, <1>5 DEF StreamInv, StreamTypeOK
<1>6. /\ next'[s] = next[s] + 1 /\ pubs'[s] = pubs[s] \cup {p}
      /\ idem'[s] = idem[s] \cup new /\ keyed'[s] = keyed[s] \cup new
  BY <1>1 DEF StreamInv, StreamTypeOK
<1>7. /\ \A x \in keyed[s] : x.entry \in 1 .. next[s] - 1
      /\ \A x \in pubs[s] : x.seq \in 1 .. next[s] - 1
      /\ pruned[s] \subseteq 1 .. next[s] - 1
  BY DEF KeyInv, KeyedByEntries, StreamInv, PositionsAccounted, Retained,
         HighWater
<1>8. /\ \A x \in keyed[s] : x.entry # next[s]
      /\ \A x \in pubs[s] : x.seq # next[s]
      /\ next[s] \notin pruned[s]
  BY <1>1, <1>7
<1>9. ASSUME NEW x \in keyed[s], x.topic = p.topic, x.actor = p.actor, x.key = p.key
      PROVE  FALSE
  <2>1. x.entry \in Retained(s) \/ x.entry \in pruned[s]
    BY DEF KeyInv, KeyedByEntries, StreamInv, PositionsAccounted
  <2>2. CASE x.entry \in Retained(s)
    <3>1. x \in idem[s]
      BY <2>2 DEF KeyInv, KeysRemembered
    <3>2. QED
      BY <1>9, <3>1 DEF KeyFree
  <2>3. CASE x.entry \in pruned[s]
    <3>1. [topic |-> x.topic, actor |-> x.actor, key |-> x.key] \in tomb[s]
      BY <2>3 DEF KeyInv, KeysRemembered
    <3>2. QED
      BY <1>9, <3>1 DEF KeyFree
  <2>4. QED
    BY <2>1, <2>2, <2>3
<1>10. KeyedByEntries'
  <2> SUFFICES ASSUME NEW r \in Scopes
               PROVE  /\ \A x \in keyed'[r] : x.entry \in 1 .. HighWater(r)'
                      /\ \A y \in pubs'[r] :
                            /\ y.key # NoKey => RowOf(y) \in keyed'[r]
                            /\ \A x \in keyed'[r] :
                                  x.entry = y.seq => y.key # NoKey /\ x = RowOf(y)
    BY DEF KeyedByEntries
  <2>1. /\ \A x \in keyed[r] : x.entry \in 1 .. HighWater(r)
        /\ \A y \in pubs[r] :
              /\ y.key # NoKey => RowOf(y) \in keyed[r]
              /\ \A x \in keyed[r] :
                    x.entry = y.seq => y.key # NoKey /\ x = RowOf(y)
    BY DEF KeyInv, KeyedByEntries
  <2>2. CASE r # s
    BY <1>5, <2>1, <2>2 DEF HighWater
  <2>3. CASE r = s
    <3>1. HighWater(r)' = next[s]
      BY <1>1, <1>6, <2>3 DEF HighWater
    <3>2. \A x \in keyed'[r] : x.entry \in 1 .. HighWater(r)'
      BY <1>1, <1>2, <1>3, <1>6, <1>7, <2>3, <3>1
    <3>3. ASSUME NEW y \in pubs'[r]
          PROVE  /\ y.key # NoKey => RowOf(y) \in keyed'[r]
                 /\ \A x \in keyed'[r] :
                       x.entry = y.seq => y.key # NoKey /\ x = RowOf(y)
      <4>1. CASE y = p
        BY <1>1, <1>3, <1>4, <1>6, <1>8, <2>3, <4>1 DEF row
      <4>2. CASE y \in pubs[r]
        BY <1>2, <1>3, <1>6, <1>8, <2>1, <2>3, <4>2
      <4>3. QED
        BY <1>6, <2>3, <4>1, <4>2
    <3>4. QED
      BY <3>2, <3>3
  <2>4. QED
    BY <2>2, <2>3
<1>11. OneEntryPerKey'
  <2> SUFFICES ASSUME NEW r \in Scopes, NEW x \in keyed'[r], NEW y \in keyed'[r],
                      x.topic = y.topic, x.actor = y.actor, x.key = y.key
               PROVE  x.entry = y.entry
    BY DEF OneEntryPerKey
  <2>1. CASE r # s
    BY <1>5, <2>1 DEF KeyInv, OneEntryPerKey
  <2>2. CASE r = s
    <3>1. CASE x \in keyed[s] /\ y \in keyed[s]
      BY <3>1 DEF KeyInv, OneEntryPerKey
    <3>2. CASE x \in new \/ y \in new
      BY <1>2, <1>3, <1>6, <1>9, <2>2, <3>2
    <3>3. QED
      BY <1>6, <2>2, <3>1, <3>2
  <2>3. QED
    BY <2>1, <2>2
<1>12. KeysRemembered'
  <2> SUFFICES ASSUME NEW r \in Scopes
               PROVE  /\ idem'[r] = {x \in keyed'[r] : x.entry \in Retained(r)'}
                      /\ tomb'[r] =
                           {[topic |-> x.topic, actor |-> x.actor, key |-> x.key] :
                              x \in {y \in keyed'[r] : y.entry \in pruned'[r]}}
    BY DEF KeysRemembered
  <2>1. /\ idem[r] = {x \in keyed[r] : x.entry \in Retained(r)}
        /\ tomb[r] = {[topic |-> x.topic, actor |-> x.actor, key |-> x.key] :
                        x \in {y \in keyed[r] : y.entry \in pruned[r]}}
    BY DEF KeyInv, KeysRemembered
  <2>2. CASE r # s
    BY <1>5, <2>1, <2>2 DEF Retained
  <2>3. CASE r = s
    <3>1. Retained(r)' = Retained(r) \cup {next[s]}
      BY <1>1, <1>6, <2>3 DEF Retained
    <3>2. idem'[r] = {x \in keyed'[r] : x.entry \in Retained(r)'}
      BY <1>2, <1>3, <1>6, <1>8, <2>1, <2>3, <3>1
    <3>3. {y \in keyed'[r] : y.entry \in pruned'[r]}
            = {y \in keyed[r] : y.entry \in pruned[r]}
      BY <1>2, <1>3, <1>6, <1>8, <2>3
    <3>4. QED
      BY <2>1, <3>2, <3>3
  <2>4. QED
    BY <2>2, <2>3
<1>13. QED
  BY <1>10, <1>11, <1>12 DEF KeyInv

(* A prune turns the rows of the entries it takes into tombstones. *)
LEMMA PruneKeepsKeys ==
  ASSUME StreamInv, KeyInv, NEW o \in Operators, NEW now \in Instants,
         CommitPrune(o, now)
  PROVE  KeyInv'
<1> DEFINE gone(s) == Batch(s, plan[o].cutoff)
<1>1. ASSUME NEW s \in Scopes
      PROVE  /\ gone(s) \subseteq pubs[s]
             /\ pubs'[s] = pubs[s] \ gone(s)
             /\ idem'[s] = {x \in idem[s] : ~ \E p \in gone(s) : p.seq = x.entry}
             /\ tomb'[s] = tomb[s] \cup Tombstones(gone(s))
             /\ pruned'[s] = pruned[s] \cup {p.seq : p \in gone(s)}
             /\ next' = next /\ keyed' = keyed
  BY BatchIsRetained DEF CommitPrune
<1> HIDE DEF gone
<1>2. KeyedByEntries'
  BY <1>1 DEF KeyInv, KeyedByEntries, HighWater
<1>3. OneEntryPerKey'
  BY <1>1 DEF KeyInv, OneEntryPerKey
<1>4. KeysRemembered'
  <2> SUFFICES ASSUME NEW s \in Scopes
               PROVE  /\ idem'[s] = {x \in keyed'[s] : x.entry \in Retained(s)'}
                      /\ tomb'[s] =
                           {[topic |-> x.topic, actor |-> x.actor, key |-> x.key] :
                              x \in {y \in keyed'[s] : y.entry \in pruned'[s]}}
    BY DEF KeysRemembered
  <2>1. /\ idem[s] = {x \in keyed[s] : x.entry \in Retained(s)}
        /\ tomb[s] = {[topic |-> x.topic, actor |-> x.actor, key |-> x.key] :
                        x \in {y \in keyed[s] : y.entry \in pruned[s]}}
    BY DEF KeyInv, KeysRemembered
  <2>2. \A x, y \in pubs[s] : x.seq = y.seq => x = y
    BY DEF StreamInv, PositionsAccounted
  <2>3. \A e : e \in Retained(s)' <=>
                 e \in Retained(s) /\ ~ \E p \in gone(s) : p.seq = e
    BY <1>1, <2>2 DEF Retained
  <2>4. idem'[s] = {x \in keyed'[s] : x.entry \in Retained(s)'}
    BY <1>1, <2>1, <2>3
  <2>5. \A p \in gone(s) :
           /\ p.key # NoKey => RowOf(p) \in keyed[s]
           /\ \A x \in keyed[s] : x.entry = p.seq => p.key # NoKey /\ x = RowOf(p)
    BY <1>1 DEF KeyInv, KeyedByEntries
  <2>6. ASSUME NEW k
        PROVE  k \in Tombstones(gone(s)) <=>
                 \E x \in keyed[s] :
                    /\ \E p \in gone(s) : x.entry = p.seq
                    /\ k = [topic |-> x.topic, actor |-> x.actor, key |-> x.key]
    <3>1. ASSUME NEW p \in gone(s), p.key # NoKey, k = KeyOf(p)
          PROVE  \E x \in keyed[s] :
                    /\ x.entry = p.seq
                    /\ k = [topic |-> x.topic, actor |-> x.actor, key |-> x.key]
      BY <2>5, <3>1 DEF RowOf, KeyOf
    <3>2. ASSUME NEW x \in keyed[s], NEW p \in gone(s), x.entry = p.seq,
                 k = [topic |-> x.topic, actor |-> x.actor, key |-> x.key]
          PROVE  p.key # NoKey /\ k = KeyOf(p)
      <4>1. p.key # NoKey /\ x = RowOf(p)
        BY <2>5, <3>2
      <4>2. x.topic = p.topic /\ x.actor = p.actor /\ x.key = p.key
        BY <4>1 DEF RowOf
      <4>3. QED
        BY <3>2, <4>1, <4>2 DEF KeyOf
    <3>3. k \in Tombstones(gone(s)) <=> \E p \in gone(s) : p.key # NoKey /\ k = KeyOf(p)
      BY DEF Tombstones, KeyOf
    <3>4. QED
      BY <3>1, <3>2, <3>3
  <2>7. \A x \in keyed[s] : x.entry \in pruned'[s] <=>
                              \/ x.entry \in pruned[s]
                              \/ \E p \in gone(s) : x.entry = p.seq
    BY <1>1
  <2>8. QED
    BY <1>1, <2>1, <2>4, <2>6, <2>7
<1>5. QED
  BY <1>2, <1>3, <1>4 DEF KeyInv

(* Steps that leave positions and keys alone. *)
LEMMA OthersKeepKeys ==
  ASSUME KeyInv, UNCHANGED <<next, pubs, idem, tomb, pruned, keyed>>
  PROVE  KeyInv'
<1>1. KeyedByEntries' /\ OneEntryPerKey'
  BY DEF KeyInv, KeyedByEntries, OneEntryPerKey, HighWater
<1>2. KeysRemembered'
  BY DEF KeyInv, KeysRemembered, Retained
<1>3. QED
  BY <1>1, <1>2 DEF KeyInv

(* The inductive step for keys: publishing, pruning, and the rest. *)
LEMMA NextKeepsKeys == StreamInv /\ KeyInv /\ [Next]_vars => KeyInv'
<1> SUFFICES ASSUME StreamInv, KeyInv, [Next]_vars  PROVE KeyInv'
  OBVIOUS
<1>1. CASE Publish
  <2>1. PICK a \in Actors, t \in Topics, k \in Keys \cup {NoKey},
             deadline \in Expiries, now \in Instants :
          \/ PostMessage(a, t, k, deadline, now)
          \/ \E h \in heads[ScopeOf[t]], change \in BOOLEAN :
                ReviseMessage(a, t, h, h.rev, k, change, deadline, now)
          \/ \E e \in EventTypes, c \in {0} \cup Retained(ScopeOf[t]) :
                PublishEvent(a, t, e, k, c, deadline, now)
    BY <1>1 DEF Publish
  <2>2. ScopeOf[t] \in Scopes
    BY ScopesAssumption
  <2>3. PICK p :
          /\ p.seq = NextSequence(ScopeOf[t])
          /\ p.topic = t /\ p.actor = a /\ p.key = k
          /\ AppendEntry(ScopeOf[t], p)
          /\ KeyFree(ScopeOf[t], t, a, k)
          /\ UNCHANGED <<tomb, pruned>>
    <3>1. CASE PostMessage(a, t, k, deadline, now)
      BY <3>1 DEF PostMessage
    <3>2. CASE \E h \in heads[ScopeOf[t]], change \in BOOLEAN :
                  ReviseMessage(a, t, h, h.rev, k, change, deadline, now)
      BY <3>2 DEF ReviseMessage
    <3>3. CASE \E e \in EventTypes, c \in {0} \cup Retained(ScopeOf[t]) :
                  PublishEvent(a, t, e, k, c, deadline, now)
      BY <3>3 DEF PublishEvent
    <3>4. QED
      BY <2>1, <3>1, <3>2, <3>3
  <2>4. QED
    BY <2>2, <2>3, AppendKeepsKeys
<1>2. CASE Retain
  <2>1. PICK o \in Operators :
          \/ \E cutoff \in Cutoffs, now \in Instants : PlanPrune(o, cutoff, now)
          \/ \E now \in Instants : CommitPrune(o, now)
          \/ PruneFails(o)
    BY <1>2 DEF Retain
  <2>2. CASE \E now \in Instants : CommitPrune(o, now)
    BY <2>2, PruneKeepsKeys
  <2>3. CASE \/ \E cutoff \in Cutoffs, now \in Instants : PlanPrune(o, cutoff, now)
             \/ PruneFails(o)
    BY <2>3, OthersKeepKeys DEF PlanPrune, PruneFails, tables
  <2>4. QED
    BY <2>1, <2>2, <2>3
<1>3. CASE Curate
  BY <1>3, OthersKeepKeys DEF Curate, PinMessage, VoteMessage
<1>4. CASE UNCHANGED streamVars
  BY <1>4, OthersKeepKeys DEF streamVars
<1>5. QED
  BY <1>1, <1>2, <1>3, <1>4 DEF Next, StreamNext, vars

(* The key invariant holds in every reachable state. *)
LEMMA KeyInvHolds == Spec => []KeyInv
<1>1. Spec => []StreamInv
  BY InvHolds
<1>2. Init => KeyInv
  BY InitEstablishesKeys
<1>3. StreamInv /\ KeyInv /\ [Next]_vars => KeyInv'
  BY NextKeepsKeys
<1>4. QED
  BY <1>1, <1>2, <1>3, PTL DEF Spec

(* A retry never publishes twice: whatever is pruned in between, a topic,  *)
(* actor and key lead to one entry at most (replayMessage, message.go:247; *)
(* PublishEvent, event.go:589).                                            *)
THEOREM RetriesPublishOnce == Spec => []OneEntryPerKey
<1>1. KeyInv => OneEntryPerKey
  BY DEF KeyInv
<1>2. QED
  BY <1>1, KeyInvHolds, PTL

(* A key leads to its entry while that is retained and to a tombstone once *)
(* it is pruned, never to neither (PruneHub, retention.go:132).            *)
THEOREM KeysAreRemembered == Spec => []KeysRemembered
<1>1. KeyInv => KeysRemembered
  BY DEF KeyInv
<1>2. QED
  BY <1>1, KeyInvHolds, PTL

-----------------------------------------------------------------------------
(* Nothing dangles. *)

(* Events related by corrections are in the same chains. *)
LEMMA CorrectedInChain ==
  ASSUME NEW s \in Scopes, NEW x, NEW p \in Events(s), NEW q \in Events(s),
         p.of = q.seq
  PROVE  p \in Chain(s, x) <=> q \in Chain(s, x)
<1>1. \A C \in SUBSET Events(s) :
         ClosedUnderCorrection(s, C) => (p \in C <=> q \in C)
  BY DEF ClosedUnderCorrection
<1>2. QED
  BY <1>1 DEF Chain

(* A batch that takes a corrected event takes its correction. *)
LEMMA CorrectionTaken ==
  ASSUME NEW s \in Scopes, NEW cutoff, NEW p \in Events(s), NEW q \in Events(s),
         p.of = q.seq, q \in Batch(s, cutoff)
  PROVE  p \in Batch(s, cutoff)
<1>1. PICK G \in Groups(s, cutoff) : q \in G /\ G \subseteq Batch(s, cutoff)
  BY DEF Batch
<1>2. PICK x : G = Chain(s, x)
  BY <1>1 DEF Groups, OldMessages, OldRevisions, OldChains, Revisions, Messages,
              Events
<1>3. QED
  BY <1>1, <1>2, CorrectedInChain

(* Nothing refers to anything at first. *)
LEMMA InitHasNoOrphans == Init => NoOrphans
  BY DEF Init, StreamInit, NoOrphans, Events

(* The inductive step for references: one case per action. *)
LEMMA NextKeepsNoOrphans ==
  StreamInv /\ NoOrphans /\ [Next]_vars => NoOrphans'
<1> SUFFICES ASSUME StreamInv, NoOrphans, [Next]_vars  PROVE NoOrphans'
  OBVIOUS
<1> DEFINE Belongs(s, x) == \E p \in Revisions(s, x.msg) : p.rev = x.rev
           Based(s, p) == \E q \in Events(s) :
                            q.seq = p.of /\ q.topic = p.topic /\ q.seq < p.seq
<1>1. ASSUME NEW s \in Scopes
      PROVE  /\ \A x \in votes[s] \cup pinAudit[s] : Belongs(s, x)
             /\ \A p \in Events(s) : p.of # 0 => Based(s, p)
  BY DEF NoOrphans
<1>2. SUFFICES ASSUME NEW s \in Scopes
               PROVE  /\ \A x \in votes'[s] \cup pinAudit'[s] :
                            \E p \in Revisions(s, x.msg)' : p.rev = x.rev
                      /\ \A p \in Events(s)' :
                            p.of # 0 => \E q \in Events(s)' :
                              q.seq = p.of /\ q.topic = p.topic /\ q.seq < p.seq
  BY DEF NoOrphans
<1>3. ASSUME NEW p, pubs'[s] = pubs[s] \/ pubs'[s] = pubs[s] \cup {p},
             p.kind = "event" /\ p.of # 0 => Based(s, p),
             UNCHANGED <<votes, pinAudit>>
      PROVE  /\ \A x \in votes'[s] \cup pinAudit'[s] :
                   \E y \in Revisions(s, x.msg)' : y.rev = x.rev
             /\ \A y \in Events(s)' :
                   y.of # 0 => \E q \in Events(s)' :
                     q.seq = y.of /\ q.topic = y.topic /\ q.seq < y.seq
  BY <1>1, <1>3 DEF Revisions, Messages, Events
<1>4. CASE Publish
  <2>1. PICK a \in Actors, t \in Topics, k \in Keys \cup {NoKey},
             deadline \in Expiries, now \in Instants :
          \/ PostMessage(a, t, k, deadline, now)
          \/ \E h \in heads[ScopeOf[t]], change \in BOOLEAN :
                ReviseMessage(a, t, h, h.rev, k, change, deadline, now)
          \/ \E e \in EventTypes, c \in {0} \cup Retained(ScopeOf[t]) :
                PublishEvent(a, t, e, k, c, deadline, now)
    BY <1>4 DEF Publish
  <2>2. ScopeOf[t] \in Scopes
    BY ScopesAssumption
  <2>3. PICK p :
          /\ AppendEntry(ScopeOf[t], p)
          /\ p.kind = "event" /\ p.of # 0 => Based(ScopeOf[t], p)
          /\ UNCHANGED <<votes, pinAudit>>
    <3>1. CASE PostMessage(a, t, k, deadline, now)
      BY <3>1 DEF PostMessage
    <3>2. CASE \E h \in heads[ScopeOf[t]], change \in BOOLEAN :
                  ReviseMessage(a, t, h, h.rev, k, change, deadline, now)
      BY <3>2 DEF ReviseMessage
    <3>3. ASSUME NEW e \in EventTypes, NEW c \in {0} \cup Retained(ScopeOf[t]),
                 PublishEvent(a, t, e, k, c, deadline, now)
          PROVE  \E p : /\ AppendEntry(ScopeOf[t], p)
                        /\ p.kind = "event" /\ p.of # 0 => Based(ScopeOf[t], p)
                        /\ UNCHANGED <<votes, pinAudit>>
      <4> DEFINE p == [topic |-> t, seq |-> NextSequence(ScopeOf[t]), actor |-> a,
                       kind |-> "event", at |-> now, expires |-> deadline,
                       key |-> k, type |-> e, of |-> c, rev |-> 0]
      <4>1. AppendEntry(ScopeOf[t], p) /\ UNCHANGED <<votes, pinAudit>>
        BY <3>3 DEF PublishEvent
      <4>2. p.of = c /\ p.topic = t /\ p.seq = next[ScopeOf[t]]
        BY DEF NextSequence
      <4>3. \A q \in pubs[ScopeOf[t]] : q.seq < next[ScopeOf[t]]
        <5>1. next[ScopeOf[t]] \in Nat \ {0}
          BY <2>2 DEF StreamInv, StreamTypeOK
        <5>2. \A q \in pubs[ScopeOf[t]] : q.seq \in 1 .. next[ScopeOf[t]] - 1
          BY <2>2 DEF StreamInv, PositionsAccounted, Retained, HighWater
        <5>3. QED
          BY <5>1, <5>2
      <4>4. c = 0 \/ \E q \in Events(ScopeOf[t]) : q.seq = c /\ q.topic = t
        BY <3>3 DEF PublishEvent
      <4> HIDE DEF p
      <4>5. p.of # 0 => Based(ScopeOf[t], p)
        BY <4>2, <4>3, <4>4 DEF Events
      <4>6. QED
        BY <4>1, <4>5
    <3>4. QED
      BY <2>1, <3>1, <3>2, <3>3
  <2>4. pubs'[s] = pubs[s] \/ (s = ScopeOf[t] /\ pubs'[s] = pubs[s] \cup {p})
    BY <2>2, <2>3 DEF AppendEntry, StreamInv, StreamTypeOK
  <2>5. CASE pubs'[s] = pubs[s]
    BY <2>3, <2>5, <1>1 DEF Revisions, Messages, Events
  <2>6. CASE s = ScopeOf[t] /\ pubs'[s] = pubs[s] \cup {p}
    BY <2>3, <2>6, <1>3
  <2>7. QED
    BY <2>4, <2>5, <2>6
<1>5. CASE Curate
  <2>1. PICK a \in Actors, t \in Topics, now \in Instants :
          \E h \in heads[ScopeOf[t]] :
             \/ \E pin \in BOOLEAN :
                   PinMessage(a, t, topic[t].generation, h, h.rev, pin, now)
             \/ \E value \in VoteValues : VoteMessage(a, t, h, h.rev, value, now)
    BY <1>5 DEF Curate
  <2>2. PICK h \in heads[ScopeOf[t]] :
          \/ \E pin \in BOOLEAN :
                PinMessage(a, t, topic[t].generation, h, h.rev, pin, now)
          \/ \E value \in VoteValues : VoteMessage(a, t, h, h.rev, value, now)
    BY <2>1
  <2>3. UNCHANGED pubs
    BY <2>2 DEF PinMessage, VoteMessage
  <2>4. ASSUME NEW x \in votes'[s] \cup pinAudit'[s]
        PROVE  \/ x \in votes[s] \cup pinAudit[s]
               \/ s = ScopeOf[t] /\ x.msg = h.msg /\ x.rev = h.rev
    <3>1. ASSUME NEW pin \in BOOLEAN,
                 PinMessage(a, t, topic[t].generation, h, h.rev, pin, now)
          PROVE  \/ x \in votes[s] \cup pinAudit[s]
                 \/ s = ScopeOf[t] /\ x.msg = h.msg /\ x.rev = h.rev
      BY <3>1 DEF PinMessage, StreamInv, StreamTypeOK
    <3>2. ASSUME NEW value \in VoteValues,
                 VoteMessage(a, t, h, h.rev, value, now)
          PROVE  \/ x \in votes[s] \cup pinAudit[s]
                 \/ s = ScopeOf[t] /\ x.msg = h.msg /\ x.rev = h.rev
      BY <3>2 DEF VoteMessage, CastVote, StreamInv, StreamTypeOK
    <3>3. QED
      BY <2>2, <3>1, <3>2
  <2>5. s = ScopeOf[t] => Belongs(s, h)
    BY DEF StreamInv, HeadsCoherent
  <2>6. QED
    BY <1>1, <2>3, <2>4, <2>5 DEF Revisions, Messages, Events
<1>6. CASE Retain
  <2>1. PICK o \in Operators :
          \/ \E cutoff \in Cutoffs, now \in Instants : PlanPrune(o, cutoff, now)
          \/ \E now \in Instants : CommitPrune(o, now)
          \/ PruneFails(o)
    BY <1>6 DEF Retain
  <2>2. ASSUME NEW now \in Instants, CommitPrune(o, now)
        PROVE  /\ \A x \in votes'[s] \cup pinAudit'[s] :
                     \E p \in Revisions(s, x.msg)' : p.rev = x.rev
               /\ \A p \in Events(s)' :
                     p.of # 0 => \E q \in Events(s)' :
                       q.seq = p.of /\ q.topic = p.topic /\ q.seq < p.seq
    <3> DEFINE gone == Batch(s, plan[o].cutoff)
    <3>1. /\ pubs'[s] = pubs[s] \ gone
          /\ \A x \in votes'[s] \cup pinAudit'[s] :
                /\ x \in votes[s] \cup pinAudit[s]
                /\ ~ \E p \in gone : /\ p.kind = "message" /\ p.of = x.msg
                                     /\ p.rev = x.rev
      BY <2>2 DEF CommitPrune
    <3>2. \A p, q \in Events(s) : p.of = q.seq /\ q \in gone => p \in gone
      BY CorrectionTaken
    <3> HIDE DEF gone
    <3>3. QED
      BY <1>1, <3>1, <3>2 DEF Revisions, Messages, Events
  <2>3. CASE \/ \E cutoff \in Cutoffs, now \in Instants : PlanPrune(o, cutoff, now)
             \/ PruneFails(o)
    <3>1. UNCHANGED <<pubs, votes, pinAudit>>
      BY <2>3 DEF PlanPrune, PruneFails, tables
    <3>2. QED
      BY <1>1, <3>1 DEF Revisions, Messages, Events
  <2>4. QED
    BY <2>1, <2>2, <2>3
<1>7. CASE UNCHANGED streamVars
  BY <1>1, <1>7 DEF streamVars, Revisions, Messages, Events
<1>8. QED
  BY <1>4, <1>5, <1>6, <1>7 DEF Next, StreamNext, vars

(* Nothing a prune leaves refers to something it took, however long the    *)
(* chains of corrections are (pruneCandidates, retention.go:243).          *)
THEOREM NothingDangles == Spec => []NoOrphans
<1>1. Spec => []StreamInv
  BY InvHolds
<1>2. Init => NoOrphans
  BY InitHasNoOrphans
<1>3. StreamInv /\ NoOrphans /\ [Next]_vars => NoOrphans'
  BY NextKeepsNoOrphans
<1>4. QED
  BY <1>1, <1>2, <1>3, PTL DEF Spec

-----------------------------------------------------------------------------
(* The stream implements the feed promised to readers. *)

(* An entry that is appended is published at the next position. *)
LEMMA AppendPublishes ==
  ASSUME StreamInv, NEW s \in Scopes, NEW p,
         p.seq = NextSequence(s), AppendEntry(s, p), UNCHANGED pruned
  PROVE  Feed!Publish(s)
<1>1. /\ next[s] \in Nat
      /\ p.seq = next[s]
      /\ next' = [next EXCEPT ![s] = next[s] + 1]
      /\ pubs' = [pubs EXCEPT ![s] = pubs[s] \cup {p}]
      /\ next \in [Scopes -> Nat \ {0}] /\ DOMAIN pubs = Scopes
  BY DEF StreamInv, StreamTypeOK, NextSequence, AppendEntry
<1>2. /\ next'[s] = next[s] + 1
      /\ \A r \in Scopes : r # s => next'[r] = next[r]
      /\ pubs'[s] = pubs[s] \cup {p}
      /\ \A r \in Scopes : r # s => pubs'[r] = pubs[r]
  BY <1>1
<1>3. [r \in Scopes |-> HighWater(r)]'
        = [[r \in Scopes |-> HighWater(r)] EXCEPT ![s] = HighWater(s) + 1]
  <2>1. HighWater(s)' = HighWater(s) + 1
    BY <1>1, <1>2 DEF HighWater
  <2>2. \A r \in Scopes : r # s => HighWater(r)' = HighWater(r)
    BY <1>2 DEF HighWater
  <2>3. QED
    BY <2>1, <2>2
<1>4. [r \in Scopes |-> HighWater(r)]'[s] = next[s]
  BY <1>1, <1>2 DEF HighWater
<1>5. Retained(s)' = Retained(s) \cup {next[s]}
  BY <1>1, <1>2 DEF Retained
<1>6. \A r \in Scopes : r # s => Retained(r)' = Retained(r)
  BY <1>2 DEF Retained
<1>7. [r \in Scopes |-> Retained(r)]'
        = [[r \in Scopes |-> Retained(r)] EXCEPT ![s] = Retained(s) \cup {next[s]}]
  BY <1>5, <1>6
<1>8. QED
  BY <1>3, <1>4, <1>7 DEF Feed!Publish

(* A step that leaves the counters, the entries and the ranges alone does   *)
(* nothing to the feed.                                                     *)
LEMMA OthersKeepFeed ==
  ASSUME UNCHANGED <<next, pubs, pruned>>
  PROVE  UNCHANGED Feed!vars
  BY DEF Feed!vars, HighWater, Retained

(* The entries a prune takes are exactly the positions it records. *)
LEMMA CommitPrunes ==
  ASSUME StreamInv, NEW o \in Operators, NEW now \in Instants, CommitPrune(o, now)
  PROVE  Feed!Prune
<1> DEFINE gone(s) == Batch(s, plan[o].cutoff)
<1>1. ASSUME NEW s \in Scopes
      PROVE  /\ gone(s) \subseteq pubs[s]
             /\ pubs'[s] = pubs[s] \ gone(s)
             /\ pruned'[s] = pruned[s] \cup {p.seq : p \in gone(s)}
             /\ next' = next
  BY BatchIsRetained DEF CommitPrune
<1>2. \A s \in Scopes : \A p, q \in pubs[s] : p.seq = q.seq => p = q
  BY DEF StreamInv, PositionsAccounted
<1> HIDE DEF gone
<1>3. ASSUME NEW s \in Scopes
      PROVE  /\ Retained(s)' = Retained(s) \ {p.seq : p \in gone(s)}
             /\ {p.seq : p \in gone(s)} \subseteq Retained(s)
  BY <1>1, <1>2 DEF Retained
<1>4. [s \in Scopes |-> HighWater(s)]' = [s \in Scopes |-> HighWater(s)]
  <2>1. next' = next
    BY DEF CommitPrune
  <2>2. QED
    BY <2>1 DEF HighWater
<1>5. ASSUME NEW s \in Scopes
      PROVE  /\ Retained(s)' = Retained(s) \cap Retained(s)'
             /\ pruned'[s] = pruned[s] \cup (Retained(s) \ Retained(s)')
  BY <1>1, <1>3
<1>6. pruned' = [s \in Scopes |-> pruned'[s]]
  BY DEF CommitPrune
<1>7. QED
  BY <1>4, <1>5, <1>6 DEF Feed!Prune

(* Readers of the hub can rely on the feed: positions are issued one by one *)
(* and never again, and leave the readable entries only into the record of  *)
(* what was pruned (AppendEntry: message.go:288, event.go:646; PruneHub:    *)
(* retention.go:178-216).                                                   *)
THEOREM StreamImplementsFeed == Spec => ImplementsFeed
<1>1. Init => Feed!Init
  BY DEF Init, StreamInit, Feed!Init, HighWater, Retained
<1>2. StreamInv /\ [Next]_vars => [Feed!Next]_(Feed!vars)
  <2> SUFFICES ASSUME StreamInv, [Next]_vars  PROVE [Feed!Next]_(Feed!vars)
    OBVIOUS
  <2>1. CASE Publish
    <3>1. PICK a \in Actors, t \in Topics, k \in Keys \cup {NoKey},
               deadline \in Expiries, now \in Instants :
            \/ PostMessage(a, t, k, deadline, now)
            \/ \E h \in heads[ScopeOf[t]], change \in BOOLEAN :
                  ReviseMessage(a, t, h, h.rev, k, change, deadline, now)
            \/ \E e \in EventTypes, c \in {0} \cup Retained(ScopeOf[t]) :
                  PublishEvent(a, t, e, k, c, deadline, now)
      BY <2>1 DEF Publish
    <3>2. ScopeOf[t] \in Scopes
      BY ScopesAssumption
    <3>3. \E p : /\ p.seq = NextSequence(ScopeOf[t])
                 /\ AppendEntry(ScopeOf[t], p)
                 /\ UNCHANGED pruned
      BY <3>1, Zenon DEF PostMessage, ReviseMessage, PublishEvent
    <3>4. QED
      BY <3>2, <3>3, AppendPublishes DEF Feed!Next
  <2>2. CASE Retain
    <3>1. PICK o \in Operators :
            \/ \E cutoff \in Cutoffs, now \in Instants : PlanPrune(o, cutoff, now)
            \/ \E now \in Instants : CommitPrune(o, now)
            \/ PruneFails(o)
      BY <2>2 DEF Retain
    <3>2. CASE \E now \in Instants : CommitPrune(o, now)
      BY <3>2, CommitPrunes DEF Feed!Next
    <3>3. CASE ~ \E now \in Instants : CommitPrune(o, now)
      BY <3>1, <3>3, OthersKeepFeed DEF PlanPrune, PruneFails, tables
    <3>4. QED
      BY <3>2, <3>3
  <2>3. CASE Curate
    BY <2>3, OthersKeepFeed DEF Curate, PinMessage, VoteMessage
  <2>4. CASE UNCHANGED streamVars
    BY <2>4, OthersKeepFeed DEF streamVars
  <2>5. QED
    BY <2>1, <2>2, <2>3, <2>4 DEF Next, StreamNext, vars
<1>3. QED
  BY <1>1, <1>2, InvHolds, PTL DEF Spec, ImplementsFeed, Feed!Spec

-----------------------------------------------------------------------------
(* What a step may never do. *)

(* A step that is not the commit of a prune adds an entry with the next     *)
(* number or leaves the entries alone, and leaves history alone.            *)
LEMMA OnlyPrunesRemove ==
  ASSUME StreamInv, [Next]_vars,
         ~ \E o \in Operators, now \in Instants : CommitPrune(o, now)
  PROVE  /\ UNCHANGED <<pruned, tomb, low, epoch>>
         /\ \A s \in Scopes :
              /\ next'[s] >= next[s]
              /\ pubs[s] \subseteq pubs'[s]
              /\ \A p \in pubs'[s] \ pubs[s] : p.seq >= next[s]
<1> DEFINE Grows ==
             /\ UNCHANGED <<pruned, tomb, low, epoch>>
             /\ \A s \in Scopes :
                  /\ next'[s] >= next[s]
                  /\ pubs[s] \subseteq pubs'[s]
                  /\ \A p \in pubs'[s] \ pubs[s] : p.seq >= next[s]
<1>1. next \in [Scopes -> Nat \ {0}] /\ DOMAIN pubs = Scopes
  BY DEF StreamInv, StreamTypeOK
<1>2. ASSUME UNCHANGED <<next, pubs, pruned, tomb, low, epoch>>  PROVE Grows
  BY <1>1, <1>2
<1>3. ASSUME NEW r \in Scopes, NEW p, p.seq = NextSequence(r), AppendEntry(r, p),
             UNCHANGED <<pruned, tomb, low, epoch>>
      PROVE  Grows
  <2>1. /\ p.seq = next[r]
        /\ next' = [next EXCEPT ![r] = next[r] + 1]
        /\ pubs' = [pubs EXCEPT ![r] = pubs[r] \cup {p}]
    BY <1>3 DEF AppendEntry, NextSequence
  <2>2. /\ next'[r] = next[r] + 1
        /\ \A s \in Scopes : s # r => next'[s] = next[s]
        /\ pubs'[r] = pubs[r] \cup {p}
        /\ \A s \in Scopes : s # r => pubs'[s] = pubs[s]
    BY <1>1, <2>1
  <2>3. \A s \in Scopes : next[s] \in Nat
    BY <1>1
  <2>4. QED
    BY <1>3, <2>1, <2>2, <2>3
<1>4. CASE Publish
  <2>1. PICK a \in Actors, t \in Topics, k \in Keys \cup {NoKey},
             deadline \in Expiries, now \in Instants :
          \/ PostMessage(a, t, k, deadline, now)
          \/ \E h \in heads[ScopeOf[t]], change \in BOOLEAN :
                ReviseMessage(a, t, h, h.rev, k, change, deadline, now)
          \/ \E e \in EventTypes, c \in {0} \cup Retained(ScopeOf[t]) :
                PublishEvent(a, t, e, k, c, deadline, now)
    BY <1>4 DEF Publish
  <2>2. \E p : /\ p.seq = NextSequence(ScopeOf[t])
               /\ AppendEntry(ScopeOf[t], p)
               /\ UNCHANGED <<pruned, tomb, low, epoch>>
    BY <2>1, Zenon DEF PostMessage, ReviseMessage, PublishEvent
  <2>3. QED
    BY <1>3, <2>2, ScopesAssumption
<1>5. CASE Curate
  BY <1>2, <1>5 DEF Curate, PinMessage, VoteMessage
<1>6. CASE Retain
  BY <1>2, <1>6 DEF Retain, PlanPrune, PruneFails, tables
<1>7. CASE UNCHANGED streamVars
  BY <1>2, <1>7 DEF streamVars
<1>8. QED
  BY <1>4, <1>5, <1>6, <1>7 DEF Next, StreamNext, vars

(* What the commit of a prune does to the tables of a scope. *)
LEMMA PruneTakesBatch ==
  ASSUME StreamInv, NEW o \in Operators, NEW now, CommitPrune(o, now),
         NEW s \in Scopes
  PROVE  LET gone == Batch(s, plan[o].cutoff)
             RevGone(m, r) ==
               \E p \in gone : p.kind = "message" /\ p.of = m /\ p.rev = r
         IN  /\ gone \subseteq pubs[s]
             /\ pubs[s] \ pubs'[s] = gone
             /\ pubs'[s] \subseteq pubs[s]
             /\ votes[s] \ votes'[s] = {v \in votes[s] : RevGone(v.msg, v.rev)}
             /\ pinAudit[s] \ pinAudit'[s]
                  = {x \in pinAudit[s] : RevGone(x.msg, x.rev)}
             /\ \A h \in heads[s] \ heads'[s] :
                  \E p \in gone : p.seq = h.entry
             /\ tomb[s] \subseteq tomb'[s]
             /\ pruned[s] \subseteq pruned'[s]
             /\ low'[s] = low[s] \/
                low'[s] = LowWater(s, {p.seq : p \in pubs[s] \ gone})
             /\ next' = next
             /\ epoch' = epoch + 1
<1>1. Batch(s, plan[o].cutoff) \subseteq pubs[s]
  BY BatchIsRetained
<1>2. QED
  BY <1>1 DEF CommitPrune

(* What a step leaves of the past: counters, tombstones and marks, and the   *)
(* entries unless the epoch moves.                                           *)
LEMMA HistoryStep ==
  ASSUME StreamInv, [Next]_vars, NEW s \in Scopes
  PROVE  /\ next'[s] >= next[s]
         /\ \A p \in pubs'[s] \ pubs[s] : p.seq >= next[s]
         /\ pruned[s] \subseteq pruned'[s]
         /\ tomb[s] \subseteq tomb'[s]
         /\ low'[s] >= low[s]
         /\ ~(pubs[s] \subseteq pubs'[s]) => epoch' = epoch + 1
         /\ epoch' \in {epoch, epoch + 1}
<1>1. next[s] \in Nat \ {0} /\ low[s] \in Nat /\ low[s] <= HighWater(s)
  BY DEF StreamInv, StreamTypeOK, PositionsAccounted
<1>2. CASE \E o \in Operators, now \in Instants : CommitPrune(o, now)
  <2>1. PICK o \in Operators, now \in Instants : CommitPrune(o, now)
    BY <1>2
  <2> DEFINE left == {p.seq : p \in pubs[s] \ Batch(s, plan[o].cutoff)}
  <2>2. left \subseteq 1 .. HighWater(s)
    BY DEF StreamInv, PositionsAccounted, Retained
  <2>3. LowWater(s, left) >= low[s]
    BY <1>1, <2>2, LowWaterBounds
  <2>4. /\ pubs'[s] \subseteq pubs[s]
        /\ tomb[s] \subseteq tomb'[s]
        /\ pruned[s] \subseteq pruned'[s]
        /\ low'[s] = low[s] \/ low'[s] = LowWater(s, left)
        /\ next' = next
        /\ epoch' = epoch + 1
    BY <2>1, PruneTakesBatch
  <2> HIDE DEF left
  <2>5. QED
    BY <1>1, <2>3, <2>4
<1>3. CASE ~ \E o \in Operators, now \in Instants : CommitPrune(o, now)
  <2>1. /\ UNCHANGED <<pruned, tomb, low, epoch>>
        /\ next'[s] >= next[s]
        /\ pubs[s] \subseteq pubs'[s]
        /\ \A p \in pubs'[s] \ pubs[s] : p.seq >= next[s]
    BY <1>3, OnlyPrunesRemove
  <2>2. QED
    BY <1>1, <2>1
<1>4. QED
  BY <1>2, <1>3

(* A reader of the past never sees it rewritten: numbers are issued in      *)
(* order, what was pruned is remembered, and entries disappear only with a  *)
(* new epoch (message.go:274, retention.go:178-216).                        *)
THEOREM HistoryGrows == Spec => HistoryOnlyGrows
<1>1. ASSUME StreamInv, [Next]_vars, NEW s \in Scopes
      PROVE  /\ next'[s] >= next[s]
             /\ \A p \in pubs'[s] \ pubs[s] : p.seq >= next[s]
             /\ pruned[s] \subseteq pruned'[s]
             /\ tomb[s] \subseteq tomb'[s]
             /\ low'[s] >= low[s]
             /\ ~(pubs[s] \subseteq pubs'[s]) => epoch' = epoch + 1
  BY <1>1, HistoryStep
<1>2. StreamInv /\ [Next]_vars
        => [\A s \in Scopes :
              /\ next'[s] >= next[s]
              /\ \A p \in pubs'[s] \ pubs[s] : p.seq >= next[s]
              /\ pruned[s] \subseteq pruned'[s]
              /\ tomb[s] \subseteq tomb'[s]
              /\ low'[s] >= low[s]
              /\ ~(pubs[s] \subseteq pubs'[s]) => epoch' = epoch + 1]_vars
  BY <1>1
<1>3. QED
  BY <1>2, InvHolds, PTL DEF Spec, HistoryOnlyGrows

(* An entry of a batch is old, and so is what is kept with it: no revision  *)
(* of a message it is current for is recent, no correction of it or by it.  *)
LEMMA BatchSpares ==
  ASSUME StreamInv, NEW s \in Scopes, NEW cutoff, NEW p \in Batch(s, cutoff)
  PROVE  /\ p.at < cutoff
         /\ \A h \in heads[s] :
               h.entry = p.seq =>
                 /\ ~h.pinned
                 /\ \A q \in Revisions(s, h.msg) : q.at < cutoff
         /\ \A q \in Events(s) :
               p.kind = "event" /\ (q.of = p.seq \/ p.of = q.seq) => q.at < cutoff
<1>1. p \in pubs[s]
  BY BatchIsRetained
<1>2. PICK G \in Groups(s, cutoff) : p \in G
  BY DEF Batch
<1>3. \A x, y \in pubs[s] : x.seq = y.seq => x = y
  BY DEF StreamInv, PositionsAccounted
<1>4. ASSUME NEW h \in heads[s], h.entry = p.seq
      PROVE  p.kind = "message" /\ p.of = h.msg
  <2>1. PICK q \in Revisions(s, h.msg) : q.seq = h.entry
    BY DEF StreamInv, HeadsCoherent
  <2>2. q = p
    BY <1>1, <1>3, <1>4, <2>1 DEF Revisions, Messages
  <2>3. QED
    BY <2>1, <2>2 DEF Revisions, Messages
<1>5. ASSUME NEW h \in heads[s], h.entry = p.seq
      PROVE  OldHead(s, h, cutoff)
  <2>1. p.kind = "message" /\ p.of = h.msg /\ p.seq = h.entry
    BY <1>4, <1>5
  <2>2. QED
    BY <2>1, HeadTakenMessageTaken
<1>6. CASE G \in OldMessages(s, cutoff)
  <2>1. p.kind = "message" /\ p.at < cutoff
    BY <1>2, <1>6 DEF OldMessages, OldHead, Revisions, Messages
  <2>2. QED
    BY <1>5, <2>1 DEF OldHead
<1>7. CASE G \in OldRevisions(s, cutoff)
  <2>1. p.kind = "message" /\ p.at < cutoff
    BY <1>2, <1>7 DEF OldRevisions, Messages
  <2>2. QED
    BY <1>5, <2>1 DEF OldHead
<1>8. CASE G \in OldChains(s, cutoff)
  <2>1. PICK x \in Events(s) :
          G = Chain(s, x) /\ \A q \in Chain(s, x) : q.at < cutoff
    BY <1>8 DEF OldChains
  <2>2. p \in Events(s)
    BY <1>2, <2>1 DEF Chain
  <2>3. \A q \in Events(s) :
           q.of = p.seq \/ p.of = q.seq => q \in Chain(s, x)
    BY <1>2, <2>1, <2>2, CorrectedInChain
  <2>4. QED
    BY <1>2, <1>5, <2>1, <2>3 DEF OldHead
<1>9. QED
  BY <1>2, <1>6, <1>7, <1>8 DEF Groups

(* Only the commit of a plan removes entries, and only old ones: "Pinned    *)
(* messages, newer chains ... are preserved" (docs/hub.md:124; PlanHubPrune,*)
(* retention.go:244-300).                                                   *)
THEOREM PruneSparesRecent == Spec => PruneSpares
<1> DEFINE Spared(s, p) ==
             \E o \in Operators :
                LET cutoff == plan[o].cutoff
                IN  /\ plan[o] # NoPlan
                    /\ p.at < cutoff
                    /\ \A h \in heads[s] :
                          h.entry = p.seq =>
                            /\ ~h.pinned
                            /\ \A q \in Revisions(s, h.msg) : q.at < cutoff
                    /\ \A q \in Events(s) :
                          p.kind = "event" /\ (q.of = p.seq \/ p.of = q.seq)
                            => q.at < cutoff
<1>1. ASSUME StreamInv, [Next]_vars,
             NEW s \in Scopes, NEW p \in pubs[s] \ pubs'[s]
      PROVE  Spared(s, p)
  <2>1. PICK o \in Operators, now \in Instants : CommitPrune(o, now)
    BY <1>1, OnlyPrunesRemove
  <2>2. plan[o] # NoPlan
    BY <2>1 DEF CommitPrune
  <2>3. p \in Batch(s, plan[o].cutoff)
    BY <1>1, <2>1, PruneTakesBatch
  <2>4. QED
    BY <1>1, <2>2, <2>3, BatchSpares
<1>2. StreamInv /\ [Next]_vars
        => \A s \in Scopes : \A p \in pubs[s] \ pubs'[s] : Spared(s, p)
  BY <1>1
<1>3. QED
  BY <1>2, InvHolds, PTL DEF Spec, PruneSpares

(* A prune deletes what its plan showed and nothing else: the votes, pin    *)
(* transitions and heads that go with the entries are those the operator    *)
(* was shown (candidateDigest, retention.go:102-150).                       *)
THEOREM PrunesAreAsPlanned == Spec => PruneIsAsPlanned
<1>1. ASSUME StreamInv, [Next]_vars, epoch' # epoch
      PROVE  \E o \in Operators :
                /\ plan[o] # NoPlan
                /\ \A s \in Scopes :
                      LET rows == {r \in plan[o].rows : r.scope = s}
                      IN  /\ pubs[s] \ pubs'[s] = {r.pub : r \in rows}
                          /\ votes[s] \ votes'[s] = UNION {r.votes : r \in rows}
                          /\ pinAudit[s] \ pinAudit'[s]
                               = UNION {r.pins : r \in rows}
                          /\ heads[s] \ heads'[s]
                               \subseteq UNION {r.head : r \in rows}
  <2>1. PICK o \in Operators, now \in Instants : CommitPrune(o, now)
    BY <1>1, OnlyPrunesRemove
  <2>2. plan[o] # NoPlan /\ plan[o] = PrunePlan(plan[o].cutoff)
    BY <2>1 DEF CommitPrune, PlanStands
  <2>3. ASSUME NEW s \in Scopes
        PROVE  LET rows == {r \in plan[o].rows : r.scope = s}
               IN  /\ pubs[s] \ pubs'[s] = {r.pub : r \in rows}
                   /\ votes[s] \ votes'[s] = UNION {r.votes : r \in rows}
                   /\ pinAudit[s] \ pinAudit'[s] = UNION {r.pins : r \in rows}
                   /\ heads[s] \ heads'[s] \subseteq UNION {r.head : r \in rows}
    <3> DEFINE rows == {r \in plan[o].rows : r.scope = s}
               gone == Batch(s, plan[o].cutoff)
               RevGone(m, r) ==
                 \E p \in gone : p.kind = "message" /\ p.of = m /\ p.rev = r
    <3>1. plan[o].rows = PruneRows(plan[o].cutoff)
      BY <2>2 DEF PrunePlan
    <3>2. rows = {PlanRow(s, p) : p \in gone}
      BY <3>1 DEF PruneRows, PlanRow
    <3>3. /\ gone \subseteq pubs[s]
          /\ pubs[s] \ pubs'[s] = gone
          /\ votes[s] \ votes'[s] = {v \in votes[s] : RevGone(v.msg, v.rev)}
          /\ pinAudit[s] \ pinAudit'[s]
               = {x \in pinAudit[s] : RevGone(x.msg, x.rev)}
          /\ \A h \in heads[s] \ heads'[s] : \E p \in gone : p.seq = h.entry
      BY <1>1, <2>1, PruneTakesBatch
    <3> HIDE DEF gone
    <3>4. \A x \in heads[s] \ heads'[s] :
             \E p \in gone : p.kind = "message" /\ p.of = x.msg
      <4> SUFFICES ASSUME NEW x \in heads[s] \ heads'[s]
                   PROVE  \E p \in gone : p.kind = "message" /\ p.of = x.msg
        OBVIOUS
      <4>1. PICK p \in gone : p.seq = x.entry
        BY <3>3
      <4>2. PICK q \in Revisions(s, x.msg) : q.seq = x.entry
        BY <1>1 DEF StreamInv, HeadsCoherent
      <4>3. q = p
        BY <1>1, <3>3, <4>1, <4>2
        DEF StreamInv, PositionsAccounted, Revisions, Messages
      <4>4. QED
        BY <4>1, <4>2, <4>3 DEF Revisions, Messages
    <3> HIDE DEF rows
    <3>5. {r.pub : r \in rows} = gone
      <4>1. {r.pub : r \in rows} = {PlanRow(s, p).pub : p \in gone}
        BY <3>2
      <4>2. \A p \in gone : PlanRow(s, p).pub = p
        BY DEF PlanRow
      <4>3. QED
        BY <4>1, <4>2
    <3>6. UNION {r.votes : r \in rows} = {v \in votes[s] : RevGone(v.msg, v.rev)}
      <4>1. UNION {r.votes : r \in rows} = UNION {PlanRow(s, p).votes : p \in gone}
        BY <3>2
      <4>2. \A p \in gone : PlanRow(s, p).votes =
               {v \in votes[s] : p.kind = "message" /\ v.msg = p.of /\ v.rev = p.rev}
        BY DEF PlanRow
      <4>3. QED
        BY <4>1, <4>2
    <3>7. UNION {r.pins : r \in rows} = {x \in pinAudit[s] : RevGone(x.msg, x.rev)}
      <4>1. UNION {r.pins : r \in rows} = UNION {PlanRow(s, p).pins : p \in gone}
        BY <3>2
      <4>2. \A p \in gone : PlanRow(s, p).pins =
               {x \in pinAudit[s] : p.kind = "message" /\ x.msg = p.of /\ x.rev = p.rev}
        BY DEF PlanRow
      <4>3. QED
        BY <4>1, <4>2
    <3>8. heads[s] \ heads'[s] \subseteq UNION {r.head : r \in rows}
      <4>1. UNION {r.head : r \in rows} = UNION {PlanRow(s, p).head : p \in gone}
        BY <3>2
      <4>2. \A p \in gone : PlanRow(s, p).head =
               {h \in heads[s] : p.kind = "message" /\ h.msg = p.of}
        BY DEF PlanRow
      <4>3. QED
        BY <3>4, <4>1, <4>2
    <3>9. QED
      BY <3>3, <3>5, <3>6, <3>7, <3>8 DEF rows
  <2>4. QED
    BY <2>2, <2>3
<1>2. StreamInv /\ [Next]_vars
        => (epoch' # epoch =>
             \E o \in Operators :
                /\ plan[o] # NoPlan
                /\ \A s \in Scopes :
                      LET rows == {r \in plan[o].rows : r.scope = s}
                      IN  /\ pubs[s] \ pubs'[s] = {r.pub : r \in rows}
                          /\ votes[s] \ votes'[s] = UNION {r.votes : r \in rows}
                          /\ pinAudit[s] \ pinAudit'[s]
                               = UNION {r.pins : r \in rows}
                          /\ heads[s] \ heads'[s]
                               \subseteq UNION {r.head : r \in rows})
  BY <1>1
<1>3. QED
  BY <1>2, InvHolds, PTL DEF Spec, PruneIsAsPlanned

-----------------------------------------------------------------------------
(* Pins.  The transitions of a revision are numbered up to their number, so  *)
(* the one that is added last has the greatest.                              *)

PinsNumbered ==
  \A s \in Scopes : \A x \in pinAudit[s] :
     x.n <= Cardinality(PinRows(s, x.msg, x.rev))

(* The last of some transitions says "pinned". *)
SaysPinned(rows) == \E x \in rows : x.pinned /\ \A y \in rows : y.n <= x.n

PinInv == PinsNumbered /\ PinsAttributed

LEMMA PinTyped ==
  ASSUME StreamInv, NEW s \in Scopes
  PROVE  /\ pinAudit[s] \subseteq PinRow /\ heads[s] \subseteq HeadRow
         /\ \A m, r : /\ IsFiniteSet(PinRows(s, m, r))
                      /\ Cardinality(PinRows(s, m, r)) \in Nat
<1>1. pinAudit[s] \subseteq PinRow /\ heads[s] \subseteq HeadRow
  BY DEF StreamInv, StreamTypeOK
<1>2. ASSUME NEW m, NEW r
      PROVE  /\ IsFiniteSet(PinRows(s, m, r))
             /\ Cardinality(PinRows(s, m, r)) \in Nat
  <2>1. PinRows(s, m, r) \subseteq pinAudit[s] /\ IsFiniteSet(pinAudit[s])
    BY DEF PinRows, StreamInv, PinsFinite
  <2> QED BY <2>1, FS_Subset, FS_CardinalityType
<1> QED BY <1>1, <1>2

(* Revisions whose transitions do not change stay numbered, and heads that  *)
(* stay, or are new with no transition and no pin, stay attributed.         *)
LEMMA PinsOfScopeKept ==
  ASSUME PinInv, NEW s \in Scopes,
         pinAudit'[s] \subseteq pinAudit[s],
         \A x \in pinAudit'[s] : PinRows(s, x.msg, x.rev)' = PinRows(s, x.msg, x.rev),
         \A h \in heads'[s] :
            \/ h \in heads[s] /\ PinRows(s, h.msg, h.rev)' = PinRows(s, h.msg, h.rev)
            \/ ~h.pinned /\ PinRows(s, h.msg, h.rev)' = {}
  PROVE  /\ \A x \in pinAudit'[s] : x.n <= Cardinality(PinRows(s, x.msg, x.rev)')
         /\ \A h \in heads'[s] : h.pinned <=> SaysPinned(PinRows(s, h.msg, h.rev)')
<1>1. ASSUME NEW x \in pinAudit'[s]
      PROVE  x.n <= Cardinality(PinRows(s, x.msg, x.rev)')
  <2>1. x.n <= Cardinality(PinRows(s, x.msg, x.rev))
    BY DEF PinInv, PinsNumbered
  <2> QED BY <2>1
<1>2. ASSUME NEW h \in heads'[s]
      PROVE  h.pinned <=> SaysPinned(PinRows(s, h.msg, h.rev)')
  <2>1. h \in heads[s] => (h.pinned <=> SaysPinned(PinRows(s, h.msg, h.rev)))
    BY DEF PinInv, PinsAttributed, SaysPinned
  <2>2. ~SaysPinned({})
    BY DEF SaysPinned
  <2> QED BY <2>1, <2>2
<1> QED BY <1>1, <1>2

LEMMA PinInvByScope ==
  ASSUME \A s \in Scopes :
           /\ \A x \in pinAudit'[s] : x.n <= Cardinality(PinRows(s, x.msg, x.rev)')
           /\ \A h \in heads'[s] : h.pinned <=> SaysPinned(PinRows(s, h.msg, h.rev)')
  PROVE  PinInv'
  BY DEF PinInv, PinsNumbered, PinsAttributed, SaysPinned

(* A revision nobody published yet has no transitions. *)
LEMMA NoPinsAhead ==
  ASSUME StreamInv, NoOrphans, NEW s \in Scopes
  PROVE  /\ PinRows(s, next[s], 1) = {}
         /\ \A h \in heads[s] : PinRows(s, h.msg, h.rev + 1) = {}
<1>1. \A x \in pinAudit[s] : \E p \in Revisions(s, x.msg) : p.rev = x.rev
  BY DEF NoOrphans
<1>2. /\ heads[s] \subseteq HeadRow /\ next[s] \in Nat
      /\ \A h \in heads[s] : h.msg \in 1 .. next[s] - 1
  BY DEF StreamInv, StreamTypeOK, OneHeadPerMessage, HighWater
<1>3. ASSUME NEW x \in pinAudit[s], x.msg = next[s] PROVE FALSE
  <2>1. PICK p \in Revisions(s, x.msg) : p.rev = x.rev
    BY <1>1
  <2>2. PICK h \in heads[s] : h.msg = p.of
    BY DEF StreamInv, HeadsCoherent, Revisions
  <2>3. h.msg = next[s]
    BY <1>3, <2>1, <2>2 DEF Revisions
  <2> QED BY <1>2, <2>3
<1>4. ASSUME NEW h \in heads[s], NEW x \in pinAudit[s], x.msg = h.msg, x.rev = h.rev + 1
      PROVE  FALSE
  <2>1. PICK p \in Revisions(s, h.msg) : p.rev = h.rev + 1
    BY <1>1, <1>4
  <2>2. p.rev < h.rev \/ p.seq = h.entry
    BY DEF StreamInv, HeadsCoherent
  <2>3. PICK q \in Revisions(s, h.msg) : q.seq = h.entry /\ q.rev = h.rev
    BY DEF StreamInv, HeadsCoherent
  <2>4. h.rev \in Nat
    BY <1>2 DEF HeadRow
  <2>5. p.seq = q.seq => p = q
    BY DEF StreamInv, PositionsAccounted, Revisions, Messages
  <2> QED BY <2>1, <2>2, <2>3, <2>4, <2>5
<1> QED BY <1>3, <1>4 DEF PinRows

(* A new transition is the last of its revision. *)
LEMMA PinStep ==
  ASSUME StreamInv, PinInv, NEW s \in Scopes, NEW h \in heads[s], NEW pin \in BOOLEAN,
         LET row == [msg |-> h.msg, rev |-> h.rev, pinned |-> pin,
                     n |-> Cardinality(PinRows(s, h.msg, h.rev)) + 1]
         IN  /\ pinAudit'[s] = pinAudit[s] \cup {row}
             /\ heads'[s] = (heads[s] \ {h}) \cup {[h EXCEPT !.pinned = pin]}
  PROVE  /\ \A x \in pinAudit'[s] : x.n <= Cardinality(PinRows(s, x.msg, x.rev)')
         /\ \A g \in heads'[s] : g.pinned <=> SaysPinned(PinRows(s, g.msg, g.rev)')
<1> DEFINE rows == PinRows(s, h.msg, h.rev)
<1>1. PICK c : c = Cardinality(rows)
  OBVIOUS
<1>2. PICK row : row = [msg |-> h.msg, rev |-> h.rev, pinned |-> pin, n |-> c + 1]
  OBVIOUS
<1>3. PICK new : new = [h EXCEPT !.pinned = pin]
  OBVIOUS
<1>4. /\ pinAudit'[s] = pinAudit[s] \cup {row}
      /\ heads'[s] = (heads[s] \ {h}) \cup {new}
      /\ row.msg = h.msg /\ row.rev = h.rev /\ row.n = c + 1 /\ row.pinned = pin
  BY <1>1, <1>2, <1>3
<1>5. /\ c \in Nat /\ IsFiniteSet(rows) /\ rows \subseteq PinRow
      /\ new.msg = h.msg /\ new.rev = h.rev /\ new.pinned = pin
  <2>1. h \in HeadRow /\ pinAudit[s] \subseteq PinRow
    BY PinTyped
  <2>2. c \in Nat /\ IsFiniteSet(rows)
    BY <1>1, PinTyped
  <2>3. rows \subseteq PinRow
    BY <2>1 DEF PinRows
  <2>4. new.msg = h.msg /\ new.rev = h.rev /\ new.pinned = pin
    BY <1>3, <2>1 DEF HeadRow
  <2> QED BY <2>2, <2>3, <2>4
<1>6. \A y \in rows : y.n <= c /\ y.n \in Nat
  <2>1. ASSUME NEW y \in rows PROVE y.n <= c
    <3>1. y \in pinAudit[s] /\ y.msg = h.msg /\ y.rev = h.rev
      BY DEF PinRows
    <3>2. y.n <= Cardinality(PinRows(s, y.msg, y.rev))
      BY <3>1 DEF PinInv, PinsNumbered
    <3> QED BY <1>1, <3>1, <3>2
  <2> QED BY <2>1, <1>5 DEF PinRow
<1>7. row \notin rows
  BY <1>4, <1>5, <1>6
<1>8. PICK more : more = rows \cup {row}
  OBVIOUS
<1>9. Cardinality(more) = c + 1
  BY <1>1, <1>5, <1>7, <1>8, FS_AddElement
<1>10. /\ PinRows(s, h.msg, h.rev)' = more
       /\ \A m, r : ~(m = h.msg /\ r = h.rev) => PinRows(s, m, r)' = PinRows(s, m, r)
  BY <1>4, <1>8 DEF PinRows
<1>11. ASSUME NEW x \in pinAudit'[s]
       PROVE  x.n <= Cardinality(PinRows(s, x.msg, x.rev)')
  <2>1. CASE x.msg = h.msg /\ x.rev = h.rev
    <3>1. PinRows(s, x.msg, x.rev)' = more
      BY <2>1, <1>10
    <3>2. x \in rows \/ x = row
      BY <1>4, <2>1 DEF PinRows
    <3>3. x.n \in Nat /\ x.n <= c + 1
      BY <3>2, <1>4, <1>5, <1>6
    <3> QED BY <3>1, <3>3, <1>9
  <2>2. CASE ~(x.msg = h.msg /\ x.rev = h.rev)
    <3>1. x \in pinAudit[s] /\ PinRows(s, x.msg, x.rev)' = PinRows(s, x.msg, x.rev)
      BY <2>2, <1>4, <1>10
    <3>2. x.n <= Cardinality(PinRows(s, x.msg, x.rev))
      BY <3>1 DEF PinInv, PinsNumbered
    <3> QED BY <3>1, <3>2
  <2> QED BY <2>1, <2>2
<1>12. SaysPinned(more) <=> pin
  <2>1. row \in more /\ \A y \in more : y.n <= row.n
    BY <1>4, <1>5, <1>6, <1>8
  <2>2. \A x \in more : (\A y \in more : y.n <= x.n) => x = row
    BY <1>4, <1>5, <1>6, <1>8, <2>1
  <2> QED BY <2>1, <2>2, <1>4 DEF SaysPinned
<1>13. ASSUME NEW g \in heads'[s]
       PROVE  g.pinned <=> SaysPinned(PinRows(s, g.msg, g.rev)')
  <2>1. CASE g = new
    BY <2>1, <1>5, <1>10, <1>12
  <2>2. CASE g # new
    <3>1. g \in heads[s] /\ g # h
      BY <1>4, <2>2
    <3>2. g.msg # h.msg
      BY <3>1 DEF StreamInv, OneHeadPerMessage
    <3>3. PinRows(s, g.msg, g.rev)' = PinRows(s, g.msg, g.rev)
      BY <1>10, <3>2
    <3>4. g.pinned <=> SaysPinned(PinRows(s, g.msg, g.rev))
      BY <3>1 DEF PinInv, PinsAttributed, SaysPinned
    <3> QED BY <3>3, <3>4
  <2> QED BY <2>1, <2>2
<1> QED BY <1>11, <1>13

(* A prune takes the transitions of a revision with it, and the head too if *)
(* the revision is the current one.                                         *)
LEMMA PruneKeepsPins ==
  ASSUME StreamInv, PinInv, NEW o \in Operators, NEW now, CommitPrune(o, now),
         NEW s \in Scopes
  PROVE  /\ \A x \in pinAudit'[s] : x.n <= Cardinality(PinRows(s, x.msg, x.rev)')
         /\ \A h \in heads'[s] : h.pinned <=> SaysPinned(PinRows(s, h.msg, h.rev)')
<1> DEFINE gone == Batch(s, plan[o].cutoff)
           RevGone(m, r) == \E p \in gone : p.kind = "message" /\ p.of = m /\ p.rev = r
<1>1. /\ pinAudit'[s] = {x \in pinAudit[s] : ~RevGone(x.msg, x.rev)}
      /\ heads'[s] = {h \in heads[s] : ~(/\ OldHead(s, h, plan[o].cutoff)
                                         /\ \E p \in gone : p.seq = h.entry)}
      /\ gone \subseteq pubs[s]
  BY BatchIsRetained DEF CommitPrune
<1> HIDE DEF gone
<1>2. \A m, r : ~RevGone(m, r) => PinRows(s, m, r)' = PinRows(s, m, r)
  BY <1>1 DEF PinRows
<1>3. ASSUME NEW h \in heads'[s] PROVE ~RevGone(h.msg, h.rev)
  <2>1. SUFFICES ASSUME NEW p \in gone, p.kind = "message", p.of = h.msg, p.rev = h.rev
        PROVE  FALSE
    OBVIOUS
  <2>2. h \in heads[s] /\ p \in Revisions(s, h.msg) /\ h.rev \in Nat
    BY <1>1, <2>1, PinTyped DEF Revisions, Messages, HeadRow
  <2>3. p.seq = h.entry
    BY <2>1, <2>2 DEF StreamInv, HeadsCoherent
  <2>4. OldHead(s, h, plan[o].cutoff)
    BY <2>1, <2>2, <2>3, HeadTakenMessageTaken DEF gone
  <2> QED BY <1>1, <2>1, <2>3, <2>4
<1>4. \A x \in pinAudit'[s] : PinRows(s, x.msg, x.rev)' = PinRows(s, x.msg, x.rev)
  BY <1>1, <1>2
<1>5. \A h \in heads'[s] :
         h \in heads[s] /\ PinRows(s, h.msg, h.rev)' = PinRows(s, h.msg, h.rev)
  BY <1>1, <1>2, <1>3
<1> QED BY <1>1, <1>4, <1>5, PinsOfScopeKept

(* The inductive step: publishing adds heads without a pin, curating a      *)
(* transition, a prune takes both.                                          *)
LEMMA NextKeepsPins ==
  StreamInv /\ NoOrphans /\ PinInv /\ [Next]_vars => PinInv'
<1> SUFFICES ASSUME StreamInv, NoOrphans, PinInv, [Next]_vars,
                    NEW s \in Scopes
    PROVE  /\ \A x \in pinAudit'[s] : x.n <= Cardinality(PinRows(s, x.msg, x.rev)')
           /\ \A h \in heads'[s] : h.pinned <=> SaysPinned(PinRows(s, h.msg, h.rev)')
  BY PinInvByScope
<1>1. heads \in [Scopes -> SUBSET HeadRow] /\ pinAudit \in [Scopes -> SUBSET PinRow]
  BY DEF StreamInv, StreamTypeOK
<1> DEFINE Done == /\ \A x \in pinAudit'[s] :
                         x.n <= Cardinality(PinRows(s, x.msg, x.rev)')
                   /\ \A h \in heads'[s] :
                         h.pinned <=> SaysPinned(PinRows(s, h.msg, h.rev)')
<1>2. ASSUME pinAudit'[s] = pinAudit[s],
             \A h \in heads'[s] : h \in heads[s] \/ (~h.pinned /\ PinRows(s, h.msg, h.rev) = {})
      PROVE  Done
  <2>1. \A m, r : PinRows(s, m, r)' = PinRows(s, m, r)
    BY <1>2 DEF PinRows
  <2> QED BY <1>2, <2>1, PinsOfScopeKept
<1>3. CASE Publish
  <2>1. PICK a \in Actors, t \in Topics, k \in Keys \cup {NoKey},
             deadline \in Expiries, now \in Instants :
          \/ PostMessage(a, t, k, deadline, now)
          \/ \E h \in heads[ScopeOf[t]], change \in BOOLEAN :
                ReviseMessage(a, t, h, h.rev, k, change, deadline, now)
          \/ \E e \in EventTypes, c \in {0} \cup Retained(ScopeOf[t]) :
                PublishEvent(a, t, e, k, c, deadline, now)
    BY <1>3 DEF Publish
  <2>2. CASE PostMessage(a, t, k, deadline, now)
    <3>1. PICK new : new = [msg |-> next[ScopeOf[t]], topic |-> t, author |-> a, rev |-> 1,
                            entry |-> next[ScopeOf[t]], pinned |-> FALSE]
      OBVIOUS
    <3>2. pinAudit' = pinAudit
          /\ heads' = [heads EXCEPT ![ScopeOf[t]] = heads[ScopeOf[t]] \cup {new}]
      BY <2>2, <3>1 DEF PostMessage, NextSequence
    <3>3. \A h \in heads'[s] : h \in heads[s] \/ (s = ScopeOf[t] /\ h = new)
      BY <1>1, <3>2
    <3>4. PinRows(s, next[s], 1) = {}
      BY NoPinsAhead
    <3> QED BY <1>2, <3>1, <3>2, <3>3, <3>4
  <2>3. ASSUME NEW h \in heads[ScopeOf[t]], NEW change \in BOOLEAN,
               ReviseMessage(a, t, h, h.rev, k, change, deadline, now)
        PROVE  Done
    <3>1. PICK new : new = NextHead(h, next[ScopeOf[t]])
      OBVIOUS
    <3>2. pinAudit' = pinAudit
          /\ heads' = [heads EXCEPT ![ScopeOf[t]] = (heads[ScopeOf[t]] \ {h}) \cup {new}]
      BY <2>3, <3>1 DEF ReviseMessage, NextSequence
    <3>3. \A g \in heads'[s] : g \in heads[s] \/ (s = ScopeOf[t] /\ g = new)
      BY <1>1, <3>2
    <3>4. s = ScopeOf[t] => h \in HeadRow /\ PinRows(s, h.msg, h.rev + 1) = {}
      BY <1>1, NoPinsAhead
    <3>5. s = ScopeOf[t] => new.msg = h.msg /\ new.rev = h.rev + 1 /\ ~new.pinned
      BY <3>1, <3>4 DEF NextHead, HeadRow
    <3> QED BY <1>2, <3>2, <3>3, <3>4, <3>5
  <2>4. ASSUME NEW e \in EventTypes, NEW c \in {0} \cup Retained(ScopeOf[t]),
               PublishEvent(a, t, e, k, c, deadline, now)
        PROVE  Done
    BY <1>2, <2>4 DEF PublishEvent
  <2> QED BY <2>1, <2>2, <2>3, <2>4
<1>4. CASE Curate
  <2>1. PICK a \in Actors, t \in Topics, now \in Instants :
          \E h \in heads[ScopeOf[t]] :
             \/ \E pin \in BOOLEAN :
                   PinMessage(a, t, topic[t].generation, h, h.rev, pin, now)
             \/ \E value \in VoteValues : VoteMessage(a, t, h, h.rev, value, now)
    BY <1>4 DEF Curate
  <2>2. ASSUME NEW h \in heads[ScopeOf[t]], NEW pin \in BOOLEAN,
               PinMessage(a, t, topic[t].generation, h, h.rev, pin, now)
        PROVE  Done
    <3>1. PICK row : row = [msg |-> h.msg, rev |-> h.rev, pinned |-> pin,
                            n |-> Cardinality(PinRows(ScopeOf[t], h.msg, h.rev)) + 1]
      OBVIOUS
    <3>2. /\ heads' = [heads EXCEPT ![ScopeOf[t]] =
                         (heads[ScopeOf[t]] \ {h}) \cup {[h EXCEPT !.pinned = pin]}]
          /\ pinAudit' = [pinAudit EXCEPT ![ScopeOf[t]] = pinAudit[ScopeOf[t]] \cup {row}]
      BY <2>2, <3>1 DEF PinMessage
    <3>3. CASE s = ScopeOf[t]
      <4>1. /\ heads'[s] = (heads[s] \ {h}) \cup {[h EXCEPT !.pinned = pin]}
            /\ pinAudit'[s] = pinAudit[s] \cup {row}
        BY <1>1, <3>2, <3>3
      <4> QED BY <4>1, <3>1, <3>3, PinStep
    <3>4. CASE s # ScopeOf[t]
      BY <1>1, <1>2, <3>2, <3>4
    <3> QED BY <3>3, <3>4
  <2>3. ASSUME NEW h \in heads[ScopeOf[t]], NEW value \in VoteValues,
               VoteMessage(a, t, h, h.rev, value, now)
        PROVE  Done
    BY <1>2, <2>3 DEF VoteMessage
  <2> QED BY <2>1, <2>2, <2>3
<1>5. CASE Retain
  <2>1. PICK o \in Operators :
          \/ \E cutoff \in Cutoffs, now \in Instants : PlanPrune(o, cutoff, now)
          \/ \E now \in Instants : CommitPrune(o, now)
          \/ PruneFails(o)
    BY <1>5 DEF Retain
  <2>2. CASE \/ \E cutoff \in Cutoffs, now \in Instants : PlanPrune(o, cutoff, now)
             \/ PruneFails(o)
    BY <1>2, <2>2 DEF PlanPrune, PruneFails, tables
  <2> QED BY <2>1, <2>2, PruneKeepsPins
<1>6. CASE UNCHANGED streamVars
  BY <1>2, <1>6 DEF streamVars
<1> QED BY <1>3, <1>4, <1>5, <1>6 DEF Next, StreamNext, vars

(* A head is pinned exactly when the last transition audited for its        *)
(* current revision says so, for every mix of pins, revisions and prunes    *)
(* (PinMessage and the cleared pin of ReviseMessage, message.go:483).       *)
THEOREM PinsAreAttributed == Spec => []PinsAttributed
<1>1. Init => PinInv
  BY DEF Init, StreamInit, PinInv, PinsNumbered, PinsAttributed
<1>2. StreamInv /\ NoOrphans /\ PinInv /\ [Next]_vars => PinInv'
  BY NextKeepsPins
<1>3. PinInv => PinsAttributed
  BY DEF PinInv
<1>4. Spec => []NoOrphans
  BY NothingDangles
<1> QED BY <1>1, <1>2, <1>3, <1>4, InvHolds, PTL DEF Spec

-----------------------------------------------------------------------------
(* Cursors: the inductive invariant. *)

(* What was told covers the positions after "from" up to "to", once each. *)
Tiles(told, from, to) ==
  /\ {y.pos : y \in told} = from + 1 .. to
  /\ \A y, z \in told : y.pos = z.pos => y = z

(* What was told is true of the stream: "pruned" of pruned positions,       *)
(* "filtered" of entries the filters do not match.                          *)
TrueOf(sub, told) ==
  \A y \in told :
     /\ y.what # "unavailable"
     /\ y.what = "pruned" => y.pos \in pruned[sub.scope]
     /\ y.pos \in 1 .. HighWater(sub.scope)
     /\ \A p \in pubs[sub.scope] :
           p.seq = y.pos => (y.what = "filtered" <=> ~Matches(sub, p))

SubOK(x) ==
  /\ subs[x].state = "absent" => subs[x].acked = 0 /\ subs[x].start = 0 /\ ledger[x] = {}
  /\ subs[x].start <= subs[x].acked
  /\ subs[x].acked <= HighWater(subs[x].scope)
  /\ Tiles(ledger[x], subs[x].start, subs[x].acked)
  /\ TrueOf(subs[x], ledger[x])

(* A page in hand, of the stream as it was when the page was pulled.  While *)
(* no prune commits, what it delivers is retained.                          *)
PageStands(g) ==
  /\ subs[g.sub].state # "absent"
  /\ g.prior <= g.next
  /\ g.next <= HighWater(subs[g.sub].scope)
  /\ Tiles(g.told, g.prior, g.next)
  /\ TrueOf(subs[g.sub], g.told)
  /\ g.epoch <= epoch
  /\ g.epoch = epoch =>
       \A y \in g.told : y.what # "pruned" => y.pos \in Retained(subs[g.sub].scope)

CursorInv ==
  /\ StreamInv
  /\ CursorTypeOK
  /\ \A x \in Subscriptions : SubOK(x)
  /\ \A w \in Workers : page[w] # NoPage => PageStands(page[w])

LEMMA InitEstablishesCursors == HubInit => CursorInv
<1> SUFFICES ASSUME HubInit PROVE CursorInv
  OBVIOUS
<1>1. StreamInv
  BY InitEstablishesInv DEF HubInit
<1>2. NoSubscription \in SubscriptionRow
  BY CursorAssumption DEF NoSubscription, SubscriptionRow, Kinds
<1>3. CursorTypeOK
  BY <1>2 DEF HubInit, CursorInit, CursorTypeOK
<1>4. ASSUME NEW x \in Subscriptions PROVE SubOK(x)
  <2>1. /\ subs[x].acked = 0 /\ subs[x].start = 0 /\ ledger[x] = {}
        /\ subs[x].scope \in Scopes
    BY CursorAssumption DEF HubInit, CursorInit, NoSubscription
  <2>2. HighWater(subs[x].scope) = 0
    BY <2>1 DEF HubInit, Init, StreamInit, HighWater
  <2>3. Tiles({}, 0, 0)
    BY DEF Tiles
  <2> QED BY <2>1, <2>2, <2>3 DEF SubOK, TrueOf
<1>5. \A w \in Workers : page[w] = NoPage
  BY DEF HubInit, CursorInit
<1> QED BY <1>1, <1>3, <1>4, <1>5 DEF CursorInv

-----------------------------------------------------------------------------
(* What stays true. *)

LEMMA SubTyped ==
  ASSUME CursorTypeOK, NEW x \in Subscriptions
  PROVE  /\ subs[x] \in SubscriptionRow
         /\ subs[x].scope \in Scopes /\ subs[x].acked \in Nat /\ subs[x].start \in Nat
  BY DEF CursorTypeOK, SubscriptionRow

LEMMA ScopeFacts ==
  ASSUME StreamInv, NEW s \in Scopes
  PROVE  /\ HighWater(s) \in Nat /\ low[s] \in Nat /\ epoch \in Nat
         /\ low[s] <= HighWater(s) /\ 1 .. low[s] \subseteq pruned[s]
         /\ Retained(s) \cup pruned[s] = 1 .. HighWater(s)
         /\ Retained(s) \cap pruned[s] = {}
         /\ \A p, q \in pubs[s] : p.seq = q.seq => p = q
  BY DEF StreamInv, StreamTypeOK, PositionsAccounted, HighWater

(* Publishing adds positions, a prune moves them to the pruned ones: what    *)
(* was told stays true.                                                      *)
LEMMA TrueStays ==
  ASSUME StreamInv, [Next]_vars, NEW sub, sub.scope \in Scopes, NEW told,
         TrueOf(sub, told)
  PROVE  TrueOf(sub, told)'
<1>1. PICK s \in Scopes : s = sub.scope
  OBVIOUS
<1>2. /\ \A p \in pubs'[s] \ pubs[s] : p.seq >= next[s]
      /\ pruned[s] \subseteq pruned'[s] /\ next'[s] >= next[s]
      /\ next[s] \in Nat /\ next'[s] \in Nat
  <2>1. StreamInv'
    BY NextKeepsInv
  <2> QED BY <2>1, HistoryStep DEF StreamInv, StreamTypeOK
<1>3. ASSUME NEW y \in told
      PROVE  /\ y.what # "unavailable"
             /\ y.what = "pruned" => y.pos \in pruned'[s]
             /\ y.pos \in 1 .. next'[s] - 1
             /\ \A p \in pubs'[s] :
                   p.seq = y.pos => (y.what = "filtered" <=> ~Matches(sub, p))
  <2>1. /\ y.what # "unavailable"
        /\ y.what = "pruned" => y.pos \in pruned[s]
        /\ y.pos \in 1 .. next[s] - 1
        /\ \A p \in pubs[s] :
              p.seq = y.pos => (y.what = "filtered" <=> ~Matches(sub, p))
    BY <1>1 DEF TrueOf, HighWater
  <2>2. \A p \in pubs'[s] : p.seq = y.pos => p \in pubs[s]
    BY <2>1, <1>2
  <2>3. y.pos \in 1 .. next'[s] - 1
    BY <2>1, <1>2
  <2> QED BY <1>2, <2>1, <2>2, <2>3
<1> QED BY <1>1, <1>3 DEF TrueOf, HighWater, Matches

(* The same filters are true of the same. *)
LEMMA TrueAlike ==
  ASSUME NEW sub, NEW new, NEW told, TrueOf(sub, told), UNCHANGED vars,
         new.scope = sub.scope, new.topics = sub.topics, new.kinds = sub.kinds,
         new.types = sub.types
  PROVE  TrueOf(new, told)'
<1>1. UNCHANGED <<next, pubs, pruned>>
  BY DEF vars, streamVars
<1> QED BY <1>1 DEF TrueOf, HighWater, Matches

LEMMA StreamKept == ASSUME StreamInv, UNCHANGED vars PROVE StreamInv'
  BY NextKeepsInv

-----------------------------------------------------------------------------
(* The steps. *)

(* The stream moves on; cursors and pages stay. *)
LEMMA StreamStep ==
  ASSUME CursorInv, [Next]_vars, UNCHANGED cursorVars
  PROVE  CursorInv'
<1>1. StreamInv /\ StreamInv' /\ CursorTypeOK
  BY NextKeepsInv DEF CursorInv
<1>2. UNCHANGED <<subs, page, ledger>>
  BY DEF cursorVars
<1>3. CursorTypeOK'
  BY <1>1, <1>2 DEF CursorTypeOK
<1>4. ASSUME NEW s \in Scopes PROVE HighWater(s) <= HighWater(s)'
  BY <1>1, HistoryStep DEF HighWater, StreamInv, StreamTypeOK
<1>5. ASSUME NEW x \in Subscriptions PROVE SubOK(x)'
  <2>1. SubOK(x) /\ subs[x].scope \in Scopes /\ subs[x].acked \in Nat
    BY <1>1, SubTyped DEF CursorInv
  <2>2. TrueOf(subs[x], ledger[x])'
    <3>1. TrueOf(subs[x], ledger[x])
      BY <2>1 DEF SubOK
    <3>2. PICK sub, told : sub = subs[x] /\ told = ledger[x]
      OBVIOUS
    <3>3. TrueOf(sub, told)'
      BY <1>1, <2>1, <3>1, <3>2, TrueStays
    <3> QED BY <1>2, <3>2, <3>3 DEF TrueOf
  <2>3. subs[x].acked <= HighWater(subs[x].scope)'
    <3>1. /\ HighWater(subs[x].scope) \in Nat /\ HighWater(subs[x].scope)' \in Nat
          /\ HighWater(subs[x].scope) <= HighWater(subs[x].scope)'
      BY <1>1, <1>2, <1>4, <2>1, ScopeFacts DEF StreamInv, StreamTypeOK, HighWater
    <3> QED BY <2>1, <3>1 DEF SubOK
  <2> QED BY <1>2, <2>1, <2>2, <2>3 DEF SubOK
<1>6. ASSUME NEW w \in Workers, page'[w] # NoPage PROVE PageStands(page[w])'
  <2>1. PICK g \in Page : g = page[w]
    BY <1>1, <1>2, <1>6 DEF CursorTypeOK
  <2>2. PageStands(g) /\ g.sub \in Subscriptions /\ g.next \in Nat /\ g.epoch \in Nat
    BY <1>2, <1>6, <2>1 DEF CursorInv, Page
  <2>3. PICK s \in Scopes : s = subs[g.sub].scope
    BY <1>1, <2>2, SubTyped
  <2>4. TrueOf(subs[g.sub], g.told)'
    <3>1. PICK sub, told : sub = subs[g.sub] /\ told = g.told
      OBVIOUS
    <3>2. TrueOf(sub, told)'
      BY <1>1, <2>2, <2>3, <3>1, TrueStays DEF PageStands
    <3> QED BY <1>2, <3>1, <3>2 DEF TrueOf
  <2>5. HighWater(s) <= HighWater(s)' /\ HighWater(s) \in Nat /\ HighWater(s)' \in Nat
    BY <1>1, <1>4, ScopeFacts DEF StreamInv, StreamTypeOK, HighWater
  <2>6. epoch' \in {epoch, epoch + 1} /\ epoch \in Nat
    BY <1>1, <2>3, HistoryStep, ScopeFacts
  <2>7. ASSUME g.epoch = epoch'
        PROVE  \A y \in g.told : y.what # "pruned" => y.pos \in Retained(s)'
    <3>1. epoch' = epoch
      BY <2>2, <2>6, <2>7 DEF PageStands
    <3>2. pubs[s] \subseteq pubs'[s]
      BY <1>1, <2>6, <3>1, HistoryStep
    <3>3. \A y \in g.told : y.what # "pruned" => y.pos \in Retained(s)
      BY <2>2, <2>3, <2>7, <3>1 DEF PageStands
    <3> QED BY <3>2, <3>3 DEF Retained
  <2>8. PageStands(g)'
    BY <1>2, <2>2, <2>3, <2>4, <2>5, <2>6, <2>7 DEF PageStands
  <2> QED BY <1>2, <2>1, <2>8
<1> QED BY <1>1, <1>3, <1>5, <1>6 DEF CursorInv

(* A subscription changes alone: the others and the pages of others stand.   *)
LEMMA OthersStand ==
  ASSUME CursorInv, UNCHANGED vars, NEW x \in Subscriptions,
         \A z \in Subscriptions \ {x} : subs'[z] = subs[z] /\ ledger'[z] = ledger[z]
  PROVE  /\ \A z \in Subscriptions \ {x} : SubOK(z)'
         /\ \A w \in Workers : page'[w] = page[w] /\ page[w] # NoPage /\ page[w].sub # x
                                 => PageStands(page[w])'
<1>1. UNCHANGED <<next, pubs, pruned, epoch>>
  BY DEF vars, streamVars
<1>2. ASSUME NEW z \in Subscriptions \ {x} PROVE SubOK(z)'
  <2>1. SubOK(z)
    BY DEF CursorInv
  <2>2. subs'[z] = subs[z] /\ ledger'[z] = ledger[z]
    OBVIOUS
  <2> QED BY <1>1, <2>1, <2>2 DEF SubOK, TrueOf, HighWater, Matches
<1>3. ASSUME NEW w \in Workers, page'[w] = page[w], page[w] # NoPage, page[w].sub # x
      PROVE  PageStands(page[w])'
  <2>1. PICK g \in Page : g = page[w]
    BY <1>3 DEF CursorInv, CursorTypeOK
  <2>2. PageStands(g) /\ subs'[g.sub] = subs[g.sub]
    BY <1>3, <2>1 DEF CursorInv, Page
  <2>3. PageStands(g)'
    BY <1>1, <2>2 DEF PageStands, TrueOf, HighWater, Matches, Retained
  <2> QED BY <1>3, <2>1, <2>3
<1> QED BY <1>2, <1>3

(* A new subscription has passed nothing, and nobody has a page of it. *)
LEMMA SubscribeStep ==
  ASSUME CursorInv, UNCHANGED vars, NEW x \in Subscriptions, NEW s \in Scopes,
         NEW topics \in SUBSET Topics, NEW kinds \in KindFilters,
         NEW types \in SUBSET EventTypes, NEW fromBeginning \in BOOLEAN,
         NEW now \in Instants,
         Subscribe(x, s, topics, kinds, types, fromBeginning, now)
  PROVE  CursorInv'
<1>1. StreamInv /\ StreamInv' /\ CursorTypeOK
  BY StreamKept DEF CursorInv
<1>2. PICK at : at = StartCursor(s, fromBeginning)
  OBVIOUS
<1>3. at \in Nat /\ at <= HighWater(s) /\ HighWater(s) \in Nat
  BY <1>1, <1>2, ScopeFacts DEF StartCursor
<1>4. PICK new : new = [state |-> "live", scope |-> s, topics |-> topics,
                        kinds |-> kinds, types |-> types, created |-> now,
                        start |-> at, acked |-> at]
  OBVIOUS
<1>5. /\ subs[x].state = "absent" /\ UNCHANGED <<page, ledger>>
      /\ subs' = [subs EXCEPT ![x] = new]
  BY <1>2, <1>4 DEF Subscribe
<1>6. new \in SubscriptionRow
  BY <1>3, <1>4, ClockAssumption, CursorAssumption DEF SubscriptionRow, Kinds
<1>7. CursorTypeOK'
  BY <1>1, <1>5, <1>6 DEF CursorTypeOK
<1>8. /\ subs'[x] = new
      /\ \A z \in Subscriptions \ {x} : subs'[z] = subs[z] /\ ledger'[z] = ledger[z]
  BY <1>1, <1>5 DEF CursorTypeOK
<1>9. SubOK(x)'
  <2>1. ledger'[x] = {}
    BY <1>5 DEF CursorInv, SubOK
  <2>2. Tiles({}, at, at)
    BY <1>3 DEF Tiles
  <2>3. HighWater(s)' = HighWater(s)
    BY DEF vars, streamVars, HighWater
  <2> QED BY <1>3, <1>4, <1>8, <2>1, <2>2, <2>3 DEF SubOK, TrueOf
<1>10. ASSUME NEW w \in Workers, page'[w] # NoPage PROVE PageStands(page[w])'
  <2>1. page[w].sub # x
    BY <1>5, <1>10 DEF CursorInv, PageStands
  <2> QED BY <1>5, <1>8, <1>10, <2>1, OthersStand
<1> QED BY <1>1, <1>7, <1>8, <1>9, <1>10, OthersStand DEF CursorInv

(* A subscription that is removed keeps its filters and its cursor. *)
LEMMA RemoveStep ==
  ASSUME CursorInv, UNCHANGED vars, NEW x \in Subscriptions, NEW now \in Instants,
         RemoveSubscription(x, now)
  PROVE  CursorInv'
<1>1. StreamInv /\ StreamInv' /\ CursorTypeOK /\ subs[x] \in SubscriptionRow
  BY StreamKept, SubTyped DEF CursorInv
<1>2. PICK new : new = [subs[x] EXCEPT !.state = "removed"]
  OBVIOUS
<1>3. subs' = [subs EXCEPT ![x] = new] /\ UNCHANGED <<page, ledger>>
  BY <1>2 DEF RemoveSubscription
<1>4. /\ new \in SubscriptionRow /\ new.state = "removed"
      /\ new.scope = subs[x].scope /\ new.topics = subs[x].topics
      /\ new.kinds = subs[x].kinds /\ new.types = subs[x].types
      /\ new.start = subs[x].start /\ new.acked = subs[x].acked
  BY <1>1, <1>2 DEF SubscriptionRow
<1>5. CursorTypeOK'
  BY <1>1, <1>3, <1>4 DEF CursorTypeOK
<1>6. /\ subs'[x] = new /\ ledger'[x] = ledger[x]
      /\ \A z \in Subscriptions \ {x} : subs'[z] = subs[z] /\ ledger'[z] = ledger[z]
  BY <1>1, <1>3 DEF CursorTypeOK
<1>7. UNCHANGED <<next, pubs, pruned, epoch>>
  BY DEF vars, streamVars
<1>8. SubOK(x)'
  <2>1. SubOK(x)
    BY DEF CursorInv
  <2> QED BY <1>4, <1>6, <1>7, <2>1 DEF SubOK, TrueOf, HighWater, Matches
<1>9. ASSUME NEW w \in Workers, page'[w] # NoPage PROVE PageStands(page[w])'
  <2>1. CASE page[w].sub # x
    BY <1>3, <1>6, <1>9, <2>1, OthersStand
  <2>2. CASE page[w].sub = x
    <3>1. PICK g : g = page[w]
      OBVIOUS
    <3>2. PageStands(g) /\ g.sub = x
      BY <1>3, <1>9, <2>2, <3>1 DEF CursorInv
    <3>3. PageStands(g)'
      BY <1>4, <1>6, <1>7, <3>2 DEF PageStands, TrueOf, HighWater, Matches, Retained
    <3> QED BY <1>3, <3>1, <3>3
  <2> QED BY <2>1, <2>2
<1> QED BY <1>1, <1>5, <1>6, <1>8, <1>9, OthersStand DEF CursorInv

LEMMA PageEndBounds ==
  ASSUME NEW base \in Nat, NEW high \in Nat, base <= high, NEW limit \in Limits
  PROVE  /\ PageEnd(base, high, limit) \in Nat
         /\ base <= PageEnd(base, high, limit) /\ PageEnd(base, high, limit) <= high
<1>1. limit \in Nat \ {0}
  BY CursorAssumption
<1> QED BY <1>1 DEF PageEnd

(* Pull says of a position what is true of it: there is no third thing than  *)
(* retained and pruned.                                                      *)
LEMMA OutcomeTrue ==
  ASSUME StreamInv, NEW sub, sub.scope \in Scopes, NEW now,
         NEW q \in 1 .. HighWater(sub.scope)
  PROVE  /\ PositionOutcome(sub, q, now) \in Outcomes \ {"unavailable"}
         /\ IF PositionOutcome(sub, q, now) = "pruned" THEN q \in pruned[sub.scope]
            ELSE q \in Retained(sub.scope)
         /\ \A p \in pubs[sub.scope] :
              p.seq = q =>
                (PositionOutcome(sub, q, now) = "filtered" <=> ~Matches(sub, p))
<1> DEFINE here == {p \in pubs[sub.scope] : p.seq = q}
<1>1. /\ q \in Retained(sub.scope) \cup pruned[sub.scope]
      /\ \A p, r \in pubs[sub.scope] : p.seq = r.seq => p = r
  BY ScopeFacts
<1>2. CASE here = {}
  <2>1. PositionOutcome(sub, q, now) = IF q \in pruned[sub.scope] THEN "pruned"
                                       ELSE "unavailable"
    BY <1>2 DEF PositionOutcome
  <2>2. q \notin Retained(sub.scope)
    BY <1>2 DEF Retained
  <2> QED BY <1>1, <1>2, <2>1, <2>2 DEF Outcomes
<1>3. CASE here # {}
  <2>1. PICK p \in pubs[sub.scope] : p.seq = q
    BY <1>3
  <2>2. here = {p}
    BY <1>1, <2>1
  <2>3. PositionOutcome(sub, q, now) = EntryOutcome(sub, p, now)
    <3>1. PositionOutcome(sub, q, now) = EntryOutcome(sub, CHOOSE r \in here : TRUE, now)
      BY <1>3 DEF PositionOutcome
    <3>2. (CHOOSE r \in here : TRUE) = p
      BY <2>2
    <3> QED BY <3>1, <3>2
  <2>4. /\ EntryOutcome(sub, p, now) \in {"filtered", "archived", "expired", "delivered"}
        /\ EntryOutcome(sub, p, now) = "filtered" <=> ~Matches(sub, p)
    BY DEF EntryOutcome
  <2>5. q \in Retained(sub.scope) /\ \A r \in pubs[sub.scope] : r.seq = q => r = p
    BY <1>1, <2>1 DEF Retained
  <2> QED BY <2>3, <2>4, <2>5 DEF Outcomes
<1> QED BY <1>2, <1>3

(* What a pull tells: what it skips, and what it scans. *)
ToldBy(sub, base, end, now) ==
  {[pos |-> q, what |-> "pruned"] : q \in sub.acked + 1 .. base}
    \cup {[pos |-> q, what |-> PositionOutcome(sub, q, now)] : q \in base + 1 .. end}

(* The page of a pull tiles from the cursor to its end, and is true. *)
LEMMA PulledPage ==
  ASSUME StreamInv, NEW sub \in SubscriptionRow, NEW now,
         sub.acked <= HighWater(sub.scope), NEW base, NEW end \in Nat,
         base = IF sub.acked < low[sub.scope] THEN low[sub.scope] ELSE sub.acked,
         base <= end, end <= HighWater(sub.scope), NEW told,
         told = ToldBy(sub, base, end, now)
  PROVE  /\ told \in SUBSET Told
         /\ Tiles(told, sub.acked, end)
         /\ TrueOf(sub, told)
         /\ \A y \in told : y.what # "pruned" => y.pos \in Retained(sub.scope)
<1> DEFINE s == sub.scope
           skipped == {[pos |-> q, what |-> "pruned"] : q \in sub.acked + 1 .. base}
           scanned == {[pos |-> q, what |-> PositionOutcome(sub, q, now)] :
                         q \in base + 1 .. end}
<1>0. told = skipped \cup scanned
  BY DEF ToldBy
<1>1. s \in Scopes /\ sub.acked \in Nat
  BY DEF SubscriptionRow
<1>2. /\ HighWater(s) \in Nat /\ low[s] \in Nat /\ low[s] <= HighWater(s)
      /\ 1 .. low[s] \subseteq pruned[s] /\ Retained(s) \cap pruned[s] = {}
  BY <1>1, ScopeFacts
<1>3. base \in Nat /\ sub.acked <= base /\ base <= HighWater(s)
  BY <1>1, <1>2
<1>4. ASSUME NEW y \in skipped
      PROVE  /\ y.what = "pruned" /\ y.pos \in sub.acked + 1 .. base
             /\ y.pos \in pruned[s] /\ y = [pos |-> y.pos, what |-> "pruned"]
  <2>1. y.what = "pruned" /\ y.pos \in sub.acked + 1 .. base
        /\ y = [pos |-> y.pos, what |-> "pruned"]
    OBVIOUS
  <2>2. y.pos \in 1 .. low[s]
    BY <2>1, <1>1, <1>2, <1>3
  <2> QED BY <2>1, <2>2, <1>2
<1>5. ASSUME NEW y \in scanned
      PROVE  /\ y.pos \in base + 1 .. end
             /\ y.what = PositionOutcome(sub, y.pos, now)
             /\ y.pos \in 1 .. HighWater(s)
             /\ y = [pos |-> y.pos, what |-> y.what]
  <2>1. PICK q \in base + 1 .. end : y = [pos |-> q, what |-> PositionOutcome(sub, q, now)]
    OBVIOUS
  <2>2. q \in 1 .. HighWater(s)
    BY <1>2, <1>3
  <2> QED BY <2>1, <2>2
<1>6. ASSUME NEW y \in told
      PROVE  /\ y.pos \in sub.acked + 1 .. end /\ y.pos \in 1 .. HighWater(s)
             /\ y.what \in Outcomes \ {"unavailable"}
             /\ IF y.what = "pruned" THEN y.pos \in pruned[s] ELSE y.pos \in Retained(s)
             /\ \A p \in pubs[s] :
                   p.seq = y.pos => (y.what = "filtered" <=> ~Matches(sub, p))
             /\ y = [pos |-> y.pos, what |-> y.what]
  <2>1. CASE y \in skipped
    <3>1. /\ y.what = "pruned" /\ y.pos \in sub.acked + 1 .. base
          /\ y.pos \in pruned[s] /\ y = [pos |-> y.pos, what |-> "pruned"]
      BY <1>4, <2>1
    <3>2. \A p \in pubs[s] : p.seq # y.pos
      BY <3>1, <1>2 DEF Retained
    <3>3. y.pos \in sub.acked + 1 .. end /\ y.pos \in 1 .. HighWater(s)
      BY <3>1, <1>1, <1>2, <1>3
    <3> HIDE DEF skipped, scanned, s
    <3> QED BY <3>1, <3>2, <3>3 DEF Outcomes
  <2>2. CASE y \in scanned
    <3>1. /\ y.pos \in base + 1 .. end /\ y.what = PositionOutcome(sub, y.pos, now)
          /\ y.pos \in 1 .. HighWater(s) /\ y = [pos |-> y.pos, what |-> y.what]
      BY <1>5, <2>2
    <3>2. y.pos \in sub.acked + 1 .. end
      BY <3>1, <1>1, <1>3
    <3>3. /\ y.what \in Outcomes \ {"unavailable"}
          /\ IF y.what = "pruned" THEN y.pos \in pruned[s] ELSE y.pos \in Retained(s)
          /\ \A p \in pubs[s] :
                p.seq = y.pos => (y.what = "filtered" <=> ~Matches(sub, p))
      BY <3>1, <1>1, OutcomeTrue
    <3> HIDE DEF skipped, scanned, s
    <3> QED BY <3>1, <3>2, <3>3
  <2> QED BY <1>0, <2>1, <2>2
<1>7. Tiles(told, sub.acked, end)
  <2>1. ASSUME NEW q \in sub.acked + 1 .. end PROVE \E y \in told : y.pos = q
    <3>1. q \in sub.acked + 1 .. base \/ q \in base + 1 .. end
      BY <1>1, <1>3
    <3>2. CASE q \in sub.acked + 1 .. base
      <4>1. [pos |-> q, what |-> "pruned"] \in told
        BY <1>0, <3>2
      <4> QED BY <4>1
    <3>3. CASE q \in base + 1 .. end
      <4>1. [pos |-> q, what |-> PositionOutcome(sub, q, now)] \in told
        BY <1>0, <3>3
      <4> QED BY <4>1
    <3> QED BY <3>1, <3>2, <3>3
  <2>2. ASSUME NEW y \in told, NEW z \in told, y.pos = z.pos PROVE y = z
    <3>1. CASE y.pos \in sub.acked + 1 .. base
      <4>1. \A v \in scanned : v.pos # y.pos
        BY <3>1, <1>1, <1>3, <1>5
      <4>2. y \in skipped /\ z \in skipped
        BY <1>0, <4>1, <2>2
      <4> QED BY <4>2, <1>4, <2>2
    <3>2. CASE y.pos \notin sub.acked + 1 .. base
      <4>1. y \in scanned /\ z \in scanned
        BY <1>0, <3>2, <1>4, <2>2
      <4> QED BY <4>1, <1>5, <2>2
    <3> QED BY <3>1, <3>2
  <2> HIDE DEF skipped, scanned, s
  <2>3. {y.pos : y \in told} = sub.acked + 1 .. end
    BY <1>6, <2>1
  <2> QED BY <2>2, <2>3 DEF Tiles
<1> HIDE DEF skipped, scanned
<1>8. told \in SUBSET Told
  <2>1. ASSUME NEW y \in told PROVE y \in Told
    <3>1. y.pos \in Nat /\ y.what \in Outcomes /\ y = [pos |-> y.pos, what |-> y.what]
      BY <1>2, <1>6
    <3> QED BY <3>1 DEF Told
  <2> QED BY <2>1
<1>9. TrueOf(sub, told)
  BY <1>6 DEF TrueOf
<1> QED BY <1>6, <1>7, <1>8, <1>9

(* A pull replaces the worker's page by one that stands. *)
LEMMA PullStep ==
  ASSUME CursorInv, UNCHANGED vars, NEW w \in Workers, NEW x \in Subscriptions,
         NEW limit \in Limits, NEW now \in Instants, Pull(w, x, limit, now)
  PROVE  CursorInv'
<1>1. StreamInv /\ StreamInv' /\ CursorTypeOK /\ SubOK(x)
  BY StreamKept DEF CursorInv
<1>2. PICK sub : sub = subs[x]
  OBVIOUS
<1>3. /\ sub \in SubscriptionRow /\ sub.scope \in Scopes /\ sub.acked \in Nat
      /\ sub.acked <= HighWater(sub.scope)
  BY <1>1, <1>2, SubTyped DEF SubOK
<1>4. PICK base : base = IF sub.acked < low[sub.scope] THEN low[sub.scope] ELSE sub.acked
  OBVIOUS
<1>5. /\ base \in Nat /\ base <= HighWater(sub.scope) /\ HighWater(sub.scope) \in Nat
      /\ sub.acked <= base /\ epoch \in Nat
  BY <1>1, <1>3, <1>4, ScopeFacts
<1>6. PICK end : end = PageEnd(base, HighWater(sub.scope), limit)
  OBVIOUS
<1>7. end \in Nat /\ base <= end /\ end <= HighWater(sub.scope)
  BY <1>5, <1>6, PageEndBounds
<1>8. PICK told : told = ToldBy(sub, base, end, now)
  OBVIOUS
<1>9. /\ told \in SUBSET Told /\ Tiles(told, sub.acked, end) /\ TrueOf(sub, told)
      /\ \A y \in told : y.what # "pruned" => y.pos \in Retained(sub.scope)
  BY <1>1, <1>3, <1>4, <1>7, <1>8, PulledPage
<1>10. PICK g : g = [sub |-> x, prior |-> sub.acked, next |-> end,
                     high |-> HighWater(sub.scope), epoch |-> epoch, done |-> FALSE,
                     told |-> told]
  OBVIOUS
<1>11. /\ page' = [page EXCEPT ![w] = g] /\ UNCHANGED <<subs, ledger>>
       /\ sub.state = "live"
  BY <1>2, <1>4, <1>6, <1>8, <1>10 DEF Pull, ToldBy
<1>12. g \in Page
  BY <1>3, <1>5, <1>7, <1>9, <1>10 DEF Page
<1>13. CursorTypeOK'
  BY <1>1, <1>11, <1>12 DEF CursorTypeOK
<1>14. PageStands(g)
  BY <1>2, <1>3, <1>5, <1>7, <1>9, <1>10, <1>11 DEF PageStands
<1>15. UNCHANGED <<next, pubs, pruned, epoch>>
  BY DEF vars, streamVars
<1>16. ASSUME NEW v \in Workers, page'[v] # NoPage PROVE PageStands(page[v])'
  <2>1. page'[v] = IF v = w THEN g ELSE page[v]
    BY <1>1, <1>11 DEF CursorTypeOK
  <2>2. PICK f : f = page'[v]
    OBVIOUS
  <2>3. PageStands(f)
    BY <1>14, <1>16, <2>1, <2>2 DEF CursorInv
  <2>4. PageStands(f)'
    BY <1>11, <1>15, <2>3 DEF PageStands, TrueOf, HighWater, Matches, Retained
  <2> QED BY <2>2, <2>4
<1>17. ASSUME NEW z \in Subscriptions PROVE SubOK(z)'
  <2>1. SubOK(z)
    BY DEF CursorInv
  <2> QED BY <1>11, <1>15, <2>1 DEF SubOK, TrueOf, HighWater, Matches
<1> QED BY <1>1, <1>13, <1>16, <1>17 DEF CursorInv

(* An acknowledgement that succeeds found no prune since the pull, a live    *)
(* subscription, and the cursor where the page starts or where it ends.      *)
LEMMA AckFound ==
  ASSUME CursorInv, NEW w \in Workers, Ack(w)
  PROVE  /\ page[w] \in Page /\ PageStands(page[w]) /\ page[w].epoch = epoch
         /\ page[w].sub \in Subscriptions /\ subs[page[w].sub].state = "live"
         /\ subs[page[w].sub].acked \in {page[w].prior, page[w].next}
<1>1. page[w] \in Page /\ PageStands(page[w])
  BY DEF Ack, CursorInv, CursorTypeOK
<1>2. page[w].sub \in Subscriptions
  BY <1>1 DEF Page
<1>3. AckReply(w) = "ok"
  BY DEF Ack
<1>4. /\ page[w].epoch = epoch /\ subs[page[w].sub].state = "live"
      /\ subs[page[w].sub].acked \in {page[w].prior, page[w].next}
  BY <1>3 DEF AckReply
<1> QED BY <1>1, <1>2, <1>4

(* Two stretches that meet, told once each, are one. *)
LEMMA TilesJoin ==
  ASSUME NEW a \in Nat, NEW b \in Nat, NEW c \in Nat, a <= b, b <= c,
         NEW S, NEW T, Tiles(S, a, b), Tiles(T, b, c)
  PROVE  Tiles(S \cup T, a, c)
<1>1. \A y \in S : y.pos \in a + 1 .. b
  BY DEF Tiles
<1>2. \A y \in T : y.pos \in b + 1 .. c
  BY DEF Tiles
<1>3. \A y \in S, z \in T : y.pos # z.pos
  BY <1>1, <1>2
<1>4. \A y, z \in S \cup T : y.pos = z.pos => y = z
  BY <1>3 DEF Tiles
<1>5. {y.pos : y \in S \cup T} = (a + 1 .. b) \cup (b + 1 .. c)
  <2>1. {y.pos : y \in S \cup T} = {y.pos : y \in S} \cup {y.pos : y \in T}
    OBVIOUS
  <2> QED BY <2>1 DEF Tiles
<1>6. (a + 1 .. b) \cup (b + 1 .. c) = a + 1 .. c
  OBVIOUS
<1> QED BY <1>4, <1>5, <1>6 DEF Tiles

(* An acknowledgement that moves the cursor appends its page to the ledger;  *)
(* one that repeats another changes neither.                                 *)
LEMMA AckStep ==
  ASSUME CursorInv, UNCHANGED vars, NEW w \in Workers, Ack(w)
  PROVE  CursorInv'
<1>1. StreamInv /\ StreamInv' /\ CursorTypeOK
  BY StreamKept DEF CursorInv
<1>2. PICK g \in Page : g = page[w]
  BY AckFound
<1>3. PICK x \in Subscriptions : x = g.sub
  BY <1>2, AckFound
<1>4. PICK sub \in SubscriptionRow : sub = subs[x]
  BY <1>1, SubTyped
<1>5. /\ PageStands(g) /\ g.epoch = epoch /\ sub.state = "live"
      /\ sub.acked \in {g.prior, g.next}
  BY <1>2, <1>3, <1>4, AckFound
<1>6. PICK new : new = [sub EXCEPT !.acked = g.next]
  OBVIOUS
<1>7. PICK after : after = [g EXCEPT !.done = TRUE]
  OBVIOUS
<1>8. PICK all : all = IF sub.acked # g.next THEN ledger[x] \cup g.told ELSE ledger[x]
  OBVIOUS
<1>9. /\ page' = [page EXCEPT ![w] = after]
      /\ subs' = [subs EXCEPT ![x] = new]
      /\ ledger' = [ledger EXCEPT ![x] = all]
  BY <1>2, <1>3, <1>4, <1>6, <1>7, <1>8 DEF Ack
<1>10. /\ new \in SubscriptionRow /\ new.acked = g.next /\ new.state = "live"
       /\ new.scope = sub.scope /\ new.topics = sub.topics /\ new.kinds = sub.kinds
       /\ new.types = sub.types /\ new.start = sub.start
  BY <1>2, <1>5, <1>6 DEF SubscriptionRow, Page
<1>11. /\ after \in Page /\ after.sub = g.sub /\ after.prior = g.prior
       /\ after.next = g.next /\ after.told = g.told /\ after.epoch = g.epoch
  BY <1>2, <1>7 DEF Page
<1>12. all \in SUBSET Told
  BY <1>1, <1>2, <1>8 DEF CursorTypeOK, Page
<1>13. CursorTypeOK'
  BY <1>1, <1>9, <1>10, <1>11, <1>12 DEF CursorTypeOK
<1>14. /\ subs'[x] = new /\ ledger'[x] = all /\ page'[w] = after
       /\ \A z \in Subscriptions \ {x} : subs'[z] = subs[z] /\ ledger'[z] = ledger[z]
       /\ \A v \in Workers \ {w} : page'[v] = page[v]
  BY <1>1, <1>9 DEF CursorTypeOK
<1>15. UNCHANGED <<next, pubs, pruned, epoch>>
  BY DEF vars, streamVars
<1>16. /\ sub.start \in Nat /\ sub.acked \in Nat /\ g.prior \in Nat /\ g.next \in Nat
       /\ sub.start <= sub.acked /\ g.prior <= g.next
       /\ g.next <= HighWater(sub.scope)
       /\ Tiles(ledger[x], sub.start, sub.acked) /\ TrueOf(sub, ledger[x])
       /\ Tiles(g.told, g.prior, g.next) /\ TrueOf(sub, g.told)
  <2>1. SubOK(x)
    BY DEF CursorInv
  <2> QED BY <2>1, <1>2, <1>3, <1>4, <1>5 DEF SubOK, PageStands, SubscriptionRow, Page
<1>17. Tiles(all, sub.start, g.next) /\ TrueOf(sub, all) /\ sub.start <= g.next
  <2>1. CASE sub.acked = g.next
    BY <1>8, <1>16, <2>1
  <2>2. CASE sub.acked # g.next
    <3>1. sub.acked = g.prior /\ all = ledger[x] \cup g.told
      BY <1>5, <1>8, <2>2
    <3>2. Tiles(all, sub.start, g.next)
      BY <3>1, <1>16, TilesJoin
    <3>3. sub.start <= g.next
      BY <3>1, <1>16
    <3> QED BY <3>1, <3>2, <3>3, <1>16 DEF TrueOf
  <2> QED BY <2>1, <2>2
<1>18. SubOK(x)'
  <2>1. TrueOf(new, all)'
    BY <1>10, <1>17, TrueAlike
  <2>2. TrueOf(subs[x], ledger[x])'
    BY <1>14, <2>1 DEF TrueOf
  <2>3. HighWater(sub.scope)' = HighWater(sub.scope)
    BY <1>15 DEF HighWater
  <2> QED BY <1>10, <1>14, <1>16, <1>17, <2>2, <2>3 DEF SubOK
<1>19. ASSUME NEW v \in Workers, page'[v] # NoPage PROVE PageStands(page[v])'
  <2>1. CASE v # w /\ page[v].sub # x
    BY <1>14, <1>19, <2>1, OthersStand
  <2>2. CASE v = w \/ page[v].sub = x
    <3>1. PICK f : f = page'[v]
      OBVIOUS
    <3>2. PICK old : old = page[v]
      OBVIOUS
    <3>3. /\ PageStands(old) /\ old.sub = x /\ f.sub = x /\ f.prior = old.prior
          /\ f.next = old.next /\ f.told = old.told /\ f.epoch = old.epoch
      BY <1>2, <1>3, <1>5, <1>11, <1>14, <1>19, <2>2, <3>1, <3>2 DEF CursorInv
    <3>4. PageStands(f)'
      BY <1>4, <1>10, <1>14, <1>15, <3>3
      DEF PageStands, TrueOf, HighWater, Matches, Retained
    <3> QED BY <3>1, <3>4
  <2> QED BY <2>1, <2>2
<1> QED BY <1>1, <1>13, <1>14, <1>18, <1>19, OthersStand DEF CursorInv

(* The inductive step: one case per action. *)
LEMMA CursorStep == CursorInv /\ [HubNext]_hubVars => CursorInv'
<1> SUFFICES ASSUME CursorInv, [HubNext]_hubVars PROVE CursorInv'
  OBVIOUS
<1>1. CASE [Next]_vars /\ UNCHANGED cursorVars
  BY <1>1, StreamStep
<1>2. CASE CursorNext /\ UNCHANGED vars
  <2>1. CASE \E x \in Subscriptions, s \in Scopes, topics \in SUBSET Topics,
                kinds \in KindFilters, types \in SUBSET EventTypes,
                fromBeginning \in BOOLEAN, now \in Instants :
                Subscribe(x, s, topics, kinds, types, fromBeginning, now)
    BY <1>2, <2>1, SubscribeStep
  <2>2. CASE \E x \in Subscriptions, now \in Instants : RemoveSubscription(x, now)
    BY <1>2, <2>2, RemoveStep
  <2>3. CASE \E w \in Workers, x \in Subscriptions, limit \in Limits, now \in Instants :
                Pull(w, x, limit, now)
    BY <1>2, <2>3, PullStep
  <2>4. CASE \E w \in Workers : Ack(w)
    BY <1>2, <2>4, AckStep
  <2> QED BY <1>2, <2>1, <2>2, <2>3, <2>4 DEF CursorNext
<1>3. CASE UNCHANGED hubVars
  BY <1>1, <1>3 DEF hubVars
<1> QED BY <1>1, <1>2, <1>3 DEF HubNext

LEMMA CursorInvariant == HubSpec => []CursorInv
<1>1. HubInit => CursorInv
  BY InitEstablishesCursors
<1>2. CursorInv /\ [HubNext]_hubVars => CursorInv'
  BY CursorStep
<1> QED BY <1>1, <1>2, PTL DEF HubSpec

-----------------------------------------------------------------------------
(* The theorems. *)

(* Subscriptions, pages and ledger keep the columns of subscription.go's     *)
(* tables and claims, next to the tables of the stream.                      *)
THEOREM HubTypeCorrect == HubSpec => []HubTypeOK
<1>1. CursorInv => HubTypeOK
  BY DEF CursorInv, StreamInv, HubTypeOK, TypeOK
<1> QED BY <1>1, CursorInvariant, PTL

(* Every position a cursor passed was told once, by the page whose Ack moved *)
(* the cursor over it, and never as lost: gaps are what was pruned (Pull,    *)
(* subscription.go:420; Ack, subscription.go:558).                           *)
THEOREM CursorsAreAccounted == HubSpec => []CursorAccounted
<1>1. ASSUME CursorInv, NEW x \in Subscriptions
      PROVE  /\ {y.pos : y \in ledger[x]} = subs[x].start + 1 .. subs[x].acked
             /\ subs[x].acked <= HighWater(subs[x].scope)
             /\ \A y \in ledger[x] : y.what # "unavailable"
             /\ \A y, z \in ledger[x] : y.pos = z.pos => y = z
  <2>1. SubOK(x)
    BY <1>1 DEF CursorInv
  <2> QED BY <2>1 DEF SubOK, Tiles, TrueOf
<1>2. CursorInv => CursorAccounted
  BY <1>1 DEF CursorAccounted
<1> QED BY <1>2, CursorInvariant, PTL

(* A retained entry behind a cursor was delivered or set aside for a reason  *)
(* that is true of it, and "filtered" exactly when the filters exclude it    *)
(* (Pull's outcomes, subscription.go:485).                                   *)
THEOREM RetainedAreNotMissed == HubSpec => []NothingRetainedIsMissed
<1>1. ASSUME CursorInv, NEW x \in Subscriptions, NEW p \in pubs[subs[x].scope],
             NEW y \in ledger[x], y.pos = p.seq
      PROVE  /\ y.what \in {"delivered", "filtered", "archived", "expired"}
             /\ y.what = "filtered" <=>
                  \/ p.topic \notin subs[x].topics
                  \/ p.kind \notin subs[x].kinds
                  \/ /\ p.kind = "event"
                     /\ subs[x].types # {}
                     /\ p.type \notin subs[x].types
  <2>1. TrueOf(subs[x], ledger[x]) /\ subs[x].scope \in Scopes /\ StreamInv
    BY <1>1, SubTyped DEF CursorInv, SubOK
  <2>2. y.pos \notin pruned[subs[x].scope]
    BY <1>1, <2>1, ScopeFacts DEF Retained
  <2>3. y.what # "pruned" /\ y.what # "unavailable" /\ y.what \in Outcomes
    BY <1>1, <2>1, <2>2 DEF TrueOf, CursorInv, CursorTypeOK, Told
  <2>4. y.what = "filtered" <=> ~Matches(subs[x], p)
    BY <1>1, <2>1 DEF TrueOf
  <2>5. y.what \in {"delivered", "filtered", "archived", "expired"}
    BY <2>3 DEF Outcomes
  <2> QED BY <2>4, <2>5 DEF Matches
<1>2. CursorInv => NothingRetainedIsMissed
  BY <1>1 DEF NothingRetainedIsMissed
<1> QED BY <1>2, CursorInvariant, PTL

(* A step that moves the cursor of a subscription acknowledges a page that   *)
(* starts at the cursor and that no prune overtook.                          *)
LEMMA CursorMoves ==
  ASSUME CursorInv, [HubNext]_hubVars, NEW x \in Subscriptions,
         subs[x].state # "absent", subs'[x].acked # subs[x].acked
  PROVE  /\ subs'[x].acked > subs[x].acked
         /\ subs[x].state = "live"
         /\ \A y \in ledger'[x] \ ledger[x] :
               IF y.what = "pruned" THEN y.pos \in pruned[subs[x].scope]
               ELSE y.pos \in Retained(subs[x].scope)
<1>1. CursorTypeOK /\ subs[x].acked \in Nat /\ subs[x] \in SubscriptionRow
  BY SubTyped DEF CursorInv
<1>2. CursorNext
  BY DEF HubNext, hubVars, cursorVars
<1>3. PICK w \in Workers : Ack(w)
  <2>1. ASSUME NEW z \in Subscriptions, NEW s \in Scopes, NEW topics \in SUBSET Topics,
               NEW kinds \in KindFilters, NEW types \in SUBSET EventTypes,
               NEW fromBeginning \in BOOLEAN, NEW now \in Instants,
               Subscribe(z, s, topics, kinds, types, fromBeginning, now)
        PROVE  FALSE
    <3>1. z # x
      BY <2>1 DEF Subscribe
    <3>2. subs'[x] = subs[x]
      BY <1>1, <2>1, <3>1 DEF Subscribe, CursorTypeOK
    <3> QED BY <3>2
  <2>2. ASSUME NEW z \in Subscriptions, NEW now \in Instants, RemoveSubscription(z, now)
        PROVE  FALSE
    <3>1. subs'[x] = subs[x] \/ subs'[x] = [subs[x] EXCEPT !.state = "removed"]
      BY <1>1, <2>2 DEF RemoveSubscription, CursorTypeOK
    <3>2. subs'[x].acked = subs[x].acked
      BY <1>1, <3>1 DEF SubscriptionRow
    <3> QED BY <3>2
  <2>3. ASSUME NEW w \in Workers, NEW z \in Subscriptions, NEW limit \in Limits,
               NEW now \in Instants, Pull(w, z, limit, now)
        PROVE  FALSE
    BY <2>3 DEF Pull
  <2> QED BY <1>2, <2>1, <2>2, <2>3 DEF CursorNext
<1>4. PICK g \in Page : g = page[w]
  BY <1>3, AckFound
<1>5. /\ PageStands(g) /\ g.epoch = epoch /\ g.sub \in Subscriptions
      /\ subs[g.sub].state = "live" /\ subs[g.sub].acked \in {g.prior, g.next}
  BY <1>3, <1>4, AckFound
<1>6. g.sub = x
  <2>1. subs' = [subs EXCEPT ![g.sub] = [subs[g.sub] EXCEPT !.acked = g.next]]
    BY <1>3, <1>4 DEF Ack
  <2> QED BY <1>1, <2>1 DEF CursorTypeOK
<1>7. /\ subs'[x] = [subs[x] EXCEPT !.acked = g.next]
      /\ ledger'[x] = IF subs[x].acked # g.next THEN ledger[x] \cup g.told ELSE ledger[x]
  BY <1>1, <1>3, <1>4, <1>6 DEF Ack, CursorTypeOK
<1>8. subs'[x].acked = g.next
  BY <1>1, <1>7 DEF SubscriptionRow
<1>9. subs'[x].acked > subs[x].acked
  BY <1>1, <1>5, <1>6, <1>8 DEF PageStands, Page
<1>10. ASSUME NEW y \in ledger'[x] \ ledger[x]
       PROVE  IF y.what = "pruned" THEN y.pos \in pruned[subs[x].scope]
              ELSE y.pos \in Retained(subs[x].scope)
  <2>1. y \in g.told
    BY <1>7
  <2> QED BY <1>5, <1>6, <2>1 DEF PageStands, TrueOf
<1> QED BY <1>5, <1>6, <1>9, <1>10

(* Cursors move forward, for live subscriptions, and only over pages whose   *)
(* delivered entries are all still retained (Ack, subscription.go:558).      *)
THEOREM AcksAreSound == HubSpec => AckIsSound
<1>1. ASSUME CursorInv, [HubNext]_hubVars, NEW x \in Subscriptions
      PROVE  subs[x].state # "absent" /\ subs'[x].acked # subs[x].acked =>
         /\ subs'[x].acked > subs[x].acked
         /\ subs[x].state = "live"
         /\ \A y \in ledger'[x] \ ledger[x] :
               IF y.what = "pruned" THEN y.pos \in pruned[subs[x].scope]
               ELSE y.pos \in Retained(subs[x].scope)
  BY <1>1, CursorMoves
<1>2. CursorInv /\ [HubNext]_hubVars =>
        [\A x \in Subscriptions :
           subs[x].state # "absent" /\ subs'[x].acked # subs[x].acked =>
         /\ subs'[x].acked > subs[x].acked
         /\ subs[x].state = "live"
         /\ \A y \in ledger'[x] \ ledger[x] :
               IF y.what = "pruned" THEN y.pos \in pruned[subs[x].scope]
               ELSE y.pos \in Retained(subs[x].scope)]_hubVars
  BY <1>1
<1> QED BY <1>2, CursorInvariant, PTL DEF HubSpec, AckIsSound

=============================================================================
