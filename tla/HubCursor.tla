----------------------------- MODULE HubCursor -----------------------------
(***************************************************************************)
(* Subscriptions and their durable cursors (subscription.go) over the      *)
(* publication stream.  A worker pulls a page in a read transaction, which *)
(* hands it a signed claim, and acknowledges it in a later write           *)
(* transaction; between the two, publications, prunes and other workers of *)
(* the same consumer commit, and a worker may repeat an acknowledgement.   *)
(***************************************************************************)
EXTENDS HubStream

CONSTANTS
  Subscriptions,  \* subscription ids that may be created
  Workers,        \* processes that pull and acknowledge
  NoPage,         \* a worker that holds no page
  Limits,         \* page sizes workers ask for
  KindFilters     \* kind filters subscriptions are made with

ASSUME CursorAssumption ==
  /\ Scopes # {}
  /\ Limits \subseteq Nat \ {0}
  /\ KindFilters \subseteq SUBSET {"message", "event"}

VARIABLES
  subs,    \* subscriptions and subscription_topics
  page,    \* the last page each worker pulled, claim and ack reply included
  ledger   \* history: what acknowledged pages said of each position

cursorVars == <<subs, page, ledger>>

Kinds == {"message", "event"}
Outcomes == {"delivered", "filtered", "archived", "expired", "pruned", "unavailable"}
Told == [pos : Nat, what : Outcomes]

NoSubscription ==
  [state |-> "absent", scope |-> CHOOSE s \in Scopes : TRUE, topics |-> {},
   kinds |-> {}, types |-> {}, created |-> 0, start |-> 0, acked |-> 0]

SubscriptionRow ==
  [state : {"absent", "live", "removed"}, scope : Scopes,
   topics : SUBSET Topics, kinds : SUBSET Kinds, types : SUBSET EventTypes,
   created : Nat,   \* created_at
   start : Nat,     \* the cursor it was created with
   acked : Nat]     \* acknowledged_sequence

Page ==
  [sub : Subscriptions, prior : Nat, next : Nat, high : Nat, epoch : Nat,
   told : SUBSET Told,
   done : BOOLEAN]   \* an Ack of this token has succeeded for this worker

CursorTypeOK ==
  /\ subs \in [Subscriptions -> SubscriptionRow]
  /\ page \in [Workers -> Page \cup {NoPage}]
  /\ ledger \in [Subscriptions -> SUBSET Told]

CursorInit ==
  /\ subs = [x \in Subscriptions |-> NoSubscription]
  /\ page = [w \in Workers |-> NoPage]
  /\ ledger = [x \in Subscriptions |-> {}]

StartCursor(s, fromBeginning) == IF fromBeginning THEN 0 ELSE HighWater(s)

(* Subscribe: every topic is active and knows every event type asked for; *)
(* the cursor starts at the high-water mark or at the beginning.           *)
Subscribe(x, s, topics, kinds, types, fromBeginning, now) ==
  LET at == StartCursor(s, fromBeginning)
  IN  /\ subs[x].state = "absent"
      /\ topics # {} /\ kinds # {}
      /\ types # {} => "event" \in kinds
      /\ \A t \in topics :
            /\ ScopeOf[t] = s
            /\ TopicActive(t, now)
            /\ \A e \in types : schemas[t][e] # "absent"
      /\ subs' = [subs EXCEPT ![x] =
                    [state |-> "live", scope |-> s, topics |-> topics,
                     kinds |-> kinds, types |-> types, created |-> now,
                     start |-> at, acked |-> at]]
      /\ UNCHANGED <<page, ledger>>

(* RemoveSubscription: the table refuses a removal before the creation. *)
RemoveSubscription(x, now) ==
  /\ subs[x].state = "live"
  /\ subs[x].created <= now
  /\ subs' = [subs EXCEPT ![x].state = "removed"]
  /\ UNCHANGED <<page, ledger>>

(* Fault: the kind is not looked at. *)
Matches_AnyKind(sub, p) ==
  /\ p.topic \in sub.topics
  /\ p.kind = "event" /\ sub.types # {} => p.type \in sub.types

(* The filters of a subscription. *)
Matches(sub, p) ==
  /\ p.topic \in sub.topics
  /\ p.kind \in sub.kinds
  /\ p.kind = "event" /\ sub.types # {} => p.type \in sub.types

(* Why a retained entry is not delivered to a subscription, or that it is. *)
EntryOutcome(sub, p, now) ==
  IF ~Matches(sub, p) THEN "filtered"
  ELSE IF topic[p.topic].archived <= now \/ topic[p.topic].expires <= now
       THEN "archived"
  ELSE IF p.expires <= now THEN "expired"
  ELSE "delivered"

PositionOutcome(sub, q, now) ==
  LET here == {p \in pubs[sub.scope] : p.seq = q}
  IN  IF here # {} THEN EntryOutcome(sub, CHOOSE p \in here : TRUE, now)
      ELSE IF q \in pruned[sub.scope] THEN "pruned" ELSE "unavailable"

PageEnd(base, high, limit) ==
  IF high <= base THEN base
  ELSE IF high - base > limit THEN base + limit ELSE high

(* Pull: skips to the low-water mark, reporting what it skips as pruned,   *)
(* then scans at most "limit" positions.                                   *)
Pull(w, x, limit, now) ==
  LET sub == subs[x]
      s == sub.scope
      base == IF sub.acked < low[s] THEN low[s] ELSE sub.acked
      high == HighWater(s)
      end == PageEnd(base, high, limit)
  IN  /\ sub.state = "live"
      /\ page' = [page EXCEPT ![w] =
           [sub |-> x, prior |-> sub.acked, next |-> end, high |-> high,
            epoch |-> epoch, done |-> FALSE,
            told |-> {[pos |-> q, what |-> "pruned"] : q \in sub.acked + 1 .. base}
                     \cup {[pos |-> q, what |-> PositionOutcome(sub, q, now)] :
                             q \in base + 1 .. end}]]
      /\ UNCHANGED <<subs, ledger>>

(* Fault: the cursor is set without comparing it. *)
AckReply_NoCompare(w) ==
  LET sub == subs[page[w].sub]
  IN  IF page[w].next > page[w].high THEN "ErrCursorConflict"
      ELSE IF page[w].epoch # epoch THEN "ErrReplayGap"
      ELSE IF sub.state # "live" THEN "ErrNotFound"
      ELSE "ok"

(* Fault: a prune since the pull goes unnoticed. *)
AckReply_AnyEpoch(w) ==
  LET sub == subs[page[w].sub]
  IN  IF page[w].next > page[w].high THEN "ErrCursorConflict"
      ELSE IF sub.state # "live" THEN "ErrNotFound"
      ELSE IF sub.acked \in {page[w].prior, page[w].next} THEN "ok"
      ELSE "ErrCursorConflict"

(* The answer of Ack, in the order of its checks. *)
AckReply(w) ==
  LET sub == subs[page[w].sub]
  IN  IF page[w].next > page[w].high THEN "ErrCursorConflict"
      ELSE IF page[w].epoch # epoch THEN "ErrReplayGap"
      ELSE IF sub.state # "live" THEN "ErrNotFound"
      ELSE IF sub.acked \in {page[w].prior, page[w].next} THEN "ok"
      ELSE "ErrCursorConflict"

(* Ack: a compare-and-swap of the cursor from the claim's prior to its     *)
(* next position.  The worker keeps its token and may present it again; a  *)
(* refusal changes nothing.                                                *)
Ack(w) ==
  /\ page[w] # NoPage
  /\ AckReply(w) = "ok"
  /\ LET x == page[w].sub
         moves == subs[x].acked # page[w].next
     IN  /\ page' = [page EXCEPT ![w].done = TRUE]
         /\ subs' = [subs EXCEPT ![x].acked = page[w].next]
         /\ ledger' = [ledger EXCEPT ![x] =
                         IF moves THEN @ \cup page[w].told ELSE @]

CursorNext ==
  \/ \E x \in Subscriptions, s \in Scopes, topics \in SUBSET Topics,
        kinds \in KindFilters, types \in SUBSET EventTypes,
        fromBeginning \in BOOLEAN, now \in Instants :
        Subscribe(x, s, topics, kinds, types, fromBeginning, now)
  \/ \E x \in Subscriptions, now \in Instants : RemoveSubscription(x, now)
  \/ \E w \in Workers, x \in Subscriptions, limit \in Limits, now \in Instants :
        Pull(w, x, limit, now)
  \/ \E w \in Workers : Ack(w)

HubInit == Init /\ CursorInit

HubNext ==
  \/ Next /\ UNCHANGED cursorVars
  \/ CursorNext /\ UNCHANGED vars

hubVars == <<vars, cursorVars>>

HubSpec == HubInit /\ [][HubNext]_hubVars

-----------------------------------------------------------------------------
(* Properties. *)

(* Every table, worker and history holds values of its own shape. *)
HubTypeOK == TypeOK /\ CursorTypeOK

(* "Pruned positions are reported as gaps, not silently skipped"           *)
(* (docs/hub.md:110): each position a cursor has passed since the          *)
(* subscription was created was told exactly once, in an acknowledged      *)
(* page, nothing beyond the cursor was, no cursor passes the stream, and   *)
(* no position was told as lost ("unavailable", retention.go:768).         *)
CursorAccounted ==
  \A x \in Subscriptions :
     /\ {y.pos : y \in ledger[x]} = subs[x].start + 1 .. subs[x].acked
     /\ subs[x].acked <= HighWater(subs[x].scope)
     /\ \A y \in ledger[x] : y.what # "unavailable"
     /\ \A y, z \in ledger[x] : y.pos = z.pos => y = z

(* An entry that is still retained and that a cursor has passed was        *)
(* delivered, or reported with a reason that is true of an entry (Pull,    *)
(* subscription.go:485-499); it was not written off as pruned, and no      *)
(* entry the filters match was reported as filtered.                       *)
NothingRetainedIsMissed ==
  \A x \in Subscriptions : \A p \in pubs[subs[x].scope] : \A y \in ledger[x] :
     y.pos = p.seq =>
       /\ y.what \in {"delivered", "filtered", "archived", "expired"}
       /\ y.what = "filtered" <=>
            \/ p.topic \notin subs[x].topics
            \/ p.kind \notin subs[x].kinds
            \/ /\ p.kind = "event"
               /\ subs[x].types # {}
               /\ p.type \notin subs[x].types

(* A cursor moves forward only, for a live subscription only, and never    *)
(* by an acknowledgement whose page was overtaken by a prune: everything   *)
(* the page delivered is still retained when it is acknowledged ("another  *)
(* advance is a conflict", subscription.go:557).                           *)
AckIsSound ==
  [][\A x \in Subscriptions :
       subs[x].state # "absent" /\ subs'[x].acked # subs[x].acked =>
         /\ subs'[x].acked > subs[x].acked
         /\ subs[x].state = "live"
         /\ \A y \in ledger'[x] \ ledger[x] :
               IF y.what = "pruned" THEN y.pos \in pruned[subs[x].scope]
               ELSE y.pos \in Retained(subs[x].scope)]_hubVars

(* "Repeating a successful ack with the same token returns the current     *)
(* cursor" (subscription.go:556): a worker whose acknowledgement succeeded *)
(* and whose cursor has not moved since is not refused when it repeats it. *)
AckCanBeRepeated ==
  \A w \in Workers :
     /\ page[w] # NoPage
     /\ page[w].done
     /\ subs[page[w].sub].state = "live"
     /\ subs[page[w].sub].acked = page[w].next
     => AckReply(w) = "ok"

=============================================================================
