----------------------------- MODULE HubStream -----------------------------
(***************************************************************************)
(* The publication stream of the hub: messages and their revisions, pins   *)
(* and votes (message.go, vote.go), typed events (event.go), and retention *)
(* (retention.go).  Each operation but pruning is one write transaction,   *)
(* hence one action.  PruneHub plans in a read transaction of its own and  *)
(* deletes in a later write transaction, so it is two actions with other   *)
(* processes' transactions between them.                                   *)
(*                                                                         *)
(* An entry is named by its scope and its sequence number (the random      *)
(* entry id is one to one with them), a message by the sequence number of  *)
(* its first revision.  Payloads, source references and correlations carry *)
(* no control and are left out; so are replays, which change nothing.      *)
(***************************************************************************)
EXTENDS HubTopic, FiniteSets

CONSTANTS
  Scopes,           \* repository scopes, ordered like their ids
  ScopeOf,          \* the scope each topic belongs to
  Keys,             \* idempotency keys callers use
  NoKey,            \* "no idempotency key"
  NoType,           \* the event type of a message
  VoteValues,       \* votes actors cast: 1, -1, or 0 to clear
  Cutoffs,          \* cutoffs a prune can be asked for
  Operators,        \* processes that prune
  NoPlan,           \* an operator that has no plan in hand
  PruneBatchLimit,  \* publications one prune may delete
  MaxSequence,      \* bound: last sequence number of a scope
  MaxEpoch,         \* bound: prunes that commit
  MaxPins           \* bound: pin transitions of one revision

ASSUME ScopesAssumption == Scopes \subseteq Nat /\ ScopeOf \in [Topics -> Scopes]
ASSUME StreamAssumption ==
  /\ Cutoffs \subseteq Nat
  /\ VoteValues \subseteq {-1, 0, 1}
  /\ PruneBatchLimit \in Nat \ {0}
  /\ NoKey \notin Keys
  /\ NoType \notin EventTypes

VARIABLES
  next,      \* scope_counters.next_sequence
  pubs,      \* publications, with their message_revisions or event_entries row
  heads,     \* message_heads
  votes,     \* message_votes
  pinAudit,  \* message_pin_audit, numbered per revision
  idem,      \* publication_idempotency
  tomb,      \* pruned_idempotency
  pruned,    \* positions covered by pruned_ranges
  low,       \* repo_scopes.low_water_sequence
  epoch,     \* hub_meta.retention_epoch
  plan,      \* what each operator's PlanHubPrune returned
  keyed      \* history: every entry ever published under a key

tables == <<next, pubs, heads, votes, pinAudit, idem, tomb, pruned, low, epoch>>
streamVars == <<next, pubs, heads, votes, pinAudit, idem, tomb, pruned, low,
                epoch, plan, keyed>>

Publication ==
  [topic : Topics, seq : Nat, actor : Actors, kind : {"message", "event"},
   at : Instants, expires : Expiries, key : Keys \cup {NoKey},
   type : EventTypes \cup {NoType},
   of : Nat,    \* message: its first revision; event: the entry it corrects, or 0
   rev : Nat]   \* message: revision number; event: 0

HeadRow == [msg : Nat, topic : Topics, author : Actors, rev : Nat, entry : Nat,
            pinned : BOOLEAN]
Vote == [msg : Nat, rev : Nat, actor : Actors, value : {-1, 1}]
PinRow == [msg : Nat, rev : Nat, n : Nat, pinned : BOOLEAN]
KeyRow == [topic : Topics, actor : Actors, key : Keys]
KeyedRow == [topic : Topics, actor : Actors, key : Keys, entry : Nat]

StreamInit ==
  /\ next = [s \in Scopes |-> 1]
  /\ pubs = [s \in Scopes |-> {}]
  /\ heads = [s \in Scopes |-> {}]
  /\ votes = [s \in Scopes |-> {}]
  /\ pinAudit = [s \in Scopes |-> {}]
  /\ idem = [s \in Scopes |-> {}]
  /\ tomb = [s \in Scopes |-> {}]
  /\ pruned = [s \in Scopes |-> {}]
  /\ low = [s \in Scopes |-> 0]
  /\ epoch = 0
  /\ plan = [o \in Operators |-> NoPlan]
  /\ keyed = [s \in Scopes |-> {}]

HighWater(s) == next[s] - 1
Retained(s) == {p.seq : p \in pubs[s]}
Messages(s) == {p \in pubs[s] : p.kind = "message"}
Events(s) == {p \in pubs[s] : p.kind = "event"}
Revisions(s, m) == {p \in Messages(s) : p.of = m}

-----------------------------------------------------------------------------
(* Publishing. *)

(* Fault: tombstones of pruned keys are not consulted. *)
KeyFree_ForgetsPruned(s, t, a, k) ==
  \A r \in idem[s] : ~(r.topic = t /\ r.actor = a /\ r.key = k)

(* replayMessage and its twin in PublishEvent: a key that was used answers *)
(* with the entry it made, a pruned one with ErrReplayGap; only a free key *)
(* lets the transaction go on.                                             *)
KeyFree(s, t, a, k) ==
  /\ \A r \in idem[s] : ~(r.topic = t /\ r.actor = a /\ r.key = k)
  /\ \A r \in tomb[s] : ~(r.topic = t /\ r.actor = a /\ r.key = k)

(* Fault: the number after the last retained entry instead of the counter. *)
NextSequence_AfterLastRetained(s) ==
  1 + (CHOOSE q \in Retained(s) \cup {0} : \A r \in Retained(s) : r <= q)

(* nextSequence: the scope's counter, which never goes back. *)
NextSequence(s) == next[s]

(* The counter advances; the publications row and the idempotency row of a key. *)
AppendEntry(s, p) ==
  LET row == [topic |-> p.topic, actor |-> p.actor, key |-> p.key,
              entry |-> p.seq]
      new == IF p.key = NoKey THEN {} ELSE {row}
  IN  /\ p.seq <= MaxSequence
      /\ next' = [next EXCEPT ![s] = p.seq + 1]
      /\ pubs' = [pubs EXCEPT ![s] = @ \cup {p}]
      /\ idem' = [idem EXCEPT ![s] = @ \cup new]
      /\ keyed' = [keyed EXCEPT ![s] = @ \cup new]

(* The live deadline of the entry a head points at. *)
EntryLive(s, entry, now) ==
  \A p \in pubs[s] : p.seq = entry => p.expires > now

PostMessage(a, t, k, deadline, now) ==
  LET s == ScopeOf[t]
      q == NextSequence(s)
  IN  /\ KeyFree(s, t, a, k)
      /\ TopicActive(t, now)
      /\ DeadlineAhead(deadline, now)
      /\ AppendEntry(s, [topic |-> t, seq |-> q, actor |-> a,
                         kind |-> "message", at |-> now, expires |-> deadline,
                         key |-> k, type |-> NoType, of |-> q, rev |-> 1])
      /\ heads' = [heads EXCEPT ![s] = @ \cup
                     {[msg |-> q, topic |-> t, author |-> a, rev |-> 1,
                       entry |-> q, pinned |-> FALSE]}]
      /\ UNCHANGED <<votes, pinAudit, tomb, pruned, low, epoch, plan>>

(* Fault: the pin of a message is carried over to its new revision. *)
NextHead_KeepsPin(h, entry) == [h EXCEPT !.rev = @ + 1, !.entry = entry]

(* The head after a revision: "a revision clears the pin". *)
NextHead(h, entry) ==
  [h EXCEPT !.rev = @ + 1, !.entry = entry, !.pinned = FALSE]

(* ReviseMessage: by the author, against the revision it read, before the   *)
(* current revision expires.                                                *)
ReviseMessage(a, t, h, expected, k, change, deadline, now) ==
  LET s == ScopeOf[t]
      q == NextSequence(s)
      old == CHOOSE p \in pubs[s] : p.seq = h.entry
  IN  /\ KeyFree(s, t, a, k)
      /\ TopicActive(t, now)
      /\ h.topic = t
      /\ h.author = a
      /\ h.rev = expected
      /\ EntryLive(s, h.entry, now)
      /\ change => DeadlineAhead(deadline, now)
      /\ AppendEntry(s, [topic |-> t, seq |-> q, actor |-> a,
                         kind |-> "message", at |-> now,
                         expires |-> IF change THEN deadline ELSE old.expires,
                         key |-> k, type |-> NoType, of |-> h.msg,
                         rev |-> expected + 1])
      /\ heads' = [heads EXCEPT ![s] = (@ \ {h}) \cup {NextHead(h, q)}]
      /\ UNCHANGED <<votes, pinAudit, tomb, pruned, low, epoch, plan>>

PinRows(s, m, r) == {x \in pinAudit[s] : x.msg = m /\ x.rev = r}

(* PinMessage: by the owner or a maintainer, against the policy generation  *)
(* and the revision read; only a real transition is audited.                *)
PinMessage(a, t, generation, h, expected, pin, now) ==
  LET s == ScopeOf[t]
      n == Cardinality(PinRows(s, h.msg, h.rev)) + 1
  IN  /\ TopicForWrite(a, t, generation)
      /\ TopicActive(t, now)
      /\ h.topic = t
      /\ h.rev = expected
      /\ EntryLive(s, h.entry, now)
      /\ h.pinned # pin
      /\ n <= MaxPins
      /\ heads' = [heads EXCEPT ![s] = (@ \ {h}) \cup {[h EXCEPT !.pinned = pin]}]
      /\ pinAudit' = [pinAudit EXCEPT ![s] = @ \cup
                        {[msg |-> h.msg, rev |-> h.rev, n |-> n, pinned |-> pin]}]
      /\ UNCHANGED <<next, pubs, votes, idem, tomb, pruned, low, epoch, plan, keyed>>

CastVote(m, r, a, value) ==
  IF value = 0 THEN {}
  ELSE {[msg |-> m, rev |-> r, actor |-> a, value |-> value]}

(* VoteMessage: one vote per actor on the current revision; 0 clears it. *)
VoteMessage(a, t, h, expected, value, now) ==
  LET s == ScopeOf[t]
      mine == {v \in votes[s] : v.msg = h.msg /\ v.rev = expected /\ v.actor = a}
  IN  /\ TopicActive(t, now)
      /\ h.topic = t
      /\ h.rev = expected
      /\ EntryLive(s, h.entry, now)
      /\ votes' = [votes EXCEPT ![s] = (@ \ mine) \cup
                                                CastVote(h.msg, expected, a, value)]
      /\ UNCHANGED <<next, pubs, heads, pinAudit, idem, tomb, pruned, low,
                     epoch, plan, keyed>>

(* PublishEvent: the type must be registered and not retired, a corrected  *)
(* entry must be an event of the same topic.  (The checks PublishEvent     *)
(* makes before it opens its transaction are repeated in it.)              *)
PublishEvent(a, t, e, k, corrects, deadline, now) ==
  LET s == ScopeOf[t]
  IN  /\ KeyFree(s, t, a, k)
      /\ TopicActive(t, now)
      /\ schemas[t][e] = "live"
      /\ DeadlineAhead(deadline, now)
      /\ corrects = 0 \/ \E p \in Events(s) : p.seq = corrects /\ p.topic = t
      /\ AppendEntry(s, [topic |-> t, seq |-> NextSequence(s), actor |-> a,
                         kind |-> "event", at |-> now, expires |-> deadline,
                         key |-> k, type |-> e, of |-> corrects, rev |-> 0])
      /\ UNCHANGED <<heads, votes, pinAudit, tomb, pruned, low, epoch, plan>>

-----------------------------------------------------------------------------
(* Retention: which entries a cutoff makes eligible, and in which groups.  *)

(* event_roots: the entries related to p by corrections, in either         *)
(* direction and at any distance.                                          *)
ClosedUnderCorrection(s, C) ==
  \A p, q \in Events(s) : p.of = q.seq => (p \in C <=> q \in C)

(* Fault: only direct corrections are related. *)
Chain_OneStep(s, p) ==
  {q \in Events(s) : q = p \/ q.of = p.seq \/ p.of = q.seq}

Chain(s, p) ==
  {q \in Events(s) :
     \A C \in SUBSET Events(s) :
        p \in C /\ ClosedUnderCorrection(s, C) => q \in C}

(* old_heads: unpinned messages no revision of which is recent. *)
OldHead(s, h, cutoff) ==
  /\ ~h.pinned
  /\ \A p \in Revisions(s, h.msg) : p.at < cutoff

OldMessages(s, cutoff) ==
  {Revisions(s, h.msg) : h \in {x \in heads[s] : OldHead(s, x, cutoff)}}

(* Fault: the current revision of a message that stays is taken too. *)
OldRevisions_TakesHead(s, cutoff) ==
  {{p} : p \in {x \in Messages(s) :
                  \E h \in heads[s] : /\ h.msg = x.of
                                      /\ ~OldHead(s, h, cutoff)
                                      /\ x.at < cutoff}}

(* Old revisions of a message that stays, one group each. *)
OldRevisions(s, cutoff) ==
  {{p} : p \in {x \in Messages(s) :
                  \E h \in heads[s] : /\ h.msg = x.of
                                      /\ ~OldHead(s, h, cutoff)
                                      /\ h.entry # x.seq
                                      /\ x.at < cutoff}}

(* Fault: a chain is old as soon as one of its events is. *)
OldChains_OneOldEvent(s, cutoff) ==
  {Chain(s, p) : p \in {x \in Events(s) : x.at < cutoff}}

OldChains(s, cutoff) ==
  {Chain(s, p) : p \in {x \in Events(s) : \A q \in Chain(s, x) : q.at < cutoff}}

Groups(s, cutoff) ==
  OldMessages(s, cutoff) \cup OldRevisions(s, cutoff) \cup OldChains(s, cutoff)

(* Groups are taken whole, by scope and by their first position, until the *)
(* next one would pass the batch limit.                                    *)
NotAfter(r, G, s, H) ==
  \/ r < s
  \/ r = s /\ \E p \in G : \A q \in H : p.seq <= q.seq

UpTo(s, H, cutoff) ==
  UNION {UNION {{<<r, p.seq>> : p \in G} :
                  G \in {G \in Groups(r, cutoff) : NotAfter(r, G, s, H)}} :
           r \in Scopes}

Batch(s, cutoff) ==
  UNION {G \in Groups(s, cutoff) :
           Cardinality(UpTo(s, G, cutoff)) <= PruneBatchLimit}

(* candidateDigest: what a planned entry shows besides itself - the head   *)
(* of its message, the votes and the pin transitions of its revision.      *)
PlanRow(s, p) ==
  [scope |-> s, pub |-> p,
   head |-> {h \in heads[s] : p.kind = "message" /\ h.msg = p.of},
   votes |-> {v \in votes[s] : p.kind = "message" /\ v.msg = p.of /\ v.rev = p.rev},
   pins |-> {x \in pinAudit[s] : p.kind = "message" /\ x.msg = p.of /\ x.rev = p.rev}]

PruneRows(cutoff) ==
  UNION {{PlanRow(s, p) : p \in Batch(s, cutoff)} : s \in Scopes}

PrunePlan(cutoff) ==
  [cutoff |-> cutoff, rows |-> PruneRows(cutoff),
   more |-> \E s \in Scopes : UNION Groups(s, cutoff) # Batch(s, cutoff)]

(* PruneHub up to its plan: the cutoff lies in the past, and an empty plan  *)
(* ends the prune.  PlanHubPrune runs in a read transaction of its own.     *)
PlanPrune(o, cutoff, now) ==
  /\ plan[o] = NoPlan
  /\ cutoff < now
  /\ PruneRows(cutoff) # {}
  /\ plan' = [plan EXCEPT ![o] = PrunePlan(cutoff)]
  /\ UNCHANGED <<tables, keyed>>

(* Fault: the first entry left lies on the mark, not above it. *)
LowWater_OnFirstLeft(s, left) ==
  IF left = {} THEN HighWater(s) ELSE CHOOSE q \in left : \A r \in left : q <= r

(* The low-water mark only rises: to just below the first entry left, or to *)
(* the high-water mark when none is.                                        *)
LowWater(s, left) ==
  LET mark == IF left = {} THEN HighWater(s)
              ELSE (CHOOSE q \in left : \A r \in left : q <= r) - 1
  IN  IF mark > low[s] THEN mark ELSE low[s]

Tombstones(gone) ==
  {[topic |-> p.topic, actor |-> p.actor, key |-> p.key] :
     p \in {x \in gone : x.key # NoKey}}

(* Fault: the entries are compared, what hangs on them is not. *)
PlanStands_EntriesOnly(o) ==
  {r.pub : r \in plan[o].rows} = {r.pub : r \in PruneRows(plan[o].cutoff)}

(* The plan computed again in the write transaction is the one reported. *)
PlanStands(o) == plan[o] = PrunePlan(plan[o].cutoff)

(* The write transaction of PruneHub: the plan is computed again and must   *)
(* not have changed; then entries go with everything that hangs on them,    *)
(* and tombstones, pruned positions, low-water mark and epoch stay behind.  *)
CommitPrune(o, now) ==
  LET cutoff == plan[o].cutoff
      gone == [s \in Scopes |-> Batch(s, cutoff)]
      IsGone(s, e) == \E p \in gone[s] : p.seq = e
      RevGone(s, m, r) == \E p \in gone[s] : p.kind = "message" /\ p.of = m /\ p.rev = r
  IN  /\ plan[o] # NoPlan
      /\ cutoff < now
      /\ PlanStands(o)
      /\ epoch < MaxEpoch
      /\ \A s \in Scopes : Tombstones(gone[s]) \cap tomb[s] = {}
      /\ tomb' = [s \in Scopes |-> tomb[s] \cup Tombstones(gone[s])]
      /\ idem' = [s \in Scopes |-> {r \in idem[s] : ~IsGone(s, r.entry)}]
      /\ votes' = [s \in Scopes |-> {v \in votes[s] : ~RevGone(s, v.msg, v.rev)}]
      /\ pinAudit' = [s \in Scopes |-> {x \in pinAudit[s] : ~RevGone(s, x.msg, x.rev)}]
      /\ heads' = [s \in Scopes |->
                     {h \in heads[s] : ~(OldHead(s, h, cutoff) /\ IsGone(s, h.entry))}]
      /\ pubs' = [s \in Scopes |-> pubs[s] \ gone[s]]
      /\ pruned' = [s \in Scopes |-> pruned[s] \cup {p.seq : p \in gone[s]}]
      /\ low' = [s \in Scopes |->
                   IF gone[s] = {} THEN low[s]
                   ELSE LowWater(s, {p.seq : p \in pubs[s] \ gone[s]})]
      /\ epoch' = epoch + 1
      /\ plan' = [plan EXCEPT ![o] = NoPlan]
      /\ UNCHANGED <<next, keyed>>

(* ErrBusyRetryable, a failed backup or a crash: the transaction rolls back. *)
PruneFails(o) ==
  /\ plan[o] # NoPlan
  /\ plan' = [plan EXCEPT ![o] = NoPlan]
  /\ UNCHANGED <<tables, keyed>>

-----------------------------------------------------------------------------

Publish ==
  \E a \in Actors, t \in Topics, k \in Keys \cup {NoKey},
     deadline \in Expiries, now \in Instants :
     \/ PostMessage(a, t, k, deadline, now)
     \/ \E h \in heads[ScopeOf[t]], change \in BOOLEAN :
           ReviseMessage(a, t, h, h.rev, k, change, deadline, now)
     \/ \E e \in EventTypes, c \in {0} \cup Retained(ScopeOf[t]) :
           PublishEvent(a, t, e, k, c, deadline, now)

Curate ==
  \E a \in Actors, t \in Topics, now \in Instants :
     \E h \in heads[ScopeOf[t]] :
        \/ \E pin \in BOOLEAN :
              PinMessage(a, t, topic[t].generation, h, h.rev, pin, now)
        \/ \E value \in VoteValues : VoteMessage(a, t, h, h.rev, value, now)

Retain ==
  \E o \in Operators :
     \/ \E cutoff \in Cutoffs, now \in Instants : PlanPrune(o, cutoff, now)
     \/ \E now \in Instants : CommitPrune(o, now)
     \/ PruneFails(o)

StreamNext == Publish \/ Curate \/ Retain

Init == TopicInit /\ StreamInit

Next ==
  \/ TopicNext /\ UNCHANGED streamVars
  \/ StreamNext /\ UNCHANGED topicVars

vars == <<topicVars, streamVars>>

Spec == Init /\ [][Next]_vars

-----------------------------------------------------------------------------
(* Properties. *)

PlanRows == [scope : Scopes, pub : Publication, head : SUBSET HeadRow,
             votes : SUBSET Vote, pins : SUBSET PinRow]

StreamTypeOK ==
  /\ next \in [Scopes -> Nat \ {0}]
  /\ pubs \in [Scopes -> SUBSET Publication]
  /\ heads \in [Scopes -> SUBSET HeadRow]
  /\ votes \in [Scopes -> SUBSET Vote]
  /\ pinAudit \in [Scopes -> SUBSET PinRow]
  /\ idem \in [Scopes -> SUBSET KeyedRow]
  /\ tomb \in [Scopes -> SUBSET KeyRow]
  /\ pruned \in [Scopes -> SUBSET Nat]
  /\ low \in [Scopes -> Nat]
  /\ epoch \in Nat
  /\ plan \in [Operators -> {NoPlan} \cup
                 [cutoff : Cutoffs, rows : SUBSET PlanRows, more : BOOLEAN]]
  /\ keyed \in [Scopes -> SUBSET KeyedRow]

(* Every table holds rows of its own shape, across both modules. *)
TypeOK == TopicTypeOK /\ StreamTypeOK

(* Every position a scope ever issued is held by exactly one retained      *)
(* entry or lies in a pruned range, never both and never neither, and the  *)
(* low-water mark covers pruned positions only.  A reader that walks the   *)
(* positions can therefore tell "pruned" from "lost" (addMissingGaps,      *)
(* retention.go:768, has "unavailable" for the latter).                    *)
PositionsAccounted ==
  \A s \in Scopes :
     /\ Retained(s) \cup pruned[s] = 1 .. HighWater(s)
     /\ Retained(s) \cap pruned[s] = {}
     /\ \A p, q \in pubs[s] : p.seq = q.seq => p = q
     /\ low[s] <= HighWater(s)
     /\ 1 .. low[s] \subseteq pruned[s]

(* A retry never publishes twice: over the whole life of the hub, prunes   *)
(* included, a (topic, actor, key) triple makes at most one entry          *)
(* (replayMessage, message.go:247; PublishEvent, event.go:589).            *)
OneEntryPerKey ==
  \A s \in Scopes : \A x, y \in keyed[s] :
     x.topic = y.topic /\ x.actor = y.actor /\ x.key = y.key
       => x.entry = y.entry

(* A key is never forgotten and never says the wrong thing: it leads to    *)
(* its entry while that is retained, and to a tombstone (ErrReplayGap)     *)
(* exactly once that is pruned (retention.go:132-148).                     *)
KeysRemembered ==
  \A s \in Scopes :
     /\ idem[s] = {x \in keyed[s] : x.entry \in Retained(s)}
     /\ tomb[s] = {[topic |-> x.topic, actor |-> x.actor, key |-> x.key] :
                     x \in {y \in keyed[s] : y.entry \in pruned[s]}}

(* message_heads and message_revisions tell the same story after any mix   *)
(* of revisions and prunes: a head points at the retained entry that holds *)
(* its newest revision, by its author; and every retained revision still   *)
(* has its head.                                                           *)
HeadsCoherent ==
  \A s \in Scopes :
     /\ \A h \in heads[s] :
           /\ \E p \in Revisions(s, h.msg) :
                 /\ p.seq = h.entry /\ p.rev = h.rev
                 /\ p.topic = h.topic /\ p.actor = h.author
           /\ \A p \in Revisions(s, h.msg) : p.rev < h.rev \/ p.seq = h.entry
     /\ \A p \in Messages(s) : \E h \in heads[s] : h.msg = p.of

(* Nothing a prune leaves behind refers to something it took: votes and    *)
(* pin transitions belong to retained revisions, and an event that         *)
(* corrects another is never kept without it (retention.go:244-252).       *)
NoOrphans ==
  \A s \in Scopes :
     /\ \A x \in votes[s] \cup pinAudit[s] :
           \E p \in Revisions(s, x.msg) : p.rev = x.rev
     /\ \A p \in Events(s) :
           p.of # 0 => \E q \in Events(s) :
                          q.seq = p.of /\ q.topic = p.topic /\ q.seq < p.seq

(* A pin is always attributed and never outlives its revision: a head is   *)
(* pinned exactly when the last transition audited for its current         *)
(* revision says so ("a revision clears the pin", message.go:483).         *)
PinsAttributed ==
  \A s \in Scopes : \A h \in heads[s] :
     h.pinned <=> \E x \in PinRows(s, h.msg, h.rev) :
                    x.pinned /\ \A y \in PinRows(s, h.msg, h.rev) : y.n <= x.n

(* What a prune deletes is what some operator's plan showed, as the plan   *)
(* showed it: a vote, a pin or a revision that came after the plan was     *)
(* made keeps the prune from committing (candidateDigest, retention.go).   *)
PruneIsAsPlanned ==
  [][epoch' # epoch =>
       \E o \in Operators :
          /\ plan[o] # NoPlan
          /\ \A s \in Scopes :
                LET rows == {r \in plan[o].rows : r.scope = s}
                IN  /\ pubs[s] \ pubs'[s] = {r.pub : r \in rows}
                    /\ votes[s] \ votes'[s] = UNION {r.votes : r \in rows}
                    /\ pinAudit[s] \ pinAudit'[s] = UNION {r.pins : r \in rows}
                    /\ heads[s] \ heads'[s] \subseteq UNION {r.head : r \in rows}]_vars

(* What a prune may not touch: an entry at or after the cutoff, the        *)
(* current revision of a pinned message or of a message with a recent      *)
(* revision, an event that corrects or is corrected by a recent one.       *)
(* "Pinned messages, newer chains ... are preserved" (docs/hub.md:124).    *)
PruneSpares ==
  [][\A s \in Scopes : \A p \in pubs[s] \ pubs'[s] :
       \E o \in Operators :
          LET cutoff == plan[o].cutoff
          IN  /\ plan[o] # NoPlan
              /\ p.at < cutoff
              /\ \A h \in heads[s] :
                    h.entry = p.seq =>
                      /\ ~h.pinned
                      /\ \A q \in Revisions(s, h.msg) : q.at < cutoff
              /\ \A q \in Events(s) :
                    p.kind = "event" /\ (q.of = p.seq \/ p.of = q.seq)
                      => q.at < cutoff]_vars

(* The record of the past only grows: sequence numbers are issued once and *)
(* in order, pruned positions, tombstones and low-water marks stay, and    *)
(* whenever entries disappear the epoch moves.                             *)
HistoryOnlyGrows ==
  [][/\ \A s \in Scopes :
          /\ next'[s] >= next[s]
          /\ \A p \in pubs'[s] \ pubs[s] : p.seq >= next[s]
          /\ pruned[s] \subseteq pruned'[s]
          /\ tomb[s] \subseteq tomb'[s]
          /\ low'[s] >= low[s]
          /\ ~(pubs[s] \subseteq pubs'[s]) => epoch' = epoch + 1]_vars

(* The stream, with all its tables, is the one HubFeed promises: positions  *)
(* are issued one by one and never again, and leave the readable entries    *)
(* only into the pruned ranges, whatever revisions, pins, votes, retries    *)
(* and concurrent plans do meanwhile.                                       *)
Feed == INSTANCE HubFeed WITH
          issued <- [s \in Scopes |-> HighWater(s)],
          held <- [s \in Scopes |-> Retained(s)],
          gone <- pruned

ImplementsFeed == Feed!Spec

=============================================================================
