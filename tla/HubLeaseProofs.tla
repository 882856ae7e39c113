--------------------------- MODULE HubLeaseProofs ---------------------------
(***************************************************************************)
(* Leases exclude, for every set of workers, tokens and lifetimes.         *)
(*                                                                         *)
(* Exclusion is not inductive by itself.  What carries it is that a worker *)
(* which works by the last deadline it was told, or is about to learn of a *)
(* deadline still ahead, holds the token of the row, and the row's         *)
(* deadline is no sooner than that one; so the row is held and nobody else *)
(* is admitted.  A worker awaiting the reply to a renewal counts by the    *)
(* deadline on its way to it, not by the one it still works by: a renewal  *)
(* that brings the deadline forward leaves only the former covered.        *)
(***************************************************************************)
EXTENDS HubLease, TLAPS

(* A token is held by one worker. *)
OneHolderPerToken ==
  \A w, v \in Workers :
     job[w].token = job[v].token /\ job[w].token # Nobody => w = v

(* A worker's deadline still ahead is covered by the row. *)
Covered(w, until) ==
  /\ lease.token # Nobody
  /\ job[w].token = lease.token
  /\ until <= lease.left

WorksBy(w) == job[w].phase = "working" /\ job[w].left > 0

LearnsOf(w) == job[w].phase \in {"admitted", "renewing"} /\ job[w].reply > 0

DeadlinesCovered ==
  \A w \in Workers :
     /\ WorksBy(w) => Covered(w, job[w].left)
     /\ LearnsOf(w) => Covered(w, job[w].reply)

LeaseInv == OneHolderPerToken /\ DeadlinesCovered

(* The time left shrinks for everybody alike. *)
LEMMA EarlierIsMonotone ==
  ASSUME NEW m \in Nat, NEW n \in Nat
  PROVE  /\ Earlier(m) \in Nat
         /\ m <= n => Earlier(m) <= Earlier(n)
         /\ Earlier(m) > 0 => m > 0
  BY DEF Earlier

-----------------------------------------------------------------------------

(* Every step of the store, of a worker or of time keeps the types. *)
LEMMA NextKeepsTypes ==
  ASSUME TypeOK, [Next]_vars
  PROVE  TypeOK'
  <1> USE DEF TypeOK, Phases
  <1>1. ASSUME NEW w \in Workers,
               StartWaiting(w) \/ GiveUp(w) \/ Reply(w) \/ Stop(w) \/ LoseToken(w)
        PROVE  TypeOK'
    <2>1. CASE StartWaiting(w)
      BY <2>1 DEF StartWaiting
    <2>2. CASE GiveUp(w)
      BY <2>2 DEF GiveUp, Idle
    <2>3. CASE Reply(w)
      BY <2>3 DEF Reply
    <2>4. CASE Stop(w)
      BY <2>4 DEF Stop, Idle
    <2>5. CASE LoseToken(w)
      BY <2>5 DEF LoseToken, Idle
    <2> QED BY <1>1, <2>1, <2>2, <2>3, <2>4, <2>5
  <1>2. ASSUME NEW w \in Workers, NEW k \in Tokens, NEW life \in Lives,
               AcquireLease(w, k, life)
        PROVE  TypeOK'
    BY <1>2, LeaseAssumption DEF AcquireLease
  <1>3. ASSUME NEW w \in Workers, NEW life \in Lives, RenewLease(w, life)
        PROVE  TypeOK'
    BY <1>3, LeaseAssumption DEF RenewLease
  <1>4. ASSUME NEW w \in Workers, ReleaseLease(w)
        PROVE  TypeOK'
    BY <1>4 DEF ReleaseLease, Free, Idle
  <1>5. CASE ArchiveOrRestore
    BY <1>5 DEF ArchiveOrRestore
  <1>6. CASE Tick
    <2>1. lease' = [actor |-> lease.actor, token |-> lease.token,
                    left |-> Earlier(lease.left)]
      BY <1>6 DEF Tick
    <2>2. /\ Earlier(lease.left) \in Nat
          /\ \A w \in Workers : /\ Earlier(job[w].left) \in Nat
                                /\ Earlier(job[w].reply) \in Nat
      BY EarlierIsMonotone
    <2>3. lease' \in [actor : {ActorOf[w] : w \in Workers} \cup {Nobody},
                      token : Tokens \cup {Nobody}, left : Nat]
      BY <2>1, <2>2
    <2>4. ASSUME NEW w \in Workers
          PROVE  job'[w] \in [phase : Phases, token : Tokens \cup {Nobody},
                              left : Nat, reply : Nat]
      <3>1. job[w] \in [phase : Phases, token : Tokens \cup {Nobody},
                        left : Nat, reply : Nat]
        OBVIOUS
      <3>2. job'[w] = [job[w] EXCEPT !.left = Earlier(job[w].left),
                                     !.reply = Earlier(job[w].reply)]
        BY <1>6 DEF Tick
      <3> HIDE DEF TypeOK, Phases
      <3> QED BY <2>2, <3>1, <3>2
    <2>5. job' = [w \in Workers |-> job'[w]]
      BY <1>6 DEF Tick
    <2>6. open' \in BOOLEAN
      BY <1>6 DEF Tick
    <2> QED BY <2>1, <2>3, <2>4, <2>5, <2>6
  <1>7. CASE UNCHANGED vars
    BY <1>7 DEF vars
  <1> QED BY <1>1, <1>2, <1>3, <1>4, <1>5, <1>6, <1>7 DEF Next, Acquire, Renew

(* The columns of a lease are NULL together and workers hold well-formed    *)
(* beliefs (topic_leases, schema.go).                                       *)
THEOREM TypeCorrect == Spec => []TypeOK
  <1>1. Init => TypeOK
    BY DEF Init, TypeOK, Free, Idle, Phases
  <1>2. TypeOK /\ [Next]_vars => TypeOK'
    BY NextKeepsTypes
  <1> QED BY <1>1, <1>2, PTL DEF Spec

-----------------------------------------------------------------------------

(* Whoever is admitted finds no lease held, so no other worker's deadline   *)
(* is ahead.                                                                *)
LEMMA AcquireKeepsInv ==
  ASSUME TypeOK, LeaseInv, NEW w \in Workers, NEW k \in Tokens, NEW life \in Lives,
         AcquireLease(w, k, life)
  PROVE  LeaseInv'
  <1> USE DEF LeaseInv, AcquireLease
  <1>0. life \in Nat /\ k # Nobody
    BY LeaseAssumption
  <1>1. ASSUME NEW v \in Workers
        PROVE  ~WorksBy(v) /\ ~LearnsOf(v)
    BY DEF TypeOK, DeadlinesCovered, Covered, WorksBy, LearnsOf, Held
  <1>2. OneHolderPerToken'
    BY <1>0 DEF TypeOK, OneHolderPerToken, Fresh
  <1>3. DeadlinesCovered'
    BY <1>0, <1>1 DEF TypeOK, DeadlinesCovered, Covered, WorksBy, LearnsOf
  <1> QED BY <1>2, <1>3

(* A renewal, longer or shorter, makes the row's deadline the one on its    *)
(* way to the renewer, and nobody else held the row's token.                *)
LEMMA RenewKeepsInv ==
  ASSUME TypeOK, LeaseInv, NEW w \in Workers, NEW life \in Lives,
         RenewLease(w, life)
  PROVE  LeaseInv'
  <1> USE DEF LeaseInv, RenewLease
  <1>0. life \in Nat
    BY LeaseAssumption
  <1>1. lease.token # Nobody /\ job[w].token = lease.token
    BY DEF TypeOK, Held, IsBearer
  <1>2. ASSUME NEW v \in Workers, v # w
        PROVE  ~WorksBy(v) /\ ~LearnsOf(v)
    BY <1>1, <1>2 DEF OneHolderPerToken, DeadlinesCovered, Covered
  <1>3. OneHolderPerToken'
    BY DEF TypeOK, OneHolderPerToken
  <1>4. DeadlinesCovered'
    BY <1>0, <1>1, <1>2 DEF TypeOK, DeadlinesCovered, Covered, WorksBy, LearnsOf
  <1> QED BY <1>3, <1>4

(* A lease is released by a stopped worker, and its token has no other      *)
(* holder: it covers nobody's deadline.                                     *)
LEMMA ReleaseKeepsInv ==
  ASSUME TypeOK, LeaseInv, NEW w \in Workers, ReleaseLease(w)
  PROVE  LeaseInv'
  <1> USE DEF LeaseInv, ReleaseLease, Idle
  <1>1. ASSUME NEW v \in Workers
        PROVE  ~WorksBy(v) /\ ~LearnsOf(v)
    BY DEF OneHolderPerToken, DeadlinesCovered, Covered, WorksBy, LearnsOf, IsBearer
  <1>2. OneHolderPerToken'
    BY DEF TypeOK, OneHolderPerToken
  <1>3. DeadlinesCovered'
    BY <1>1 DEF TypeOK, DeadlinesCovered, Covered, WorksBy, LearnsOf
  <1> QED BY <1>2, <1>3

(* A worker that starts or stops waiting, stops, or loses its token works   *)
(* no more than before; a reply carries a deadline that was covered.        *)
LEMMA WorkerKeepsInv ==
  ASSUME TypeOK, LeaseInv, NEW w \in Workers,
         StartWaiting(w) \/ GiveUp(w) \/ Reply(w) \/ Stop(w) \/ LoseToken(w)
  PROVE  LeaseInv'
  <1>1. lease' = lease
    BY DEF StartWaiting, GiveUp, Reply, Stop, LoseToken
  <1>2. ASSUME NEW v \in Workers, v # w
        PROVE  job'[v] = job[v]
    BY <1>2 DEF TypeOK, StartWaiting, GiveUp, Reply, Stop, LoseToken
  <1>3. /\ job'[w].token \in {job[w].token, Nobody}
        /\ job'[w].phase \in {"idle", "waiting", "stopped"} \/ Reply(w)
    <2>1. CASE StartWaiting(w)
      BY <2>1 DEF TypeOK, StartWaiting
    <2>2. CASE GiveUp(w)
      BY <2>2 DEF TypeOK, GiveUp, Idle
    <2>3. CASE Reply(w)
      BY <2>3 DEF TypeOK, Reply
    <2>4. CASE Stop(w)
      BY <2>4 DEF TypeOK, Stop, Idle
    <2>5. CASE LoseToken(w)
      BY <2>5 DEF TypeOK, LoseToken, Idle
    <2> QED BY <2>1, <2>2, <2>3, <2>4, <2>5
  <1>5. OneHolderPerToken'
    BY <1>2, <1>3 DEF LeaseInv, OneHolderPerToken
  <1>6. /\ WorksBy(w)' => Covered(w, job[w].left)'
        /\ LearnsOf(w)' => Covered(w, job[w].reply)'
    <2>1. CASE Reply(w)
      BY <1>1, <2>1 DEF TypeOK, Reply, LeaseInv, DeadlinesCovered, Covered,
                        WorksBy, LearnsOf
    <2>2. CASE ~Reply(w)
      BY <1>3, <2>2 DEF WorksBy, LearnsOf
    <2> QED BY <2>1, <2>2
  <1>7. DeadlinesCovered'
    BY <1>1, <1>2, <1>6 DEF LeaseInv, DeadlinesCovered, Covered, WorksBy, LearnsOf
  <1> QED BY <1>5, <1>7 DEF LeaseInv

(* Time passes for the row and the workers alike. *)
LEMMA TickKeepsInv ==
  ASSUME TypeOK, LeaseInv, Tick
  PROVE  LeaseInv'
  <1>0. /\ lease.left \in Nat
        /\ \A w \in Workers : job[w].left \in Nat /\ job[w].reply \in Nat
    BY DEF TypeOK
  <1>1. /\ lease'.token = lease.token
        /\ lease'.left = Earlier(lease.left)
        /\ \A w \in Workers : /\ job'[w].phase = job[w].phase
                              /\ job'[w].token = job[w].token
                              /\ job'[w].left = Earlier(job[w].left)
                              /\ job'[w].reply = Earlier(job[w].reply)
    BY DEF TypeOK, Tick
  <1>2. OneHolderPerToken'
    BY <1>1 DEF LeaseInv, OneHolderPerToken
  <1>3. DeadlinesCovered'
    BY <1>0, <1>1, EarlierIsMonotone
       DEF LeaseInv, DeadlinesCovered, Covered, WorksBy, LearnsOf
  <1> QED BY <1>2, <1>3 DEF LeaseInv

(* The inductive step, one case per action. *)
LEMMA NextKeepsInv ==
  ASSUME TypeOK, LeaseInv, [Next]_vars
  PROVE  LeaseInv'
  <1>1. CASE \E w \in Workers :
                StartWaiting(w) \/ GiveUp(w) \/ Reply(w) \/ Stop(w) \/ LoseToken(w)
    BY <1>1, WorkerKeepsInv
  <1>2. CASE \E w \in Workers : Acquire(w)
    BY <1>2, AcquireKeepsInv DEF Acquire
  <1>3. CASE \E w \in Workers : Renew(w)
    BY <1>3, RenewKeepsInv DEF Renew
  <1>4. CASE \E w \in Workers : ReleaseLease(w)
    BY <1>4, ReleaseKeepsInv
  <1>5. CASE ArchiveOrRestore \/ UNCHANGED vars
    BY <1>5 DEF ArchiveOrRestore, vars, LeaseInv, OneHolderPerToken,
                DeadlinesCovered, Covered, WorksBy, LearnsOf
  <1>6. CASE Tick
    BY <1>6, TickKeepsInv
  <1> QED BY <1>1, <1>2, <1>3, <1>4, <1>5, <1>6 DEF Next

(* Workers that keep to their deadlines never work at the same time but for *)
(* those that shortened their own lease and have not been told, whatever    *)
(* lifetimes are asked for (lease.go AcquireLease, RenewLease,              *)
(* ReleaseLease): the exception is in the property, nothing is assumed.     *)
THEOREM LeasesExclude == Spec => []WorkersExclude
  <1>1. Init => LeaseInv
    BY DEF Init, Idle, LeaseInv, OneHolderPerToken, DeadlinesCovered, WorksBy,
           LearnsOf
  <1>2. TypeOK /\ LeaseInv /\ [Next]_vars => LeaseInv'
    BY NextKeepsInv
  <1>3. ASSUME TypeOK, LeaseInv PROVE WorkersExclude
    <2>1. ASSUME NEW w \in Workers, Working(w), ~Overtaken(w)
          PROVE  WorksBy(w) \/ LearnsOf(w)
      BY <1>3, <2>1 DEF TypeOK, Working, Overtaken, WorksBy, LearnsOf
    <2> QED
      BY <1>3, <2>1 DEF LeaseInv, OneHolderPerToken, DeadlinesCovered, Covered,
                        WorkersExclude
  <1> QED BY <1>1, <1>2, <1>3, TypeCorrect, PTL DEF Spec

(* An old token takes nothing from a lease that has not run out, however    *)
(* workers renew: only the worker that holds its token ends it early        *)
(* (the WHERE clause of ReleaseLease, and AcquireLease's refusal).          *)
THEOREM LiveLeasesAreKept == Spec => LiveLeaseIsKept
  <1> DEFINE Kept == Held /\ lease'.token # lease.token =>
                       \E w \in Workers : /\ job[w].token = lease.token
                                          /\ job[w].phase = "stopped"
                                          /\ job'[w] # job[w]
  <1>1. ASSUME TypeOK, Next, Held, lease'.token # lease.token
        PROVE  \E w \in Workers : /\ job[w].token = lease.token
                                  /\ job[w].phase = "stopped"
                                  /\ job'[w] # job[w]
    <2>1. PICK w \in Workers : ReleaseLease(w)
      BY <1>1 DEF Next, StartWaiting, GiveUp, Acquire, AcquireLease, Renew,
                  RenewLease, Reply, Stop, LoseToken, ArchiveOrRestore, Tick, TypeOK
    <2> QED BY <1>1, <2>1 DEF ReleaseLease, IsBearer, Idle, TypeOK
  <1>2. TypeOK /\ [Next]_vars => [Kept]_vars
    BY <1>1
  <1> QED BY <1>2, TypeCorrect, PTL DEF Spec, LiveLeaseIsKept
=============================================================================
