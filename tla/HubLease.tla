------------------------------ MODULE HubLease ------------------------------
(***************************************************************************)
(* Topic leases (internal/hubstore/lease.go, commands/hub_lease.go) and    *)
(* the workers that coordinate by them.  A lease operation is one write    *)
(* transaction; its reply reaches the worker in a later step, or never.    *)
(*                                                                         *)
(* Leases of two topics share nothing, so there is one topic.  Deadlines   *)
(* are kept as the time left until them, 0 once they have passed, and Tick *)
(* lets time pass for everybody alike: the processes share one machine     *)
(* clock, assumed here not to step back.  The generation of a lease only   *)
(* tells the first INSERT from later UPDATEs and is left out.              *)
(***************************************************************************)
EXTENDS Integers

CONSTANTS
  Workers,  \* processes that coordinate by the lease
  ActorOf,  \* the actor each worker presents
  Tokens,   \* bearer tokens
  Nobody,   \* no actor and no token: NULL columns
  Lives     \* lifetimes workers ask for

ASSUME LeaseAssumption ==
  /\ Lives \subseteq Nat \ {0}
  /\ Nobody \notin Tokens
  /\ \A w \in Workers : ActorOf[w] # Nobody

VARIABLES
  open,   \* the topic is active
  lease,  \* the row of topic_leases
  job     \* what each worker does and believes

vars == <<open, lease, job>>

Phases == {"idle", "waiting", "admitted", "working", "renewing", "stopped"}

Free == [actor |-> Nobody, token |-> Nobody, left |-> 0]
Idle == [phase |-> "idle", token |-> Nobody, left |-> 0, reply |-> 0]

(* Every row and worker has a value of its shape; columns are NULL together. *)
TypeOK ==
  /\ open \in BOOLEAN
  /\ lease \in [actor : {ActorOf[w] : w \in Workers} \cup {Nobody},
                token : Tokens \cup {Nobody}, left : Nat]
  /\ lease.actor = Nobody <=> lease.token = Nobody   \* the CHECK of the table
  /\ job \in [Workers -> [phase : Phases,
                          token : Tokens \cup {Nobody},
                          left : Nat,      \* until the deadline it works by
                          reply : Nat]]    \* until the deadline on its way to it

Init ==
  /\ open = TRUE
  /\ lease = Free
  /\ job = [w \in Workers |-> Idle]

-----------------------------------------------------------------------------
(* The store. *)

(* Fault: a lease is held until it is released. *)
Held_PastDeadline == lease.actor # Nobody

(* Fault: nothing is ever held. *)
Held_Never == FALSE

(* leaseRow: "held" up to the deadline. *)
Held == lease.actor # Nobody /\ lease.left > 0

(* Fault: the actor alone is compared. *)
IsBearer_AnyToken(w) == lease.actor = ActorOf[w]

(* The WHERE clause of RenewLease and ReleaseLease. *)
IsBearer(w) == lease.actor = ActorOf[w] /\ lease.token = job[w].token

(* A random token is one nobody holds and the row does not either. *)
Fresh(k) == k # lease.token /\ \A w \in Workers : job[w].token # k

(* AcquireLease, polled by "lease acquire --wait" until it is granted. *)
AcquireLease(w, k, life) ==
  /\ job[w].phase = "waiting"
  /\ open
  /\ ~Held
  /\ Fresh(k)
  /\ lease' = [actor |-> ActorOf[w], token |-> k, left |-> life]
  /\ job' = [job EXCEPT ![w] = [phase |-> "admitted", token |-> k,
                                left |-> 0, reply |-> life]]
  /\ UNCHANGED open

(* RenewLease: the deadline becomes now plus the lifetime asked for, which  *)
(* can be sooner than the deadline it replaces.                             *)
RenewLease(w, life) ==
  /\ job[w].phase = "working"
  /\ open
  /\ Held
  /\ IsBearer(w)
  /\ lease' = [lease EXCEPT !.left = life]
  /\ job' = [job EXCEPT ![w] = [@ EXCEPT !.phase = "renewing", !.reply = life]]
  /\ UNCHANGED open

(* ReleaseLease: allowed on an archived topic and after the deadline. *)
ReleaseLease(w) ==
  /\ job[w].phase = "stopped"
  /\ IsBearer(w)
  /\ lease' = Free
  /\ job' = [job EXCEPT ![w] = Idle]
  /\ UNCHANGED open

-----------------------------------------------------------------------------
(* The workers: docs/hub.md, "Participants must stop work if renewal fails *)
(* or the deadline passes".                                                *)

StartWaiting(w) ==
  /\ job[w].phase = "idle"
  /\ job' = [job EXCEPT ![w].phase = "waiting"]
  /\ UNCHANGED <<open, lease>>

(* --wait runs out, or the topic is archived. *)
GiveUp(w) ==
  /\ job[w].phase = "waiting"
  /\ job' = [job EXCEPT ![w] = Idle]
  /\ UNCHANGED <<open, lease>>

(* The reply to an acquisition or a renewal, with the deadline in it. *)
Reply(w) ==
  /\ job[w].phase \in {"admitted", "renewing"}
  /\ job' = [job EXCEPT ![w] = [@ EXCEPT !.phase = "working",
                                         !.left = job[w].reply, !.reply = 0]]
  /\ UNCHANGED <<open, lease>>

(* The work is done, the renewal failed or was refused: work stops before   *)
(* the lease is released.                                                   *)
Stop(w) ==
  /\ job[w].phase \in {"working", "renewing"}
  /\ job' = [job EXCEPT ![w] = [Idle EXCEPT !.phase = "stopped",
                                            !.token = job[w].token]]
  /\ UNCHANGED <<open, lease>>

(* The worker dies, or its reply is lost before it starts: the token cannot *)
(* be recovered.  A release that is refused ends the same way.              *)
LoseToken(w) ==
  /\ job[w].phase \notin {"idle", "waiting"}
  /\ job' = [job EXCEPT ![w] = Idle]
  /\ UNCHANGED <<open, lease>>

(* The topic is archived, reaches its deadline, or is restored. *)
ArchiveOrRestore ==
  /\ open' = ~open
  /\ UNCHANGED <<lease, job>>

Earlier(n) == IF n = 0 THEN 0 ELSE n - 1

Tick ==
  /\ lease' = [lease EXCEPT !.left = Earlier(@)]
  /\ job' = [w \in Workers |-> [job[w] EXCEPT !.left = Earlier(@),
                                              !.reply = Earlier(@)]]
  /\ UNCHANGED open

Acquire(w) == \E k \in Tokens, life \in Lives : AcquireLease(w, k, life)
Renew(w) == \E life \in Lives : RenewLease(w, life)

Next ==
  \/ \E w \in Workers :
        \/ StartWaiting(w) \/ GiveUp(w) \/ Acquire(w) \/ Renew(w)
        \/ Reply(w) \/ Stop(w) \/ ReleaseLease(w) \/ LoseToken(w)
  \/ ArchiveOrRestore
  \/ Tick

Spec == Init /\ [][Next]_vars

(* Time passes, and a waiting worker polls every 250 ms (hub_lease.go:53):  *)
(* an acquisition that stays possible is made.  Nothing else is fair: a     *)
(* holder may neither renew, nor stop, nor release.                         *)
FairSpec ==
  /\ Spec
  /\ WF_vars(Tick)
  /\ \A w \in Workers : WF_vars(Acquire(w))

-----------------------------------------------------------------------------
(* Properties. *)

(* A worker that keeps to the deadline it knows works now. *)
Working(w) == job[w].phase \in {"working", "renewing"} /\ job[w].left > 0

(* RenewLease sets the deadline to now plus any lifetime, so a renewal can  *)
(* bring it forward.  Until the reply arrives the worker goes on by the     *)
(* later deadline it had; here the new one has passed meanwhile.            *)
Overtaken(w) == Working(w) /\ job[w].phase = "renewing" /\ job[w].reply = 0

(* "Coordinate one participating worker per topic" (hub_lease.go:16):       *)
(* workers that stop when a renewal fails or their deadline passes never    *)
(* work at the same time, whatever replies are late or lost ("A job that    *)
(* continues past its lease deadline can overlap its successor", and only   *)
(* such a job; docs/hub.md:63).  At any time all workers at work but one    *)
(* are past the deadline of the lease they had, and none of these has been  *)
(* told so: each asked to renew for less than it had left and awaits the    *)
(* reply.                                                                   *)
WorkersExclude ==
  \A w, v \in Workers : Working(w) /\ Working(v) /\ ~Overtaken(w) /\ ~Overtaken(v) => w = v

(* "Old tokens cannot affect the new holder" (docs/hub.md:55): a lease that *)
(* has not run out changes hands, or is given up, by nobody but the worker  *)
(* that holds its token; and then that worker has stopped.                  *)
LiveLeaseIsKept ==
  [][Held /\ lease'.token # lease.token =>
       \E w \in Workers :
          /\ job[w].token = lease.token
          /\ job[w].phase = "stopped"
          /\ job'[w] # job[w]]_vars

(* "A lost token cannot be recovered; its lease becomes available at its    *)
(* deadline" (docs/hub.md:58): while the topic stays active, a worker does  *)
(* not wait forever unless others keep being admitted or keep renewing.     *)
WaitingEnds ==
  \A w \in Workers :
     job[w].phase = "waiting" ~>
        \/ job[w].phase # "waiting"
        \/ ~open
        \/ \E v \in Workers : job[v].phase \in {"admitted", "renewing"}
=============================================================================
