--------------------------- MODULE TaskCheckpoints ---------------------------
(***************************************************************************)
(* Task tracks (internal/commands: task_checkpoint_state.go, task.go,      *)
(* task_durability.go): checkpoint events, the task.json they are          *)
(* projected to, and the commands that write either.                       *)
(*                                                                         *)
(* A checkpoint holds the lock of its task's workspace from its reload to  *)
(* the rewrite of task.json.  Adding a slice and refreshing the index      *)
(* rewrite task.json from a copy loaded earlier, without the lock.  Git    *)
(* merges bring events that another clone wrote.                           *)
(*                                                                         *)
(* Tasks are numbers, which stand for the order of their lock identities.  *)
(* A target is a base slice, 1, 2, ..., or Closeout, the track's X00; its  *)
(* state is what taskTargetTerminal makes of stage and decision.           *)
(***************************************************************************)
EXTENDS Integers, FiniteSets

CONSTANTS
  Tasks,
  Locks,        \* the identities that are locked: tasks and, above, changes
  Procs,
  Nobody,       \* the free lock
  MaxSlices,    \* bound: slices of a task
  MaxMerges,    \* bound: events that a merge brings
  MaxJobs       \* bound: commands started

ASSUME TaskAssumption ==
  /\ Locks \subseteq Nat /\ IsFiniteSet(Locks)
  /\ Tasks \subseteq Locks /\ Tasks # {}
  /\ Nobody \notin Procs /\ Procs # {}
  /\ MaxSlices \in Nat \ {0}
  /\ MaxMerges \in Nat /\ MaxJobs \in Nat

Closeout == 0
Slices == 1..MaxSlices
Targets == {Closeout} \cup Slices
States == {"open", "done"}

VARIABLES
  events,   \* checkpoints/*.json of every task
  json,     \* task.json of every task
  holder,   \* who holds each lock
  proc,     \* what each process does
  jobs      \* commands started

tvars == <<events, json, holder, proc, jobs>>

(* after: supersedes_checkpoint_ids; merged: history, another clone wrote it *)
Event == [id : Nat, task : Tasks, target : Targets, state : States,
          after : SUBSET Nat, merged : BOOLEAN]
(* durable: Durability.Disposition is set *)
Manifest == [slices : SUBSET Slices, state : [Targets -> States], durable : BOOLEAN]
NewTrack == [slices |-> {1}, state |-> [t \in Targets |-> "open"], durable |-> FALSE]

(* wants: the locks of the job; named: --supersedes; after: what the event  *)
(* will supersede; mem: the manifest in memory.                             *)
Jobs == {"none", "checkpoint", "add", "refresh", "graph", "link"}
Steps == {"idle", "lock", "read", "publish", "project", "write"}
Work == [job : Jobs, step : Steps, wants : SUBSET Locks, task : Tasks, target : Targets,
         state : States, named : SUBSET Nat, after : SUBSET Nat, mem : Manifest]
Idle == [job |-> "none", step |-> "idle", wants |-> {}, task |-> CHOOSE t \in Tasks : TRUE,
         target |-> Closeout, state |-> "open", named |-> {}, after |-> {}, mem |-> NewTrack]

-----------------------------------------------------------------------------
(* resolveTaskCheckpointTargetHeads: timestamps order nothing. *)
Of(t, target) == {e \in events : e.task = t /\ e.target = target}
Unsuperseded(es) == {e \in es : \A f \in es : e.id \notin f.after}
Heads(t, target) == Unsuperseded(Of(t, target))
HeadIds(t, target) == {e.id : e \in Heads(t, target)}
Conflicted(t, target) == \E e, f \in Heads(t, target) : e # f

(* Fault: the projection is taken at its word. *)
Reconciled_Trusting(t) == json[t]

(* reconcileTaskManifestLifecycle: a single head wins over task.json, a     *)
(* conflict leaves what task.json says.  Durability is not restored.        *)
Reconciled(t) ==
  [json[t] EXCEPT !.state = [target \in Targets |->
     IF (target = Closeout \/ target \in json[t].slices)
          /\ Of(t, target) # {} /\ ~Conflicted(t, target)
     THEN (CHOOSE e \in Heads(t, target) : TRUE).state
     ELSE @[target]]]

(* validateTaskDurabilityCheckpoint *)
MayCheckpoint(m, target, state) ==
  IF target = Closeout
  THEN state = "done" /\ \A s \in m.slices : m.state[s] = "done"
  ELSE target \in m.slices

(* checkpointSupersedesForWrite: without --supersedes there is one head at  *)
(* most, with it every head is named.                                       *)
MaySupersede(t, target, named) ==
  IF named = {} THEN Cardinality(HeadIds(t, target)) <= 1
                ELSE named = HeadIds(t, target)

-----------------------------------------------------------------------------
At(p, job, step) == proc[p].job = job /\ proc[p].step = step
Held(p) == {l \in Locks : holder[l] = p}
(* taskMutationLeaseSet.Release *)
Released(p) == [l \in Locks |-> IF holder[l] = p THEN Nobody ELSE holder[l]]

(* The command returns, or is killed: the system ends its locks.            *)
Ends(p) == proc' = [proc EXCEPT ![p] = Idle] /\ holder' = Released(p)

(* Fault: locks are taken as the owner lists them. *)
NextLocks_Unsorted(p) == proc[p].wants \ Held(p)

(* acquireTaskMutations: in sorted order. *)
NextLocks(p) == {l \in proc[p].wants \ Held(p) : \A k \in proc[p].wants \ Held(p) : l <= k}

(* acquireTaskMutationIdentity: TryLock, again after every delay. *)
Acquire(p) ==
  /\ proc[p].step = "lock"
  /\ \E l \in NextLocks(p) :
       /\ holder[l] = Nobody
       /\ holder' = [holder EXCEPT ![l] = p]
       /\ proc' = IF proc[p].wants \subseteq Held(p) \cup {l}
                  THEN [proc EXCEPT ![p].step = "read"] ELSE proc
  /\ UNCHANGED <<events, json, jobs>>

-----------------------------------------------------------------------------
(* runTaskCheckpoint up to its lock: the preliminary load only refuses.     *)
(* --supersedes is given to resolve a conflict.                             *)
Checkpoint(p) ==
  /\ proc[p].step = "idle" /\ jobs < MaxJobs /\ jobs' = jobs + 1
  /\ \E t \in Tasks, target \in Targets, state \in States :
       /\ MayCheckpoint(Reconciled(t), target, state)
       /\ \E named \in {{}} \cup (IF Conflicted(t, target) THEN {HeadIds(t, target)} ELSE {}) :
            proc' = [proc EXCEPT ![p] = [Idle EXCEPT !.job = "checkpoint", !.step = "lock",
                       !.wants = {t}, !.task = t, !.target = target, !.state = state,
                       !.named = named]]
  /\ UNCHANGED <<events, json, holder>>

(* Fault: the lock is given up before the event is written. *)
KeepsLocks_TillRead(p) == holder' = Released(p)
(* deferred Release *)
KeepsLocks(p) == UNCHANGED holder

(* Fault: an event supersedes what the command line names. *)
Predecessors_Named(p) == proc[p].named
Predecessors(p) == HeadIds(proc[p].task, proc[p].target)

(* The reload under the lock, and what is refused then. *)
ReloadTrack(p) ==
  /\ At(p, "checkpoint", "read")
  /\ LET t == proc[p].task
         target == proc[p].target
         m == Reconciled(t)
     IN IF MayCheckpoint(m, target, proc[p].state)
             /\ MaySupersede(t, target, proc[p].named)
        THEN /\ proc' = [proc EXCEPT ![p] = [@ EXCEPT !.step = "publish", !.mem = m,
                                                 !.after = Predecessors(p)]]
             /\ KeepsLocks(p)
        ELSE Ends(p)
  /\ UNCHANGED <<events, json, jobs>>

NewId == Cardinality(events) + 1

(* writeTaskCheckpointRecord: a new file, or nothing. *)
PublishEvent(p) ==
  /\ At(p, "checkpoint", "publish")
  /\ events' = events \cup {[id |-> NewId, task |-> proc[p].task, target |-> proc[p].target,
                             state |-> proc[p].state, after |-> proc[p].after,
                             merged |-> FALSE]}
  /\ proc' = [proc EXCEPT ![p].step = "project"]
  /\ UNCHANGED <<json, holder, jobs>>

(* writeTaskManifest, from the manifest reloaded under the lock.            *)
ProjectEvent(p) ==
  /\ At(p, "checkpoint", "project")
  /\ LET w == proc[p]
     IN json' = [json EXCEPT ![w.task] =
                   [w.mem EXCEPT !.state[w.target] = w.state,
                                 !.durable = @ \/ w.target = Closeout]]
  /\ Ends(p)
  /\ UNCHANGED <<events, jobs>>

-----------------------------------------------------------------------------
(* nextTaskSliceOrdinal: the highest in memory, plus one. *)
NextOrdinal(m) == 1 + CHOOSE s \in m.slices : \A r \in m.slices : r <= s

(* runTaskSliceAdd, runTaskSync: load and reconcile, capture, rewrite.      *)
Load(p) ==
  /\ proc[p].step = "idle" /\ jobs < MaxJobs /\ jobs' = jobs + 1
  /\ \E t \in Tasks, job \in {"add", "refresh"} :
       /\ job = "add" => NextOrdinal(json[t]) \in Slices
       /\ proc' = [proc EXCEPT ![p] = [Idle EXCEPT !.job = job, !.step = "write",
                                                 !.task = t, !.mem = Reconciled(t)]]
  /\ UNCHANGED <<events, json, holder>>

AddSlice(p) ==
  /\ At(p, "add", "write")
  /\ LET m == proc[p].mem
     IN json' = [json EXCEPT ![proc[p].task] =
                   [m EXCEPT !.slices = @ \cup {NextOrdinal(m)}]]
  /\ Ends(p)
  /\ UNCHANGED <<events, jobs>>

Refresh(p) ==
  /\ At(p, "refresh", "write")
  /\ json' = [json EXCEPT ![proc[p].task] = proc[p].mem]
  /\ Ends(p)
  /\ UNCHANGED <<events, jobs>>

-----------------------------------------------------------------------------
(* A kill, or an error after the locks: "do not retry blindly". *)
Kill(p) == /\ proc[p].step # "idle" /\ Ends(p)
           /\ UNCHANGED <<events, json, jobs>>

Incoming(t, target, state, view) ==
  [id |-> NewId, task |-> t, target |-> target, state |-> state,
   after |-> {e.id : e \in Unsuperseded(view)}, merged |-> TRUE]

(* External: git brings a checkpoint that another clone wrote when it had   *)
(* some of these events, with the predecessors of each.                     *)
Merge ==
  /\ Cardinality({e \in events : e.merged}) < MaxMerges
  /\ \E t \in Tasks, target \in Slices, state \in States :
       \E view \in SUBSET Of(t, target) :
         /\ \A e \in view : \A f \in Of(t, target) : f.id \in e.after => f \in view
         /\ Cardinality(Unsuperseded(view)) <= 1
         /\ events' = events \cup {Incoming(t, target, state, view)}
  /\ UNCHANGED <<json, holder, proc, jobs>>

TrackStep(p) ==
  \/ Acquire(p) \/ ReloadTrack(p) \/ PublishEvent(p) \/ ProjectEvent(p)
  \/ AddSlice(p) \/ Refresh(p)

TrackInit ==
  /\ events = {}
  /\ json = [t \in Tasks |-> NewTrack]
  /\ holder = [l \in Locks |-> Nobody]
  /\ proc = [p \in Procs |-> Idle]
  /\ jobs = 0

-----------------------------------------------------------------------------
(* Checkpoint commands of one clone never leave two heads on a target: what *)
(* a command supersedes is read and published under one lock, so only a     *)
(* merge makes a conflict.                                                  *)
CommandsNeverFork ==
  \A e, f \in events :
    e.task = f.task /\ e.target = f.target /\ ~e.merged /\ ~f.merged /\ e # f
      => ~(e \in Heads(e.task, e.target) /\ f \in Heads(e.task, e.target))

(* When a closeout is published, each slice its command read in task.json   *)
(* has ended: no checkpoint of this clone reopens one in between.  A merge  *)
(* may, and so may a conflict a merge has left: a conflicted slice counts *)
(* as what task.json said last.                                             *)
CloseoutFollowsWork ==
  [][\A p \in Procs : At(p, "checkpoint", "publish") /\ proc'[p].step = "project"
                        /\ proc[p].target = Closeout =>
       \A s \in proc[p].mem.slices :
         \E e \in Heads(proc[p].task, s) : e.state = "done" \/ e.merged]_<<events, proc>>

=============================================================================
