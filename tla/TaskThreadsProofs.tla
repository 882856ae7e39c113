-------------------------- MODULE TaskThreadsProofs --------------------------
(***************************************************************************)
(* Proofs about task tracks and threads, for every number of tasks,        *)
(* processes, slices and lanes and for runs of any length.                 *)
(***************************************************************************)
EXTENDS TaskThreads, FiniteSetTheorems, WellFoundedInduction, TLAPS

(* What holds of a process by itself: the locks it has at each step, taken  *)
(* in order, and what its job has read.                                     *)
Fits(p) ==
  /\ proc[p].step = "idle" <=> proc[p].job = "none"
  /\ proc[p].step \in {"idle", "write"} => Held(p) = {}
  /\ proc[p].step \in {"read", "publish", "project"} => Held(p) = proc[p].wants
  /\ proc[p].step = "lock" =>
       /\ Held(p) \subseteq proc[p].wants
       /\ \A h \in Held(p), l \in proc[p].wants \ Held(p) : h < l
  /\ proc[p].job = "checkpoint" =>
       /\ proc[p].step \in {"lock", "read", "publish", "project"}
       /\ proc[p].wants = {proc[p].task}
  /\ proc[p].job = "graph" =>
       /\ proc[p].step \in {"lock", "read", "publish"}
       /\ proc[p].wants = {Change} \cup edit[p].saw
  /\ proc[p].job \in {"add", "refresh", "link"} => proc[p].step = "write"
  /\ proc[p].job = "add" => NextOrdinal(proc[p].mem) \in Slices
  /\ \A i \in proc[p].after : i \in 1..Cardinality(events)

(* An event supersedes earlier ones only. *)
Numbered ==
  \A e \in events : /\ e.id \in 1..Cardinality(events)
                    /\ \A i \in e.after : i < e.id

(* TypeOK without what Fits says of the locks. *)
Typed ==
  /\ events \subseteq Event /\ IsFiniteSet(events)
  /\ json \in [Tasks -> Manifest]
  /\ holder \in [Locks -> Procs \cup {Nobody}]
  /\ proc \in [Procs -> Work]
  /\ jobs \in 0..MaxJobs
  /\ links \subseteq Tasks
  /\ definition \in Definition
  /\ edit \in [Procs -> Edit]
  /\ linkings \in 0..MaxLinks

Base == Typed /\ Numbered /\ \A p \in Procs : Fits(p)

-----------------------------------------------------------------------------
(* Finite sets of numbers, heads, and what a load makes of a manifest. *)

(* A finite set of naturals that is not empty has a greatest member. *)
LEMMA GreatestNatural ==
  ASSUME NEW S, S \subseteq Nat, IsFiniteSet(S), S # {}
  PROVE  \E m \in S : \A n \in S : n <= m
<1> DEFINE Above(m) == {n \in S : m < n}
           T == {Above(m) : m \in S}
<1>1. IsWellFoundedOn(StrictSubsetOrdering(S), SUBSET S)
  BY FS_StrictSubsetOrderingWellFounded, FS_FiniteSubsetsOfFinite
<1>2. T \subseteq SUBSET S /\ T # {}
  OBVIOUS
<1>3. PICK x \in T : \A y \in T : <<y, x>> \notin StrictSubsetOrdering(S)
  <2> HIDE DEF T
  <2> QED BY <1>1, <1>2, WFMin
<1>4. PICK m \in S : x = Above(m)
  BY <1>3
<1>5. ASSUME NEW n \in S, ~(n <= m) PROVE FALSE
  <2>0. S \subseteq Int /\ n \in Int /\ m \in Int
    <3>1. S \subseteq Int
      OBVIOUS
    <3>2. n \in S /\ m \in S
      OBVIOUS
    <3> QED BY <3>1, <3>2
  <2>1. m < n
    BY <2>0, <1>5
  <2>a. Above(n) \subseteq Above(m)
    <3>1. \A k \in S : k \in Int /\ (n < k => m < k)
      BY <2>0, <2>1
    <3> QED BY <3>1
  <2>b. n \in Above(m) /\ n \notin Above(n)
    BY <2>0, <2>1, <1>5
  <2>2. Above(n) \subseteq x /\ n \in x /\ n \notin Above(n)
    BY <2>a, <2>b, <1>4
  <2>3. <<Above(n), x>> \in StrictSubsetOrdering(S)
    BY <2>2, <1>4 DEF StrictSubsetOrdering
  <2> QED BY <2>3, <1>3
<1> QED BY <1>5

(* A target with events has a head. *)
LEMMA HeadExists ==
  ASSUME Typed, Numbered, NEW t \in Tasks, NEW target \in Targets, Of(t, target) # {}
  PROVE  \E e \in Heads(t, target) : TRUE
<1> DEFINE ids == {e.id : e \in Of(t, target)}
<1>1. \A e \in Of(t, target) : e \in events /\ e.id \in Nat /\ e.after \subseteq Nat
  BY DEF Of, Typed, Event
<1>2. ids \subseteq Nat /\ ids # {}
  BY <1>1
<1>3. IsFiniteSet(ids)
  <2>1. IsFiniteSet(Of(t, target))
    BY FS_Subset DEF Typed, Of
  <2> DEFINE f == [e \in Of(t, target) |-> e.id]
  <2>2. f \in Surjection(Of(t, target), ids)
    BY DEF Surjection
  <2> QED BY <2>1, <2>2, FS_Surjection
<1>4. PICK m \in ids : \A n \in ids : n <= m
  BY <1>2, <1>3, GreatestNatural
<1>5. PICK e \in Of(t, target) : e.id = m
  OBVIOUS
<1>6. ASSUME NEW f \in Of(t, target), e.id \in f.after PROVE FALSE
  <2>1. f.id \in ids
    OBVIOUS
  <2>2. f.id <= e.id
    BY <2>1, <1>4, <1>5
  <2>3. e.id < f.id
    BY <1>6, <1>1 DEF Numbered
  <2> QED BY <2>2, <2>3, <1>1
<1>7. e \in Heads(t, target)
  BY <1>6 DEF Heads, Unsuperseded
<1> QED BY <1>7

LEMMA ReconciledTyped ==
  ASSUME Typed, Numbered, NEW t \in Tasks
  PROVE  /\ Reconciled(t) \in Manifest
         /\ Reconciled(t).slices = json[t].slices
         /\ Reconciled(t).durable = json[t].durable
         /\ \A target \in Targets :
              Reconciled(t).state[target] =
                IF /\ target = Closeout \/ target \in json[t].slices
                   /\ Of(t, target) # {} /\ ~Conflicted(t, target)
                THEN (CHOOSE e \in Heads(t, target) : TRUE).state
                ELSE json[t].state[target]
<1>1. json[t] \in Manifest
  BY DEF Typed
<1> DEFINE st == [target \in Targets |->
     IF (target = Closeout \/ target \in json[t].slices)
          /\ Of(t, target) # {} /\ ~Conflicted(t, target)
     THEN (CHOOSE e \in Heads(t, target) : TRUE).state
     ELSE json[t].state[target]]
<1>2. Reconciled(t) = [json[t] EXCEPT !.state = st]
  BY <1>1 DEF Reconciled, Manifest
<1>3. st \in [Targets -> States]
  <2>1. ASSUME NEW target \in Targets PROVE st[target] \in States
    <3>1. CASE Of(t, target) # {}
      <4>1. PICK e \in Heads(t, target) : TRUE
        BY <3>1, HeadExists
      <4>2. (CHOOSE f \in Heads(t, target) : TRUE) \in Heads(t, target)
        BY <4>1
      <4>3. \A f \in Heads(t, target) : f.state \in States
        BY DEF Heads, Unsuperseded, Of, Typed, Event
      <4>4. json[t].state[target] \in States
        BY <1>1 DEF Manifest
      <4> QED BY <4>2, <4>3, <4>4
    <3>2. CASE Of(t, target) = {}
      BY <3>2, <1>1 DEF Manifest
    <3> QED BY <3>1, <3>2
  <2> QED BY <2>1
<1>4. \A target \in Targets : st[target] =
     IF (target = Closeout \/ target \in json[t].slices)
          /\ Of(t, target) # {} /\ ~Conflicted(t, target)
     THEN (CHOOSE e \in Heads(t, target) : TRUE).state
     ELSE json[t].state[target]
  OBVIOUS
<1> HIDE DEF st
<1>5. [json[t] EXCEPT !.state = st] \in Manifest
  BY <1>1, <1>3 DEF Manifest
<1>6. /\ [json[t] EXCEPT !.state = st].state = st
      /\ [json[t] EXCEPT !.state = st].slices = json[t].slices
      /\ [json[t] EXCEPT !.state = st].durable = json[t].durable
  BY <1>1 DEF Manifest
<1> QED BY <1>2, <1>4, <1>5, <1>6

-----------------------------------------------------------------------------
(* What one process does leaves the others' discipline alone. *)
LEMMA OthersFit ==
  ASSUME Base, NEW p \in Procs, NEW w \in Work, proc' = [proc EXCEPT ![p] = w],
         \A q \in Procs \ {p} : Held(q)' = Held(q) /\ edit'[q] = edit[q],
         Cardinality(events) \in Nat, Cardinality(events') \in Nat,
         Cardinality(events) <= Cardinality(events'),
         Fits(p)'
  PROVE  proc' \in [Procs -> Work] /\ \A q \in Procs : Fits(q)'
<1>1. proc' \in [Procs -> Work]
  BY DEF Base, Typed
<1>2. ASSUME NEW q \in Procs \ {p} PROVE Fits(q)'
  <2>1. proc'[q] = proc[q] /\ Held(q)' = Held(q) /\ edit'[q] = edit[q] /\ Fits(q)
    BY DEF Base, Typed
  <2>2. \A i \in proc[q].after : i \in 1..Cardinality(events')
    BY <2>1 DEF Fits
  <2> QED BY <2>1, <2>2 DEF Fits
<1> QED BY <1>1, <1>2

LEMMA IdleTyped == NewTrack \in Manifest /\ Idle \in Work
<1>1. NewTrack \in Manifest
  BY TaskAssumption DEF NewTrack, Manifest, Slices, States
<1>2. (CHOOSE t \in Tasks : TRUE) \in Tasks
  BY TaskAssumption
<1> HIDE DEF NewTrack
<1> QED BY <1>1, <1>2 DEF Idle, Work, Jobs, Steps, Targets, States

(* One process changes its own state and files other than events. *)
LEMMA StepFrame ==
  ASSUME Base, NEW p \in Procs, NEW w \in Work, proc' = [proc EXCEPT ![p] = w],
         holder' \in [Locks -> Procs \cup {Nobody}],
         \A q \in Procs \ {p} : Held(q)' = Held(q) /\ edit'[q] = edit[q],
         events' = events,
         json' \in [Tasks -> Manifest], jobs' \in 0..MaxJobs, links' \subseteq Tasks,
         definition' \in Definition, edit' \in [Procs -> Edit],
         linkings' \in 0..MaxLinks,
         Fits(p)'
  PROVE  Base'
<1>1. Cardinality(events) \in Nat
  BY FS_CardinalityType DEF Base, Typed
<1>a. Cardinality(events') = Cardinality(events)
  OBVIOUS
<1>b. Cardinality(events') \in Nat /\ Cardinality(events) <= Cardinality(events')
  BY <1>1, <1>a
<1>2. proc' \in [Procs -> Work] /\ \A q \in Procs : Fits(q)'
  BY <1>1, <1>b, OthersFit
<1>3. Numbered'
  BY DEF Base, Numbered
<1>4. Typed'
  BY <1>2 DEF Base, Typed
<1> QED BY <1>2, <1>3, <1>4 DEF Base

(* A command that returns or is killed has nothing left. *)
LEMMA EndsEffect ==
  ASSUME Base, NEW p \in Procs, Ends(p)
  PROVE  /\ proc' = [proc EXCEPT ![p] = Idle]
         /\ holder' \in [Locks -> Procs \cup {Nobody}]
         /\ \A q \in Procs \ {p} : Held(q)' = Held(q)
         /\ Held(p)' = {}
         /\ Fits(p)'
<1>1. proc' = [proc EXCEPT ![p] = Idle]
  BY DEF Ends
<1>2. holder' = [l \in Locks |-> IF holder[l] = p THEN Nobody ELSE holder[l]]
  BY DEF Ends, Released
<1>3. holder' \in [Locks -> Procs \cup {Nobody}]
  BY <1>2 DEF Base, Typed
<1>4. \A q \in Procs \ {p} : Held(q)' = Held(q)
  BY <1>2, TaskAssumption DEF Held
<1>5. Held(p)' = {}
  BY <1>2, TaskAssumption DEF Held
<1>6. proc'[p] = Idle
  BY <1>1 DEF Base, Typed
<1>7. Fits(p)'
  BY <1>5, <1>6 DEF Fits, Idle
<1> QED BY <1>1, <1>3, <1>4, <1>5, <1>7

(* A command ends, and may have written a file that is no event. *)
LEMMA EndKeepsBase ==
  ASSUME Base, NEW p \in Procs, Ends(p), UNCHANGED <<events, jobs, linkings>>,
         \A q \in Procs \ {p} : edit'[q] = edit[q],
         edit' \in [Procs -> Edit],
         json' \in [Tasks -> Manifest], links' \subseteq Tasks, definition' \in Definition
  PROVE  Base'
<1>1. jobs' \in 0..MaxJobs /\ linkings' \in 0..MaxLinks /\ events' = events
  BY DEF Base, Typed
<1> QED BY <1>1, EndsEffect, IdleTyped, StepFrame

LEMMA NoEditTyped == NoDefinition \in Definition /\ NoEdit \in Edit
<1>1. NoLane \in Lane
  BY DEF NoLane, Lane
<1>2. NoDefinition \in Definition
  <2> HIDE DEF NoLane
  <2> QED BY <1>1 DEF NoDefinition, Definition
<1>3. NoEdit \in Edit
  <2> HIDE DEF NoDefinition
  <2> QED BY <1>2 DEF NoEdit, Edit
<1> QED BY <1>2, <1>3

LEMMA InitBase == Init => Base
<1> SUFFICES ASSUME Init PROVE Base
  OBVIOUS
<1>1. events \subseteq Event /\ IsFiniteSet(events)
  BY FS_EmptySet DEF Init, TrackInit
<1>2. json \in [Tasks -> Manifest] /\ proc \in [Procs -> Work]
  <2> HIDE DEF NewTrack, Idle
  <2> QED BY IdleTyped DEF Init, TrackInit
<1>3. jobs \in 0..MaxJobs /\ linkings \in 0..MaxLinks
  BY TaskAssumption, ThreadAssumption DEF Init, TrackInit
<1>4. holder \in [Locks -> Procs \cup {Nobody}]
  BY DEF Init, TrackInit
<1>5. links \subseteq Tasks /\ definition \in Definition /\ edit \in [Procs -> Edit]
  <2> HIDE DEF NoEdit, NoDefinition
  <2> QED BY NoEditTyped, ThreadAssumption DEF Init
<1>6. Typed
  BY <1>1, <1>2, <1>3, <1>4, <1>5 DEF Typed
<1>7. Numbered
  BY DEF Init, TrackInit, Numbered
<1>8. ASSUME NEW p \in Procs PROVE Fits(p)
  <2>1. proc[p] = Idle
    BY DEF Init, TrackInit
  <2>2. Held(p) = {}
    BY TaskAssumption DEF Init, TrackInit, Held
  <2> QED BY <2>1, <2>2 DEF Fits, Idle
<1> QED BY <1>6, <1>7, <1>8 DEF Base

-----------------------------------------------------------------------------
(* Every action keeps the types and the discipline of locks. *)

LEMMA CheckpointBase ==
  ASSUME Base, NEW p \in Procs, Checkpoint(p), UNCHANGED gvars
  PROVE  Base'
<1>1. PICK t \in Tasks, target \in Targets, state \in States, named \in SUBSET Nat :
        proc' = [proc EXCEPT ![p] = [Idle EXCEPT !.job = "checkpoint", !.step = "lock",
                   !.wants = {t}, !.task = t, !.target = target, !.state = state,
                   !.named = named]]
  <2>1. \A t \in Tasks, target \in Targets : HeadIds(t, target) \in SUBSET Nat
    BY DEF HeadIds, Heads, Unsuperseded, Of, Base, Typed, Event
  <2> QED BY <2>1 DEF Checkpoint
<1> DEFINE w == [Idle EXCEPT !.job = "checkpoint", !.step = "lock",
                   !.wants = {t}, !.task = t, !.target = target, !.state = state,
                   !.named = named]
<1>2. w \in Work
  BY IdleTyped, TaskAssumption DEF Work, Jobs, Steps
<1>3. /\ w.step = "lock" /\ w.job = "checkpoint" /\ w.wants = {t} /\ w.task = t
      /\ w.after = {}
  BY DEF Idle
<1>a. proc' = [proc EXCEPT ![p] = w]
  BY <1>1
<1>4. Held(p) = {} /\ holder' = holder
  BY DEF Checkpoint, Base, Fits
<1> HIDE DEF w
<1>5. Fits(p)'
  <2>1. proc'[p] = w
    BY <1>a DEF Base, Typed
  <2>2. Held(p)' = {}
    BY <1>4 DEF Held
  <2> QED BY <2>1, <2>2, <1>3 DEF Fits
<1>6. \A q \in Procs : Held(q)' = Held(q)
  BY <1>4 DEF Held
<1>7. jobs' \in 0..MaxJobs
  BY TaskAssumption DEF Checkpoint, Base, Typed
<1> QED
  BY <1>a, <1>2, <1>4, <1>5, <1>6, <1>7, StepFrame DEF Checkpoint, gvars, Base, Typed

LEMMA LoadBase ==
  ASSUME Base, NEW p \in Procs, Load(p), UNCHANGED gvars
  PROVE  Base'
<1>1. PICK t \in Tasks, job \in {"add", "refresh"} :
        /\ job = "add" => NextOrdinal(json[t]) \in Slices
        /\ proc' = [proc EXCEPT ![p] = [Idle EXCEPT !.job = job, !.step = "write",
                                                 !.task = t, !.mem = Reconciled(t)]]
  BY DEF Load
<1> DEFINE w == [Idle EXCEPT !.job = job, !.step = "write",
                             !.task = t, !.mem = Reconciled(t)]
<1>2. w \in Work
  BY IdleTyped, ReconciledTyped DEF Work, Jobs, Steps, Base
<1>3. /\ w.step = "write" /\ w.job = job /\ w.after = {}
      /\ w.mem = Reconciled(t)
  BY DEF Idle
<1>a. proc' = [proc EXCEPT ![p] = w]
  BY <1>1
<1>4. Held(p) = {} /\ holder' = holder
  BY DEF Load, Base, Fits
<1> HIDE DEF w
<1>5. Fits(p)'
  <2>1. proc'[p] = w
    BY <1>a DEF Base, Typed
  <2>2. Held(p)' = {}
    BY <1>4 DEF Held
  <2>3. w.job = "add" => NextOrdinal(w.mem) \in Slices
    BY <1>1, <1>3, ReconciledTyped DEF NextOrdinal, Base
  <2> QED BY <2>1, <2>2, <2>3, <1>3 DEF Fits
<1>6. \A q \in Procs : Held(q)' = Held(q)
  BY <1>4 DEF Held
<1>7. jobs' \in 0..MaxJobs
  BY TaskAssumption DEF Load, Base, Typed
<1> QED
  BY <1>a, <1>2, <1>4, <1>5, <1>6, <1>7, StepFrame DEF Load, gvars, Base, Typed

LEMMA AcquireBase ==
  ASSUME Base, NEW p \in Procs, Acquire(p), UNCHANGED gvars
  PROVE  Base'
<1>1. PICK l \in NextLocks(p) :
        /\ holder[l] = Nobody
        /\ holder' = [holder EXCEPT ![l] = p]
        /\ proc' = IF proc[p].wants \subseteq Held(p) \cup {l}
                   THEN [proc EXCEPT ![p].step = "read"] ELSE proc
  BY DEF Acquire
<1>2. /\ proc[p] \in Work /\ proc[p].step = "lock" /\ Fits(p)
      /\ l \in proc[p].wants /\ l \notin Held(p) /\ l \in Locks
      /\ \A k \in proc[p].wants \ Held(p) : l <= k
  BY <1>1 DEF Acquire, NextLocks, Base, Typed, Work
<1> DEFINE w == IF proc[p].wants \subseteq Held(p) \cup {l}
                THEN [proc[p] EXCEPT !.step = "read"] ELSE proc[p]
<1>3. w \in Work
  BY <1>2 DEF Work, Steps
<1>4. proc' = [proc EXCEPT ![p] = w]
  BY <1>1 DEF Base, Typed
<1>5. /\ w.job = proc[p].job /\ w.wants = proc[p].wants /\ w.after = proc[p].after
      /\ w.task = proc[p].task /\ w.mem = proc[p].mem
      /\ w.step = IF proc[p].wants \subseteq Held(p) \cup {l} THEN "read" ELSE "lock"
  BY <1>2 DEF Work
<1> HIDE DEF w
<1>6. holder' \in [Locks -> Procs \cup {Nobody}]
  BY <1>1 DEF Base, Typed
<1>7. Held(p)' = Held(p) \cup {l}
  BY <1>1, <1>2 DEF Held, Base, Typed
<1>8. \A q \in Procs \ {p} : Held(q)' = Held(q)
  BY <1>1, <1>2, TaskAssumption DEF Held, Base, Typed
<1>9. Fits(p)'
  <2>1. proc'[p] = w /\ edit'[p] = edit[p] /\ events' = events
    BY <1>4 DEF Base, Typed, Acquire, gvars
  <2>2. w.step = "read" => Held(p)' = w.wants
    BY <1>2, <1>5, <1>7 DEF Fits
  <2>3. w.step = "lock" =>
          /\ Held(p)' \subseteq w.wants
          /\ \A h \in Held(p)', k \in w.wants \ Held(p)' : h < k
    <3>1. ASSUME NEW h \in Held(p)', NEW k \in w.wants \ Held(p)' PROVE h < k
      <4>1. k \in proc[p].wants \ Held(p) /\ k # l /\ l <= k
        BY <1>2, <1>5, <1>7
      <4>a. k \in Locks
        BY <4>1, <1>2 DEF Work
      <4>2. k \in Int /\ l \in Int
        BY <4>a, <1>2, TaskAssumption
      <4>3. CASE h = l
        BY <4>1, <4>2, <4>3
      <4>4. CASE h \in Held(p)
        BY <4>1, <4>4, <1>2 DEF Fits
      <4> QED BY <4>3, <4>4, <1>7
    <3>2. Held(p)' \subseteq w.wants
      BY <1>2, <1>5, <1>7 DEF Fits
    <3> QED BY <3>1, <3>2
  <2> QED BY <2>1, <2>2, <2>3, <1>2, <1>5 DEF Fits
<1> QED
  BY <1>3, <1>4, <1>6, <1>8, <1>9, StepFrame DEF Acquire, gvars, Base, Typed

LEMMA ReloadTrackBase ==
  ASSUME Base, NEW p \in Procs, ReloadTrack(p), UNCHANGED gvars
  PROVE  Base'
<1> DEFINE t == proc[p].task
           m == Reconciled(t)
<1>1. proc[p] \in Work /\ t \in Tasks /\ proc[p].target \in Targets /\ Fits(p)
      /\ At(p, "checkpoint", "read")
  BY DEF ReloadTrack, Base, Typed, Work
<1>2. m \in Manifest
  BY <1>1, ReconciledTyped DEF Base
<1> HIDE DEF m
<1>3. CASE Ends(p)
  BY <1>3, EndKeepsBase DEF ReloadTrack, gvars, Base, Typed
<1>4. CASE /\ proc' = [proc EXCEPT ![p] = [@ EXCEPT !.step = "publish", !.mem = m,
                                                 !.after = Predecessors(p)]]
           /\ KeepsLocks(p)
  <2> DEFINE w == [proc[p] EXCEPT !.step = "publish", !.mem = m, !.after = Predecessors(p)]
  <2>1. proc' = [proc EXCEPT ![p] = w]
    BY <1>4 DEF Base, Typed
  <2>2. \A i \in Predecessors(p) : i \in 1..Cardinality(events) /\ i \in Nat
    BY DEF Predecessors, HeadIds, Heads, Unsuperseded, Of, Base, Numbered, Typed, Event
  <2>3. w \in Work
    BY <2>2, <1>1, <1>2 DEF Work, Steps
  <2>4. /\ w.job = "checkpoint" /\ w.step = "publish" /\ w.wants = proc[p].wants
        /\ w.task = proc[p].task /\ w.after = Predecessors(p)
    BY <1>1 DEF Work, At
  <2> HIDE DEF w
  <2>5. \A q \in Procs : Held(q)' = Held(q)
    BY <1>4 DEF KeepsLocks, Held
  <2>6. Fits(p)'
    <3>1. proc'[p] = w /\ events' = events
      BY <2>1 DEF Base, Typed, ReloadTrack
    <3>2. Held(p)' = w.wants
      BY <2>5, <2>4, <1>1 DEF Fits, At
    <3> QED BY <3>1, <3>2, <2>2, <2>4, <1>1 DEF Fits, At
  <2> QED
    BY <2>1, <2>3, <2>5, <2>6, <1>4, StepFrame
    DEF ReloadTrack, KeepsLocks, gvars, Base, Typed
<1> QED BY <1>3, <1>4 DEF ReloadTrack, m

(* A new event is numbered after those there are. *)
LEMMA NewEventKeepsBase ==
  ASSUME Base, NEW e \in Event, events' = events \cup {e}, e.id = NewId,
         \A i \in e.after : i \in 1..Cardinality(events),
         NEW p \in Procs, NEW w \in Work, proc' = [proc EXCEPT ![p] = w],
         \A i \in w.after : i \in 1..Cardinality(events),
         w.step = proc[p].step \/ (proc[p].step = "publish" /\ w.step = "project"),
         w.job = proc[p].job, w.job = "graph" => w.step # "project",
         w.wants = proc[p].wants, w.task = proc[p].task, w.mem = proc[p].mem,
         UNCHANGED <<json, holder, jobs, gvars>>
  PROVE  Base'
<1> DEFINE n == Cardinality(events)
<1>1. n \in Nat /\ IsFiniteSet(events)
  BY FS_CardinalityType DEF Base, Typed
<1>2. e \notin events
  BY <1>1 DEF Base, Numbered, NewId
<1>3. IsFiniteSet(events') /\ Cardinality(events') = n + 1
  BY <1>1, <1>2, FS_AddElement
<1>4. \A i \in 1..n : i \in 1..Cardinality(events')
  BY <1>1, <1>3
<1>5. Numbered'
  <2>1. e.id = n + 1
    BY DEF NewId
  <2>2. ASSUME NEW f \in events' PROVE f.id \in 1..Cardinality(events') /\ \A i \in f.after : i < f.id
    <3>1. CASE f \in events
      BY <3>1, <1>4 DEF Base, Numbered
    <3>2. CASE f = e
      BY <3>2, <2>1, <1>1, <1>3
    <3> QED BY <3>1, <3>2
  <2> QED BY <2>2 DEF Numbered
<1>6. Fits(p)'
  <2>1. proc'[p] = w
    BY DEF Base, Typed
  <2>2. Held(p)' = Held(p)
    BY DEF Held
  <2>3. \A i \in w.after : i \in 1..Cardinality(events')
    BY <1>4
  <2>4. Fits(p) /\ edit' = edit
    BY DEF Base, gvars
  <2> QED BY <2>1, <2>2, <2>3, <2>4 DEF Fits
<1>7. proc' \in [Procs -> Work] /\ \A q \in Procs : Fits(q)'
  <2>1. \A q \in Procs : Held(q)' = Held(q) /\ edit'[q] = edit[q]
    BY DEF Held, gvars
  <2>2. Cardinality(events) \in Nat /\ Cardinality(events') \in Nat
        /\ Cardinality(events) <= Cardinality(events')
    BY <1>1, <1>3
  <2> QED BY <2>1, <2>2, <1>6, OthersFit
<1>8. Typed'
  BY <1>3, <1>7 DEF Base, Typed, gvars
<1> QED BY <1>5, <1>7, <1>8 DEF Base

LEMMA PublishEventBase ==
  ASSUME Base, NEW p \in Procs, PublishEvent(p), UNCHANGED gvars
  PROVE  Base'
<1> DEFINE e == [id |-> NewId, task |-> proc[p].task, target |-> proc[p].target,
                 state |-> proc[p].state, after |-> proc[p].after, merged |-> FALSE]
           w == [proc[p] EXCEPT !.step = "project"]
<1>1. proc[p] \in Work /\ Fits(p) /\ At(p, "checkpoint", "publish")
  BY DEF PublishEvent, Base, Typed
<1>2. NewId \in Nat
  BY FS_CardinalityType DEF Base, Typed, NewId
<1>3. e \in Event
  BY <1>1, <1>2 DEF Event, Work
<1>4. e.id = NewId /\ e.after = proc[p].after
  OBVIOUS
<1>5. w \in Work /\ w.step = "project" /\ w.job = proc[p].job /\ w.wants = proc[p].wants
      /\ w.task = proc[p].task /\ w.mem = proc[p].mem /\ w.after = proc[p].after
  BY <1>1 DEF Work, Steps
<1>6. events' = events \cup {e} /\ proc' = [proc EXCEPT ![p] = w]
  BY DEF PublishEvent, Base, Typed
<1>7. \A i \in proc[p].after : i \in 1..Cardinality(events)
  BY <1>1 DEF Fits
<1> HIDE DEF e, w
<1> QED
  BY <1>1, <1>3, <1>4, <1>5, <1>6, <1>7, NewEventKeepsBase DEF PublishEvent, At

LEMMA MergeBase ==
  ASSUME Base, NEW p \in Procs, Merge, UNCHANGED gvars
  PROVE  Base'
<1>1. PICK t \in Tasks, target \in Slices, state \in States, view \in SUBSET events :
        events' = events \cup {Incoming(t, target, state, view)}
  <2>1. \A t \in Tasks, target \in Slices : SUBSET Of(t, target) \subseteq SUBSET events
    BY DEF Of
  <2> QED BY <2>1 DEF Merge
<1> DEFINE after == {f.id : f \in Unsuperseded(view)}
           e == [id |-> NewId, task |-> t, target |-> target,
                 state |-> state, after |-> after, merged |-> TRUE]
<1>2. \A f \in Unsuperseded(view) : f \in events
  BY DEF Unsuperseded
<1>3. \A i \in after : i \in 1..Cardinality(events) /\ i \in Nat
  BY <1>2 DEF Base, Numbered, Typed, Event
<1>4. NewId \in Nat
  BY FS_CardinalityType DEF Base, Typed, NewId
<1>5. events' = events \cup {e}
  BY <1>1 DEF Incoming
<1> HIDE DEF after
<1>6. e \in Event /\ e.id = NewId /\ e.after = after
  BY <1>3, <1>4 DEF Event, Targets
<1> HIDE DEF e
<1>7. proc' = [proc EXCEPT ![p] = proc[p]] /\ proc[p] \in Work /\ Fits(p)
  BY DEF Merge, Base, Typed
<1>8. proc[p].job = "graph" => proc[p].step # "project"
  BY <1>7 DEF Fits
<1>9. \A i \in proc[p].after : i \in 1..Cardinality(events)
  BY <1>7 DEF Fits
<1>10. UNCHANGED <<json, holder, jobs>>
  BY DEF Merge
<1> QED
  BY <1>3, <1>5, <1>6, <1>7, <1>8, <1>9, <1>10, NewEventKeepsBase

LEMMA ProjectEventBase ==
  ASSUME Base, NEW p \in Procs, ProjectEvent(p), UNCHANGED gvars
  PROVE  Base'
<1>1. proc[p] \in Work
  BY DEF Base, Typed
<1>2. [proc[p].mem EXCEPT !.state[proc[p].target] = proc[p].state,
                          !.durable = @ \/ proc[p].target = Closeout] \in Manifest
  <2>1. proc[p].mem \in Manifest /\ proc[p].target \in Targets /\ proc[p].state \in States
    BY <1>1 DEF Work
  <2> QED BY <2>1 DEF Manifest
<1>3. json' \in [Tasks -> Manifest]
  BY <1>2 DEF ProjectEvent, Base, Typed
<1> QED
  BY <1>3, EndKeepsBase DEF ProjectEvent, gvars, Base, Typed

LEMMA RewriteBase ==
  ASSUME Base, NEW p \in Procs, AddSlice(p) \/ Refresh(p), UNCHANGED gvars
  PROVE  Base'
<1>1. proc[p].mem \in Manifest /\ Fits(p)
  BY DEF Base, Typed, Work
<1>2. CASE AddSlice(p)
  <2>1. NextOrdinal(proc[p].mem) \in Slices
    BY <1>1, <1>2 DEF AddSlice, At, Fits
  <2>2. [proc[p].mem EXCEPT !.slices = @ \cup {NextOrdinal(proc[p].mem)}] \in Manifest
    BY <2>1, <1>1 DEF Manifest
  <2>3. json' \in [Tasks -> Manifest]
    BY <2>2, <1>2 DEF AddSlice, Base, Typed
  <2> QED
    BY <2>3, <1>2, EndKeepsBase DEF AddSlice, gvars, Base, Typed
<1>3. CASE Refresh(p)
  <2>1. json' \in [Tasks -> Manifest]
    BY <1>1, <1>3 DEF Refresh, Base, Typed
  <2> QED
    BY <2>1, <1>3, EndKeepsBase DEF Refresh, gvars, Base, Typed
<1> QED BY <1>2, <1>3

(* The actions on the graph and the links. *)
LEMMA BeginBase ==
  ASSUME Base, NEW p \in Procs, BeginEdit(p) \/ BeginLink(p)
  PROVE  Base'
<1>1. /\ proc[p].step = "idle" /\ jobs < MaxJobs /\ jobs' = jobs + 1
      /\ UNCHANGED <<events, json, holder, links, definition>>
      /\ edit' = [edit EXCEPT ![p].saw = links]
  BY DEF BeginEdit, BeginLink
<1>2. jobs' \in 0..MaxJobs
  BY <1>1, TaskAssumption DEF Base, Typed
<1>3. linkings' \in 0..MaxLinks
  <2>1. linkings' = linkings \/ (linkings < MaxLinks /\ linkings' = linkings + 1)
    BY DEF BeginEdit, BeginLink
  <2> QED BY <2>1, ThreadAssumption DEF Base, Typed
<1>4. edit' \in [Procs -> Edit] /\ edit'[p].saw = links
      /\ \A q \in Procs \ {p} : edit'[q] = edit[q]
  BY <1>1 DEF Base, Typed, Edit
<1>5. Held(p)' = {} /\ \A q \in Procs : Held(q)' = Held(q)
  BY <1>1 DEF Base, Fits, Held
<1>6. CASE BeginEdit(p)
  <2> DEFINE w == [Idle EXCEPT !.job = "graph", !.step = "lock", !.wants = {Change} \cup links]
  <2>1. proc' = [proc EXCEPT ![p] = w]
    BY <1>6 DEF BeginEdit
  <2>2. w \in Work
    BY IdleTyped, TaskAssumption, ThreadAssumption DEF Work, Jobs, Steps, Base, Typed
  <2>3. w.step = "lock" /\ w.job = "graph" /\ w.wants = {Change} \cup links /\ w.after = {}
    BY DEF Idle
  <2> HIDE DEF w
  <2>4. proc'[p] = w
    BY <2>1 DEF Base, Typed
  <2>5. Fits(p)'
    BY <2>3, <2>4, <1>4, <1>5 DEF Fits
  <2> QED
    BY <2>1, <2>2, <2>5, <1>1, <1>2, <1>3, <1>4, <1>5, StepFrame DEF Base, Typed
<1>7. CASE BeginLink(p)
  <2>1. PICK t \in Tasks \ links :
          proc' = [proc EXCEPT ![p] = [Idle EXCEPT !.job = "link", !.step = "write", !.task = t]]
    BY <1>7 DEF BeginLink
  <2> DEFINE w == [Idle EXCEPT !.job = "link", !.step = "write", !.task = t]
  <2>2. w \in Work
    BY IdleTyped DEF Work, Jobs, Steps
  <2>3. w.step = "write" /\ w.job = "link" /\ w.after = {}
    BY DEF Idle
  <2>4. proc' = [proc EXCEPT ![p] = w]
    BY <2>1
  <2> HIDE DEF w
  <2>5. proc'[p] = w
    BY <2>4 DEF Base, Typed
  <2>6. Fits(p)'
    BY <2>3, <2>5, <1>5 DEF Fits
  <2> QED
    BY <2>4, <2>2, <2>6, <1>1, <1>2, <1>3, <1>4, <1>5, StepFrame DEF Base, Typed
<1> QED BY <1>6, <1>7

(* What an edit makes of the lanes is a definition. *)
LEMMA EditedTyped ==
  ASSUME Base, NEW k \in Lanes, NEW n \in Nat, NEW targets \in [1..n -> links \X Slices],
         NEW after \in SUBSET (Lanes \ {k})
  PROVE  Next1([definition.lanes EXCEPT
                  ![k] = IF n = 0 THEN NoLane ELSE [targets |-> targets, after |-> after]])
           \in Definition
<1>1. targets \in Seq(References)
  <2>1. links \X Slices \subseteq References
    BY DEF References, Base, Typed
  <2>2. targets \in [1..n -> References]
    BY <2>1
  <2> QED BY <2>2
<1> DEFINE lane == IF n = 0 THEN NoLane ELSE [targets |-> targets, after |-> after]
<1>2. lane \in Lane
  BY <1>1 DEF Lane, NoLane
<1> HIDE DEF lane
<1>3. definition \in [revision : Nat, lanes : [Lanes -> Lane]]
  BY DEF Base, Typed, Definition
<1>4. Next1([definition.lanes EXCEPT ![k] = lane]) \in Definition
  BY <1>2, <1>3 DEF Next1, Definition
<1> QED BY <1>4 DEF lane

LEMMA EditGraphBase ==
  ASSUME Base, NEW p \in Procs, EditGraph(p)
  PROVE  Base'
<1>1. PICK next \in Definition : edit' = [edit EXCEPT ![p] = [saw |-> links, next |-> next]]
  <2>1. PICK k \in Lanes, n \in 0..MaxTargets :
        \E targets \in [1..n -> links \X Slices], after \in SUBSET (Lanes \ {k}) :
          edit' = [edit EXCEPT ![p] = [saw |-> links, next |->
             Next1([definition.lanes EXCEPT
                  ![k] = IF n = 0 THEN NoLane ELSE [targets |-> targets, after |-> after]])]]
    BY DEF EditGraph
  <2>2. n \in Nat
    BY ThreadAssumption
  <2> QED BY <2>1, <2>2, EditedTyped
<1>2. proc[p] \in Work /\ Fits(p) /\ At(p, "graph", "read")
  BY DEF EditGraph, Base, Typed
<1> DEFINE w == [proc[p] EXCEPT !.step = "publish"]
<1>3. w \in Work /\ w.step = "publish" /\ w.job = "graph" /\ w.wants = proc[p].wants
      /\ w.after = proc[p].after
  BY <1>2 DEF Work, Steps, At
<1>4. proc' = [proc EXCEPT ![p] = w]
  BY DEF EditGraph, Base, Typed
<1> HIDE DEF w
<1>5. edit' \in [Procs -> Edit] /\ edit'[p].saw = edit[p].saw
      /\ \A q \in Procs \ {p} : edit'[q] = edit[q]
  BY <1>1 DEF Base, Typed, Edit, EditGraph, LinksStand
<1>6. \A q \in Procs : Held(q)' = Held(q)
  BY DEF EditGraph, KeepsLocks, Held
<1>7. Fits(p)'
  <2>1. proc'[p] = w /\ events' = events
    BY <1>4 DEF Base, Typed, EditGraph
  <2> QED BY <2>1, <1>2, <1>3, <1>5, <1>6 DEF Fits, At
<1> QED
  BY <1>3, <1>4, <1>5, <1>6, <1>7, StepFrame DEF EditGraph, KeepsLocks, Base, Typed

LEMMA GraphEndBase ==
  ASSUME Base, NEW p \in Procs,
         RefuseEdit(p) \/ PublishGraph(p) \/ WriteLink(p) \/ Stop(p)
  PROVE  Base'
<1>1. /\ Ends(p) /\ UNCHANGED <<events, jobs, linkings, json>>
      /\ edit' = [edit EXCEPT ![p] = NoEdit]
  BY DEF RefuseEdit, PublishGraph, WriteLink, Stop, Kill
<1>2. edit' \in [Procs -> Edit] /\ \A q \in Procs \ {p} : edit'[q] = edit[q]
  <2> HIDE DEF NoEdit
  <2> QED BY <1>1, NoEditTyped DEF Base, Typed
<1>3. edit[p] \in Edit /\ proc[p] \in Work
  BY DEF Base, Typed
<1>4. definition' \in Definition
  BY <1>3 DEF RefuseEdit, PublishGraph, WriteLink, Stop, Base, Typed, Edit
<1>5. links' \subseteq Tasks
  BY <1>3 DEF RefuseEdit, PublishGraph, WriteLink, Stop, Base, Typed, Edit, Upsert, Work
<1> QED
  BY <1>1, <1>2, <1>4, <1>5, EndKeepsBase DEF Base, Typed

LEMMA BaseNext == Base /\ [Next]_vars => Base'
<1> SUFFICES ASSUME Base, [Next]_vars PROVE Base'
  OBVIOUS
<1>1. CASE UNCHANGED vars
  BY <1>1 DEF vars, tvars, gvars, Base, Typed, Numbered, Fits, Held
<1>2. CASE Merge /\ UNCHANGED gvars
  BY <1>2, MergeBase, TaskAssumption
<1>3. ASSUME NEW p \in Procs, Checkpoint(p) \/ Load(p) \/ TrackStep(p), UNCHANGED gvars
      PROVE  Base'
  BY <1>3, CheckpointBase, LoadBase, AcquireBase, ReloadTrackBase, PublishEventBase,
     ProjectEventBase, RewriteBase DEF TrackStep
<1>4. ASSUME NEW p \in Procs, BeginEdit(p) \/ BeginLink(p) \/ GraphStep(p) \/ Stop(p)
      PROVE  Base'
  BY <1>4, BeginBase, EditGraphBase, GraphEndBase DEF GraphStep
<1> QED BY <1>1, <1>2, <1>3, <1>4 DEF Next

LEMMA BaseHolds == Spec => []Base
  BY InitBase, BaseNext, PTL DEF Spec

(* Files keep their shapes, and a command past its locks holds them all     *)
(* until it ends (acquireTaskMutations, Release).                           *)
THEOREM TypeCorrect == Spec => []TypeOK
<1>1. Base => TypeOK
  BY DEF Base, Typed, Fits, TypeOK
<1> QED BY <1>1, BaseHolds, PTL

-----------------------------------------------------------------------------
(* Locks. *)

(* Of the locks that members of a set wait for in a circle the highest is   *)
(* held by one that waits for a higher one.  However many processes and     *)
(* tasks there are, the common order leaves no circle                       *)
(* (acquireTaskMutations).                                                  *)
LEMMA BaseExcludesCircles == Base => NoCircularWait
<1> SUFFICES ASSUME Base,
                    NEW ps \in SUBSET {p \in Procs : proc[p].step = "lock"}, ps # {},
                    \A p \in ps : WaitsFor(p) \cap ps # {}
             PROVE  FALSE
  BY DEF NoCircularWait
<1> DEFINE A == {l \in Locks : \E p \in ps : l \in NextLocks(p) /\ holder[l] \in ps}
<1>1. ASSUME NEW p \in ps PROVE \E l \in A : l \in NextLocks(p)
  <2>1. PICK q \in ps : q \in WaitsFor(p)
    OBVIOUS
  <2>2. PICK l \in NextLocks(p) : holder[l] = q
    BY <2>1 DEF WaitsFor
  <2>3. l \in Locks
    <3>1. p \in Procs
      OBVIOUS
    <3>2. proc[p].wants \subseteq Locks
      BY <3>1 DEF Base, Typed, Work
    <3> QED BY <3>2 DEF NextLocks
  <2> QED BY <2>2, <2>3
<1>2. A \subseteq Nat /\ IsFiniteSet(A) /\ A # {}
  <2>1. A \subseteq Locks
    OBVIOUS
  <2>2. A # {}
    BY <1>1
  <2> HIDE DEF A
  <2> QED BY <2>1, <2>2, FS_Subset, TaskAssumption
<1>3. PICK l \in A : \A k \in A : k <= l
  <2> HIDE DEF A
  <2> QED BY <1>2, GreatestNatural
<1>4. PICK q \in ps : holder[l] = q
  BY <1>3
<1>5. PICK k \in A : k \in NextLocks(q)
  BY <1>1
<1>6. l \in Held(q) /\ k \in proc[q].wants \ Held(q) /\ q \in Procs /\ proc[q].step = "lock"
  BY <1>3, <1>4, <1>5 DEF Held, NextLocks
<1>7. l < k
  BY <1>6 DEF Base, Fits
<1>8. k <= l /\ k \in Int /\ l \in Int
  BY <1>2, <1>3
<1> QED BY <1>7, <1>8

THEOREM LocksNeverDeadlock == Spec => []NoCircularWait
  BY BaseHolds, BaseExcludesCircles, PTL

(* Who is past its locks shares none of them. *)
LEMMA LocksExclude ==
  ASSUME Base, NEW p \in Procs, NEW q \in Procs, p # q,
         proc[p].step \in {"read", "publish", "project"},
         proc[q].step \in {"read", "publish", "project"}
  PROVE  proc[p].wants \cap proc[q].wants = {}
  BY DEF Base, Fits, Held

-----------------------------------------------------------------------------
(* What a step can do to a process that is about to publish, and to the     *)
(* files. *)

(* A command that begins waits for its locks or to write. *)
LEMMA Begins ==
  ASSUME Base, NEW p \in Procs, NEW q \in Procs, proc'[p] # proc[p],
         Checkpoint(q) \/ Load(q) \/ BeginEdit(q) \/ BeginLink(q)
  PROVE  proc'[p].step \in {"lock", "write"}
<1>0. proc \in [Procs -> Work]
  BY DEF Base, Typed
<1>1. CASE Checkpoint(q)
  BY <1>0, <1>1 DEF Checkpoint, Idle
<1>2. CASE Load(q)
  BY <1>0, <1>2 DEF Load, Idle
<1>3. CASE BeginEdit(q)
  BY <1>0, <1>3 DEF BeginEdit, Idle
<1>4. CASE BeginLink(q)
  BY <1>0, <1>4 DEF BeginLink, Idle
<1> QED BY <1>1, <1>2, <1>3, <1>4

(* Only its reload brings a checkpoint to the point of publishing.          *)
LEMMA ReachesPublish ==
  ASSUME Base, [Next]_vars, NEW p \in Procs, At(p, "checkpoint", "publish")'
  PROVE  \/ At(p, "checkpoint", "publish") /\ proc'[p] = proc[p]
         \/ ReloadTrack(p)
<1>0. proc \in [Procs -> Work] /\ proc'[p].step = "publish" /\ proc'[p].job = "checkpoint"
  BY DEF Base, Typed, At
<1>1. CASE proc'[p] = proc[p]
  BY <1>0, <1>1 DEF At
<1>2. CASE proc'[p] # proc[p]
  <2>1. ASSUME NEW q \in Procs, Ends(q) PROVE FALSE
    <3>1. proc' = [proc EXCEPT ![q] = Idle]
      BY <2>1 DEF Ends
    <3>2. CASE q = p
      BY <3>1, <3>2, <1>0 DEF Idle
    <3>3. CASE q # p
      BY <3>1, <3>3, <1>0, <1>2
    <3> QED BY <3>2, <3>3
  <2>2. ~UNCHANGED vars /\ ~Merge
    BY <1>2 DEF vars, tvars, Merge
  <2>3. PICK q \in Procs :
          \/ (Checkpoint(q) \/ Load(q) \/ TrackStep(q)) /\ UNCHANGED gvars
          \/ BeginEdit(q) \/ BeginLink(q) \/ GraphStep(q) \/ Stop(q)
    BY <2>2 DEF Next
  <2>4. CASE Checkpoint(q) \/ Load(q) \/ BeginEdit(q) \/ BeginLink(q)
    BY <2>4, <1>0, <1>2, Begins
  <2>5. CASE Acquire(q)
    BY <2>5, <1>0, <1>2 DEF Acquire, Work
  <2>6. CASE ReloadTrack(q)
    <3>1. CASE q = p
      BY <2>6, <3>1
    <3>2. CASE q # p
      <4>1. PICK w : proc' = [proc EXCEPT ![q] = w]
        BY <2>6, <2>1 DEF ReloadTrack
      <4> QED BY <4>1, <3>2, <1>0, <1>2
    <3> QED BY <3>1, <3>2
  <2>7. CASE PublishEvent(q)
    BY <2>7, <1>0, <1>2 DEF PublishEvent, Work
  <2>8. CASE EditGraph(q)
    BY <2>8, <1>0, <1>2 DEF EditGraph, Work, At
  <2>9. CASE \/ ProjectEvent(q) \/ AddSlice(q) \/ Refresh(q) \/ RefuseEdit(q)
             \/ PublishGraph(q) \/ WriteLink(q) \/ Stop(q)
    BY <2>9, <2>1 DEF ProjectEvent, AddSlice, Refresh, RefuseEdit, PublishGraph, WriteLink,
                      Stop, Kill
  <2> QED BY <2>3, <2>4, <2>5, <2>6, <2>7, <2>8, <2>9 DEF TrackStep, GraphStep
<1> QED BY <1>1, <1>2

(* Only commands that publish and merges bring events. *)
LEMMA EventsComeFrom ==
  ASSUME Base, [Next]_vars
  PROVE  \/ events' = events
         \/ \E p \in Procs : PublishEvent(p) /\ UNCHANGED gvars
         \/ Merge /\ UNCHANGED gvars
  BY DEF Next, vars, tvars, Checkpoint, Load, TrackStep, Acquire, ReloadTrack,
         ProjectEvent, AddSlice, Refresh, BeginEdit, BeginLink, GraphStep, EditGraph,
         RefuseEdit, PublishGraph, WriteLink, Stop, Kill

-----------------------------------------------------------------------------
(* Forks. *)

(* What is published next supersedes every head but merged ones.            *)
PredecessorsStand ==
  \A p \in Procs : At(p, "checkpoint", "publish") =>
    \A f \in Heads(proc[p].task, proc[p].target) : f.merged \/ f.id \in proc[p].after

ForkInv == CommandsNeverFork /\ PredecessorsStand

(* A new event makes no other a head. *)
LEMMA HeadsShrink ==
  ASSUME NEW e, events' = events \cup {e}, NEW t, NEW target
  PROVE  Heads(t, target)' \subseteq Heads(t, target) \cup {e}
  BY DEF Heads, Unsuperseded, Of

LEMMA ForkInit == Init => ForkInv
  BY DEF Init, TrackInit, ForkInv, CommandsNeverFork, PredecessorsStand, At, Idle

(* A step that brings no event. *)
LEMMA ForkNoEvent ==
  ASSUME Base, ForkInv, [Next]_vars, events' = events
  PROVE  ForkInv'
<1>1. \A t, target : Heads(t, target)' = Heads(t, target)
  BY DEF Heads, Unsuperseded, Of
<1>2. CommandsNeverFork'
  BY <1>1 DEF ForkInv, CommandsNeverFork
<1>3. ASSUME NEW p \in Procs, At(p, "checkpoint", "publish")',
             NEW f \in Heads(proc'[p].task, proc'[p].target)
      PROVE  f.merged \/ f.id \in proc'[p].after
  <2>1. CASE At(p, "checkpoint", "publish") /\ proc'[p] = proc[p]
    BY <2>1, <1>3 DEF ForkInv, PredecessorsStand
  <2>2. CASE ReloadTrack(p)
    <3>1. proc \in [Procs -> Work] /\ proc'[p].step = "publish"
      BY <1>3 DEF Base, Typed, At
    <3>2. ~Ends(p)
      BY <3>1 DEF Ends, Idle
    <3>3. proc' = [proc EXCEPT ![p] = [@ EXCEPT !.step = "publish",
                                   !.mem = Reconciled(proc[p].task), !.after = Predecessors(p)]]
      BY <2>2, <3>2 DEF ReloadTrack
    <3>4. /\ proc'[p].after = HeadIds(proc[p].task, proc[p].target)
          /\ proc'[p].task = proc[p].task /\ proc'[p].target = proc[p].target
      BY <3>1, <3>3 DEF Work, Predecessors
    <3> QED BY <3>4, <1>3 DEF HeadIds
  <2> QED BY <2>1, <2>2, <1>3, ReachesPublish
<1>4. PredecessorsStand'
  BY <1>1, <1>3 DEF PredecessorsStand
<1> QED BY <1>2, <1>4 DEF ForkInv

(* The new event of a command supersedes all the heads its clone has made,  *)
(* and no other command of its task is between its reload and its end.      *)
LEMMA ForkPublish ==
  ASSUME Base, ForkInv, NEW p \in Procs, PublishEvent(p), UNCHANGED gvars
  PROVE  ForkInv'
<1>0. PICK e : e = [id |-> NewId, task |-> proc[p].task, target |-> proc[p].target,
                 state |-> proc[p].state, after |-> proc[p].after, merged |-> FALSE]
  OBVIOUS
<1>1. events' = events \cup {e}
  BY <1>0 DEF PublishEvent
<1>2. /\ e.task = proc[p].task /\ e.target = proc[p].target /\ e.after = proc[p].after
      /\ At(p, "checkpoint", "publish")
  BY <1>0 DEF PublishEvent
<1>3. ASSUME NEW f \in Heads(e.task, e.target)', f # e PROVE f.merged
  <2>1. f \in Heads(e.task, e.target)
    BY <1>1, <1>3, HeadsShrink
  <2>2. f.merged \/ f.id \in e.after
    BY <2>1, <1>2 DEF ForkInv, PredecessorsStand
  <2>3. e \in Of(e.task, e.target)'
    BY <1>1 DEF Of
  <2>4. f.id \notin e.after
    BY <2>3, <1>3 DEF Heads, Unsuperseded
  <2> QED BY <2>2, <2>4
<1>4. CommandsNeverFork'
  <2>1. ASSUME NEW f \in events', NEW g \in events',
               f.task = g.task, f.target = g.target, ~f.merged, ~g.merged, f # g,
               f \in Heads(f.task, f.target)', g \in Heads(f.task, f.target)'
        PROVE  FALSE
    <3>1. CASE f = e \/ g = e
      BY <2>1, <3>1, <1>3
    <3>2. CASE f # e /\ g # e
      <4>1. f \in events /\ g \in events
        BY <2>1, <3>2, <1>1
      <4>2. f \in Heads(f.task, f.target) /\ g \in Heads(f.task, f.target)
        BY <2>1, <3>2, <1>1, HeadsShrink
      <4> QED BY <4>1, <4>2, <2>1 DEF ForkInv, CommandsNeverFork
    <3> QED BY <3>1, <3>2
  <2> QED BY <2>1 DEF CommandsNeverFork
<1>5. proc \in [Procs -> Work] /\ proc' = [proc EXCEPT ![p].step = "project"]
  BY DEF Base, Typed, PublishEvent
<1>6. ASSUME NEW q \in Procs, At(q, "checkpoint", "publish")',
             NEW f \in Heads(proc[q].task, proc[q].target)'
      PROVE  f.merged \/ f.id \in proc'[q].after
  <2>1. q # p /\ proc'[q] = proc[q]
    BY <1>5, <1>6 DEF At, Work
  <2>2. proc[q].task # e.task
    <3>1. At(q, "checkpoint", "publish")
      BY <2>1, <1>6 DEF At
    <3>2. proc[p].wants \cap proc[q].wants = {}
      BY <2>1, <3>1, <1>2, LocksExclude DEF At
    <3>3. proc[p].wants = {proc[p].task} /\ proc[q].wants = {proc[q].task}
      BY <3>1, <1>2 DEF At, Base, Fits
    <3> QED BY <3>2, <3>3, <1>2
  <2>a. f.task = proc[q].task
    BY <1>6, <2>1 DEF Heads, Unsuperseded, Of
  <2>3. f # e
    BY <2>a, <2>2
  <2>b. f \in Heads(proc[q].task, proc[q].target) \cup {e}
    <3>1. PICK s, r : s = proc[q].task /\ r = proc[q].target
      OBVIOUS
    <3>2. f \in Heads(s, r)'
      BY <3>1, <2>1, <1>6 DEF Heads, Unsuperseded, Of
    <3> QED BY <3>1, <3>2, <1>1, HeadsShrink
  <2>4. f \in Heads(proc[q].task, proc[q].target)
    BY <2>3, <2>b
  <2> QED BY <2>1, <2>4, <1>6 DEF ForkInv, PredecessorsStand, At
<1> QED BY <1>4, <1>6 DEF ForkInv, PredecessorsStand

(* A merged event forks, but is no command's. *)
LEMMA ForkMerge ==
  ASSUME Base, ForkInv, Merge
  PROVE  ForkInv'
<1>1. PICK e : events' = events \cup {e} /\ e.merged
  <2>1. PICK t \in Tasks, target \in Slices, state \in States, view \in SUBSET events :
        events' = events \cup {Incoming(t, target, state, view)}
    <3>1. \A t \in Tasks, target \in Slices : SUBSET Of(t, target) \subseteq SUBSET events
      BY DEF Of
    <3> QED BY <3>1 DEF Merge
  <2>2. Incoming(t, target, state, view).merged = TRUE
    BY DEF Incoming
  <2> QED BY <2>1, <2>2
<1>2. CommandsNeverFork'
  BY <1>1, HeadsShrink DEF ForkInv, CommandsNeverFork
<1>3. proc' = proc
  BY DEF Merge
<1>4. PredecessorsStand'
  <2>1. ASSUME NEW p \in Procs, At(p, "checkpoint", "publish"),
               NEW f \in Heads(proc[p].task, proc[p].target)'
        PROVE  f.merged \/ f.id \in proc[p].after
    <3>1. PICK s, r : s = proc[p].task /\ r = proc[p].target
      OBVIOUS
    <3>2. f \in Heads(s, r)'
      BY <3>1, <2>1, <1>3 DEF Heads, Unsuperseded, Of
    <3>3. f \in Heads(s, r) \cup {e}
      BY <3>2, <1>1, HeadsShrink
    <3> QED BY <3>1, <3>3, <1>1, <2>1 DEF ForkInv, PredecessorsStand
  <2> QED BY <2>1, <1>3 DEF PredecessorsStand, At
<1> QED BY <1>2, <1>4 DEF ForkInv

LEMMA ForkNext == Base /\ ForkInv /\ [Next]_vars => ForkInv'
  BY ForkNoEvent, ForkPublish, ForkMerge, EventsComeFrom

LEMMA ForkHolds == Spec => []ForkInv
  BY ForkInit, ForkNext, BaseHolds, PTL DEF Spec

(* However many processes checkpoint a target and merges arrive, two heads  *)
(* are never both of this clone's commands (runTaskCheckpoint).             *)
THEOREM CommandsForkNothing == Spec => []CommandsNeverFork
  BY ForkHolds, PTL DEF ForkInv

-----------------------------------------------------------------------------
(* Closeouts. *)

(* What task.json or a copy of it calls done has an event.                  *)
Ended ==
  /\ \A t \in Tasks, target \in Targets :
       json[t].state[target] = "done" => Of(t, target) # {}
  /\ \A p \in Procs, target \in Targets :
       proc[p].mem.state[target] = "done" => Of(proc[p].task, target) # {}
  /\ \A p \in Procs :
       At(p, "checkpoint", "project") => Of(proc[p].task, proc[p].target) # {}

(* A slice that a closeout takes for done has a head that says so, or one   *)
(* that a merge brought.                                                    *)
Closing ==
  \A p \in Procs : At(p, "checkpoint", "publish") /\ proc[p].target = Closeout =>
    \A s \in proc[p].mem.slices :
      \E e \in Heads(proc[p].task, s) : e.state = "done" \/ e.merged

LEMMA CloseInit == Init => Ended /\ Closing
<1> SUFFICES ASSUME Init PROVE Ended /\ Closing
  OBVIOUS
<1>1. \A p \in Procs : proc[p] = Idle
  BY DEF Init, TrackInit
<1>2. \A target \in Targets : NewTrack.state[target] = "open"
  BY DEF NewTrack
<1>3. Idle.mem = NewTrack /\ Idle.step = "idle"
  BY DEF Idle
<1>4. \A t \in Tasks : json[t] = NewTrack
  BY DEF Init, TrackInit
<1> QED BY <1>1, <1>2, <1>3, <1>4 DEF Ended, Closing, At

(* A manifest in memory is kept, dropped or loaded. *)
LEMMA MemoryComesFrom ==
  ASSUME Base, [Next]_vars, NEW p \in Procs
  PROVE  \/ proc'[p].mem = proc[p].mem /\ proc'[p].task = proc[p].task
         \/ proc'[p].mem = NewTrack
         \/ proc'[p].mem = Reconciled(proc'[p].task)
<1>0. proc \in [Procs -> Work]
  BY DEF Base, Typed
<1>1. CASE proc'[p] = proc[p]
  BY <1>1
<1>2. CASE proc'[p] # proc[p]
  <2>1. ASSUME NEW q \in Procs, Ends(q) PROVE proc'[p].mem = NewTrack
    <3>1. proc'[p] = Idle
      BY <2>1, <1>0, <1>2 DEF Ends
    <3> QED BY <3>1 DEF Idle
  <2>2. ~UNCHANGED vars /\ ~Merge
    BY <1>2 DEF vars, tvars, Merge
  <2>3. PICK q \in Procs :
          \/ (Checkpoint(q) \/ Load(q) \/ TrackStep(q)) /\ UNCHANGED gvars
          \/ BeginEdit(q) \/ BeginLink(q) \/ GraphStep(q) \/ Stop(q)
    BY <2>2 DEF Next
  <2>a. Idle.mem = NewTrack /\ DOMAIN Idle = {"job", "step", "wants", "task", "target",
                                            "state", "named", "after", "mem"}
    BY DEF Idle
  <2>4. CASE Checkpoint(q) \/ BeginEdit(q) \/ BeginLink(q)
    <3>1. CASE Checkpoint(q)
      <4>1. PICK t \in Tasks, target \in Targets, state \in States : \E named :
              proc' = [proc EXCEPT ![q] = [Idle EXCEPT !.job = "checkpoint", !.step = "lock",
                       !.wants = {t}, !.task = t, !.target = target, !.state = state,
                       !.named = named]]
        BY <3>1 DEF Checkpoint
      <4> HIDE DEF NewTrack
      <4> QED BY <4>1, <1>0, <1>2 DEF Idle
    <3>2. CASE BeginEdit(q)
      <4>1. proc' = [proc EXCEPT ![q] = [Idle EXCEPT !.job = "graph", !.step = "lock",
                                            !.wants = {Change} \cup links]]
        BY <3>2 DEF BeginEdit
      <4> QED BY <4>1, <1>0, <1>2 DEF Idle
    <3>3. CASE BeginLink(q)
      <4>1. PICK t \in Tasks : proc' = [proc EXCEPT ![q] = [Idle EXCEPT !.job = "link",
                                                !.step = "write", !.task = t]]
        BY <3>3 DEF BeginLink
      <4> QED BY <4>1, <1>0, <1>2 DEF Idle
    <3> QED BY <2>4, <3>1, <3>2, <3>3
  <2>5. CASE Load(q)
    <3>1. PICK t \in Tasks, job \in {"add", "refresh"} :
        proc' = [proc EXCEPT ![q] = [Idle EXCEPT !.job = job, !.step = "write",
                                                 !.task = t, !.mem = Reconciled(t)]]
      BY <2>5 DEF Load
    <3>2. proc'[p].task = t /\ proc'[p].mem = Reconciled(t)
      BY <3>1, <1>0, <1>2 DEF Idle
    <3> QED BY <3>2
  <2>6. CASE Acquire(q)
    BY <2>6, <1>0, <1>2 DEF Acquire, Work
  <2>7. CASE ReloadTrack(q)
    <3>1. CASE Ends(q)
      BY <3>1, <2>1
    <3>2. CASE ~Ends(q)
      <4>1. proc' = [proc EXCEPT ![q] = [@ EXCEPT !.step = "publish",
                                     !.mem = Reconciled(proc[q].task), !.after = Predecessors(q)]]
        BY <2>7, <3>2 DEF ReloadTrack
      <4>2. q = p
        BY <4>1, <1>0, <1>2
      <4>3. proc'[p].task = proc[p].task /\ proc'[p].mem = Reconciled(proc[p].task)
        BY <4>1, <4>2, <1>0 DEF Work
      <4> QED BY <4>3
    <3> QED BY <3>1, <3>2
  <2>8. CASE PublishEvent(q)
    BY <2>8, <1>0, <1>2 DEF PublishEvent, Work
  <2>9. CASE EditGraph(q)
    BY <2>9, <1>0, <1>2 DEF EditGraph, Work
  <2>10. CASE \/ ProjectEvent(q) \/ AddSlice(q) \/ Refresh(q) \/ RefuseEdit(q)
              \/ PublishGraph(q) \/ WriteLink(q) \/ Stop(q)
    BY <2>10, <2>1 DEF ProjectEvent, AddSlice, Refresh, RefuseEdit, PublishGraph, WriteLink,
                      Stop, Kill
  <2> QED BY <2>3, <2>4, <2>5, <2>6, <2>7, <2>8, <2>9, <2>10 DEF TrackStep, GraphStep
<1> QED BY <1>1, <1>2

(* task.json takes its states from a manifest in memory, and from an event. *)
LEMMA ManifestComesFrom ==
  ASSUME Base, [Next]_vars, NEW t \in Tasks
  PROVE  \/ json'[t].state = json[t].state
         \/ \E p \in Procs : /\ proc[p].task = t
                             /\ json'[t].state = proc[p].mem.state
         \/ \E p \in Procs : /\ proc[p].task = t /\ At(p, "checkpoint", "project")
                             /\ \A target \in Targets \ {proc[p].target} :
                                  json'[t].state[target] = proc[p].mem.state[target]
<1>0. json \in [Tasks -> Manifest] /\ \A p \in Procs : proc[p].mem \in Manifest /\ proc[p].task \in Tasks
  BY DEF Base, Typed, Work
<1>1. CASE json' = json
  BY <1>1
<1>2. ASSUME NEW p \in Procs, AddSlice(p) \/ Refresh(p)
      PROVE  json'[t].state = json[t].state
             \/ (proc[p].task = t /\ json'[t].state = proc[p].mem.state)
  BY <1>2, <1>0 DEF AddSlice, Refresh, Manifest
<1>3. ASSUME NEW p \in Procs, ProjectEvent(p)
      PROVE  \/ json'[t].state = json[t].state
             \/ /\ proc[p].task = t /\ At(p, "checkpoint", "project")
                /\ \A target \in Targets \ {proc[p].target} :
                     json'[t].state[target] = proc[p].mem.state[target]
  <2>1. CASE proc[p].task # t
    BY <2>1, <1>3, <1>0 DEF ProjectEvent
  <2>2. CASE proc[p].task = t
    <3>1. json'[t] = [proc[p].mem EXCEPT !.state[proc[p].target] = proc[p].state,
                                         !.durable = @ \/ proc[p].target = Closeout]
      BY <2>2, <1>3, <1>0 DEF ProjectEvent
    <3>2. json'[t].state = [proc[p].mem.state EXCEPT ![proc[p].target] = proc[p].state]
      BY <3>1, <1>0 DEF Manifest
    <3>3. \A target \in Targets \ {proc[p].target} :
             json'[t].state[target] = proc[p].mem.state[target]
      BY <3>2, <1>0 DEF Manifest
    <3> QED BY <2>2, <3>3, <1>3 DEF ProjectEvent
  <2> QED BY <2>1, <2>2
<1>4. \/ json' = json
      \/ \E p \in Procs : AddSlice(p) \/ Refresh(p) \/ ProjectEvent(p)
  BY DEF Next, vars, tvars, Checkpoint, Load, TrackStep, Acquire, ReloadTrack,
         PublishEvent, Merge, BeginEdit, BeginLink, GraphStep, EditGraph,
         RefuseEdit, PublishGraph, WriteLink, Stop, Kill
<1> QED BY <1>1, <1>2, <1>3, <1>4

LEMMA EventsStay ==
  ASSUME Base, [Next]_vars
  PROVE  \A t, target : Of(t, target) \subseteq Of(t, target)'
<1>1. events \subseteq events'
  BY EventsComeFrom DEF PublishEvent, Merge
<1> QED BY <1>1 DEF Of

(* A checkpoint is to be projected once its event is there. *)
LEMMA ReachesProject ==
  ASSUME Base, [Next]_vars, NEW p \in Procs, At(p, "checkpoint", "project")'
  PROVE  \/ At(p, "checkpoint", "project") /\ proc'[p] = proc[p]
         \/ PublishEvent(p)
<1>0. proc \in [Procs -> Work] /\ proc'[p].step = "project"
  BY DEF Base, Typed, At
<1>1. CASE proc'[p] = proc[p]
  BY <1>1 DEF At
<1>2. CASE proc'[p] # proc[p]
  <2>1. ASSUME NEW q \in Procs, Ends(q) PROVE FALSE
    <3>1. proc'[p] = Idle
      BY <2>1, <1>0, <1>2 DEF Ends
    <3> QED BY <3>1, <1>0 DEF Idle
  <2>2. ~UNCHANGED vars /\ ~Merge
    BY <1>2 DEF vars, tvars, Merge
  <2>3. PICK q \in Procs :
          \/ (Checkpoint(q) \/ Load(q) \/ TrackStep(q)) /\ UNCHANGED gvars
          \/ BeginEdit(q) \/ BeginLink(q) \/ GraphStep(q) \/ Stop(q)
    BY <2>2 DEF Next
  <2>4. CASE Checkpoint(q) \/ Load(q) \/ BeginEdit(q) \/ BeginLink(q)
    BY <2>4, <1>0, <1>2, Begins
  <2>5. CASE Acquire(q)
    BY <2>5, <1>0, <1>2 DEF Acquire, Work
  <2>6. CASE ReloadTrack(q)
    BY <2>6, <2>1, <1>0, <1>2 DEF ReloadTrack, Work
  <2>7. CASE PublishEvent(q)
    BY <2>7, <1>0, <1>2 DEF PublishEvent
  <2>8. CASE EditGraph(q)
    BY <2>8, <1>0, <1>2 DEF EditGraph, Work
  <2>9. CASE \/ ProjectEvent(q) \/ AddSlice(q) \/ Refresh(q) \/ RefuseEdit(q)
             \/ PublishGraph(q) \/ WriteLink(q) \/ Stop(q)
    BY <2>9, <2>1 DEF ProjectEvent, AddSlice, Refresh, RefuseEdit, PublishGraph, WriteLink,
                      Stop, Kill
  <2> QED BY <2>3, <2>4, <2>5, <2>6, <2>7, <2>8, <2>9 DEF TrackStep, GraphStep
<1> QED BY <1>1, <1>2

(* A reload calls nothing done that neither task.json nor an event does.    *)
LEMMA LoadsEnded ==
  ASSUME Base, Ended, NEW t \in Tasks, NEW target \in Targets,
         Reconciled(t).state[target] = "done"
  PROVE  Of(t, target) # {}
  BY ReconciledTyped DEF Base, Ended

LEMMA EndedNext ==
  ASSUME Base, Ended, [Next]_vars
  PROVE  Ended'
<1>0. /\ proc \in [Procs -> Work] /\ proc' \in [Procs -> Work]
      /\ \A p \in Procs : proc[p].task \in Tasks /\ proc'[p].task \in Tasks
      /\ \A p \in Procs : proc[p].target \in Targets
  BY BaseNext DEF Base, Typed, Work
<1>1. ASSUME NEW t \in Tasks, NEW target \in Targets, json'[t].state[target] = "done"
      PROVE  Of(t, target)' # {}
  <2>1. Of(t, target) # {}
    <3>1. CASE json'[t].state = json[t].state
      BY <3>1, <1>1 DEF Ended
    <3>2. ASSUME NEW p \in Procs, proc[p].task = t, json'[t].state = proc[p].mem.state
          PROVE  Of(t, target) # {}
      BY <3>2, <1>1 DEF Ended
    <3>3. ASSUME NEW p \in Procs, proc[p].task = t, At(p, "checkpoint", "project"),
                 \A r \in Targets \ {proc[p].target} :
                   json'[t].state[r] = proc[p].mem.state[r]
          PROVE  Of(t, target) # {}
      BY <3>3, <1>1 DEF Ended
    <3> QED BY <3>1, <3>2, <3>3, ManifestComesFrom
  <2> QED BY <2>1, EventsStay
<1>2. ASSUME NEW p \in Procs, NEW target \in Targets,
             proc'[p].mem.state[target] = "done"
      PROVE  Of(proc'[p].task, target) # {}
  <2>1. CASE proc'[p].mem = proc[p].mem /\ proc'[p].task = proc[p].task
    BY <2>1, <1>2 DEF Ended
  <2>2. CASE proc'[p].mem = NewTrack
    BY <2>2, <1>2 DEF NewTrack
  <2>3. CASE proc'[p].mem = Reconciled(proc'[p].task)
    BY <2>3, <1>0, <1>2, LoadsEnded
  <2> QED BY <2>1, <2>2, <2>3, MemoryComesFrom
<1>3. ASSUME NEW p \in Procs, NEW target \in Targets,
             proc'[p].mem.state[target] = "done"
      PROVE  Of(proc[p].task, target)' # {}
  <2>1. PICK t : t = proc'[p].task
    OBVIOUS
  <2>2. Of(t, target)' # {}
    BY <2>1, <1>2, <1>3, EventsStay
  <2> QED BY <2>1, <2>2 DEF Of
<1>4. ASSUME NEW p \in Procs, At(p, "checkpoint", "project")'
      PROVE  Of(proc[p].task, proc[p].target)' # {}
  <2>1. PICK t, target : t = proc[p].task /\ target = proc[p].target
    OBVIOUS
  <2>2. CASE At(p, "checkpoint", "project") /\ proc'[p] = proc[p]
    <3>1. Of(t, target) # {}
      BY <2>1, <2>2 DEF Ended
    <3>2. Of(t, target)' # {}
      BY <3>1, EventsStay
    <3> QED BY <2>1, <2>2, <3>2 DEF Of
  <2>3. CASE PublishEvent(p)
    <3>1. proc'[p].task = t /\ proc'[p].target = target
      BY <2>1, <2>3, <1>0 DEF PublishEvent, Work
    <3>2. PICK e : e = [id |-> NewId, task |-> proc[p].task, target |-> proc[p].target,
                 state |-> proc[p].state, after |-> proc[p].after, merged |-> FALSE]
      OBVIOUS
    <3>3. e \in events' /\ e.task = t /\ e.target = target
      BY <2>1, <2>3, <3>2 DEF PublishEvent
    <3> QED BY <3>1, <3>3 DEF Of
  <2> QED BY <2>2, <2>3, <1>4, ReachesProject
<1> QED BY <1>1, <1>3, <1>4 DEF Ended

(* Events of other targets leave the heads of this one alone.               *)
LEMMA HeadsOfOthers ==
  ASSUME NEW e, events' = events \cup {e}, NEW t, NEW target,
         e.task # t \/ e.target # target
  PROVE  Heads(t, target)' = Heads(t, target)
  BY DEF Heads, Unsuperseded, Of

(* What a merge brings is a head.                                           *)
LEMMA MergedIsHead ==
  ASSUME Base, NEW t, NEW target, NEW state, NEW view \in SUBSET Of(t, target),
         events' = events \cup {Incoming(t, target, state, view)}
  PROVE  Incoming(t, target, state, view) \in Heads(t, target)'
<1>0. PICK e : e = Incoming(t, target, state, view)
  OBVIOUS
<1>1. /\ e.id = Cardinality(events) + 1 /\ e.task = t /\ e.target = target
      /\ e.after = {f.id : f \in Unsuperseded(view)}
  BY <1>0 DEF Incoming, NewId
<1>2. Cardinality(events) \in Nat /\ \A f \in events : f.id \in Nat /\ f.after \subseteq Nat
  BY FS_CardinalityType DEF Base, Typed, Event
<1>3. \A f \in events : e.id \notin f.after
  BY <1>1, <1>2 DEF Base, Numbered
<1>4. e.id \notin e.after
  <2>1. \A f \in Unsuperseded(view) : f \in events
    BY DEF Unsuperseded, Of
  <2>2. \A f \in events : f.id # e.id
    BY <1>1, <1>2 DEF Base, Numbered
  <2> QED BY <1>1, <2>1, <2>2
<1>5. events' = events \cup {e}
  BY <1>0
<1>6. e \in Heads(t, target)'
  BY <1>1, <1>3, <1>4, <1>5 DEF Heads, Unsuperseded, Of
<1> QED BY <1>0, <1>6

(* What a closeout's reload finds done has such a head.                     *)
LEMMA ReloadCloses ==
  ASSUME Base, Ended, CommandsNeverFork, NEW t \in Tasks,
         NEW s \in json[t].slices, Reconciled(t).state[s] = "done"
  PROVE  \E e \in Heads(t, s) : e.state = "done" \/ e.merged
<1>1. s \in Targets
  BY DEF Base, Typed, Manifest, Targets
<1>2. Of(t, s) # {}
  BY <1>1, LoadsEnded
<1>3. PICK e \in Heads(t, s) : TRUE
  BY <1>1, <1>2, HeadExists DEF Base
<1>4. CASE Conflicted(t, s)
  <2>1. PICK g, f \in Heads(t, s) : g # f
    BY <1>4 DEF Conflicted
  <2>2. /\ g \in events /\ f \in events /\ g.task = t /\ f.task = t
        /\ g.target = s /\ f.target = s
    BY <2>1 DEF Heads, Unsuperseded, Of
  <2>3. g.merged \/ f.merged
    BY <2>1, <2>2 DEF CommandsNeverFork
  <2> QED BY <2>1, <2>3
<1>5. CASE ~Conflicted(t, s)
  <2>1. (CHOOSE f \in Heads(t, s) : TRUE).state = "done"
    BY <1>1, <1>2, <1>5, ReconciledTyped DEF Base
  <2>2. (CHOOSE f \in Heads(t, s) : TRUE) \in Heads(t, s)
    BY <1>3
  <2> QED BY <2>1, <2>2
<1> QED BY <1>4, <1>5

LEMMA ClosingNext ==
  ASSUME Base, Ended, CommandsNeverFork, Closing, [Next]_vars
  PROVE  Closing'
<1>0. proc \in [Procs -> Work] /\ \A p \in Procs : proc[p].task \in Tasks
  BY DEF Base, Typed, Work
<1> SUFFICES ASSUME NEW p \in Procs, At(p, "checkpoint", "publish")',
                    proc'[p].target = Closeout, NEW s \in proc'[p].mem.slices
             PROVE  \E e \in Heads(proc[p].task, s)' : e.state = "done" \/ e.merged
  BY DEF Closing
<1>1. PICK t : t = proc'[p].task
  OBVIOUS
<1>2. \E e \in Heads(t, s)' : e.state = "done" \/ e.merged
  <2>1. CASE At(p, "checkpoint", "publish") /\ proc'[p] = proc[p]
    <3>1. PICK e \in Heads(t, s) : e.state = "done" \/ e.merged
      BY <2>1, <1>1 DEF Closing
    <3>2. CASE events' = events
      BY <3>1, <3>2 DEF Heads, Unsuperseded, Of
    <3>3. ASSUME NEW q \in Procs, PublishEvent(q)
          PROVE  e \in Heads(t, s)'
      <4>1. q # p
        BY <2>1, <3>3, <1>0 DEF PublishEvent, At, Work
      <4>2. proc[p].wants \cap proc[q].wants = {}
        BY <2>1, <3>3, <4>1, LocksExclude DEF PublishEvent, At
      <4>3. proc[q].task # t
        BY <2>1, <3>3, <4>2, <1>1 DEF PublishEvent, At, Base, Fits
      <4>4. PICK f : f = [id |-> NewId, task |-> proc[q].task, target |-> proc[q].target,
                 state |-> proc[q].state, after |-> proc[q].after, merged |-> FALSE]
        OBVIOUS
      <4>5. events' = events \cup {f} /\ f.task # t
        BY <4>3, <4>4, <3>3 DEF PublishEvent
      <4> QED BY <4>5, <3>1, HeadsOfOthers
    <3>4. CASE Merge
      <4>1. PICK r \in Tasks, target \in Slices, state \in States :
              \E view \in SUBSET Of(r, target) :
                events' = events \cup {Incoming(r, target, state, view)}
        BY <3>4 DEF Merge
      <4>2. PICK view \in SUBSET Of(r, target) :
              events' = events \cup {Incoming(r, target, state, view)}
        BY <4>1
      <4>3. PICK f : f = Incoming(r, target, state, view)
        OBVIOUS
      <4>4. f.task = r /\ f.target = target /\ f.merged
        BY <4>3 DEF Incoming
      <4>5. CASE r = t /\ target = s
        BY <4>2, <4>3, <4>4, <4>5, MergedIsHead
      <4>6. CASE r # t \/ target # s
        <5>1. Heads(t, s)' = Heads(t, s)
          BY <4>2, <4>3, <4>4, <4>6, HeadsOfOthers
        <5> QED BY <5>1, <3>1
      <4> QED BY <4>5, <4>6
    <3> QED BY <3>1, <3>2, <3>3, <3>4, EventsComeFrom
  <2>2. CASE ReloadTrack(p)
    <3>1. ~Ends(p)
      BY <1>0 DEF Ends, Idle, At
    <3>2. /\ MayCheckpoint(Reconciled(proc[p].task), proc[p].target, proc[p].state)
          /\ proc' = [proc EXCEPT ![p] = [@ EXCEPT !.step = "publish",
                                      !.mem = Reconciled(proc[p].task), !.after = Predecessors(p)]]
          /\ events' = events
      BY <2>2, <3>1 DEF ReloadTrack
    <3>3. /\ t = proc[p].task /\ proc'[p].mem = Reconciled(t)
          /\ proc[p].target = Closeout /\ t \in Tasks
      BY <3>2, <1>0, <1>1 DEF Work
    <3>4. s \in json[t].slices
      BY <3>3, ReconciledTyped DEF Base
    <3>5. Reconciled(t).state[s] = "done"
      BY <3>2, <3>3 DEF MayCheckpoint
    <3>6. Heads(t, s)' = Heads(t, s)
      BY <3>2 DEF Heads, Unsuperseded, Of
    <3> QED BY <3>3, <3>4, <3>5, <3>6, ReloadCloses
  <2> QED BY <2>1, <2>2, ReachesPublish
<1> QED BY <1>1, <1>2 DEF Heads, Unsuperseded, Of

LEMMA CloseHolds == Spec => [](Ended /\ Closing)
<1>1. Base /\ ForkInv /\ Ended /\ Closing /\ [Next]_vars => (Ended /\ Closing)'
  BY EndedNext, ClosingNext DEF ForkInv
<1> QED BY <1>1, CloseInit, BaseHolds, ForkHolds, PTL DEF Spec

(* A closeout is published when each slice it read has a head that is done  *)
(* or came with a merge: the lock is held from the reload on                *)
(* (validateTaskDurabilityCheckpoint, runTaskCheckpoint).                   *)
THEOREM CloseoutsFollowWork == Spec => CloseoutFollowsWork
<1>1. Closing => [\A p \in Procs : At(p, "checkpoint", "publish") /\ proc'[p].step = "project"
                        /\ proc[p].target = Closeout =>
       \A s \in proc[p].mem.slices :
         \E e \in Heads(proc[p].task, s) : e.state = "done" \/ e.merged]_<<events, proc>>
  BY DEF Closing
<1> QED BY <1>1, CloseHolds, PTL DEF CloseoutFollowsWork

-----------------------------------------------------------------------------
(* Graph edits. *)

(* What an edit leaves to be published.                                     *)
LEMMA EditEffect ==
  ASSUME Base, NEW p \in Procs, EditGraph(p)
  PROVE  \E lanes \in [Lanes -> Lane], k \in Lanes :
           /\ Valid(lanes) /\ MayReplace(definition.lanes, lanes)
           /\ edit'[p].next = Next1(lanes)
           /\ \A l \in Lanes \ {k} : lanes[l] = definition.lanes[l]
<1>0. edit \in [Procs -> Edit] /\ definition \in Definition /\ MaxTargets \in Nat
  BY ThreadAssumption DEF Base, Typed
<1>1. PICK k \in Lanes, n \in 0..MaxTargets :
        \E targets \in [1..n -> links \X Slices], after \in SUBSET (Lanes \ {k}) :
          LET lanes == [definition.lanes EXCEPT
                          ![k] = IF n = 0 THEN NoLane
                                 ELSE [targets |-> targets, after |-> after]]
          IN /\ Valid(lanes) /\ MayReplace(definition.lanes, lanes)
             /\ edit' = [edit EXCEPT ![p] = [saw |-> links, next |-> Next1(lanes)]]
  BY DEF EditGraph
<1>2. PICK targets \in [1..n -> links \X Slices], after \in SUBSET (Lanes \ {k}) :
        LET lanes == [definition.lanes EXCEPT
                          ![k] = IF n = 0 THEN NoLane
                                 ELSE [targets |-> targets, after |-> after]]
        IN /\ Valid(lanes) /\ MayReplace(definition.lanes, lanes)
           /\ edit' = [edit EXCEPT ![p] = [saw |-> links, next |-> Next1(lanes)]]
  BY <1>1
<1>3. PICK lanes : lanes = [definition.lanes EXCEPT
                          ![k] = IF n = 0 THEN NoLane
                                 ELSE [targets |-> targets, after |-> after]]
  OBVIOUS
<1>4. Next1(lanes) \in Definition
  BY <1>0, <1>3, EditedTyped
<1>5. lanes \in [Lanes -> Lane]
  BY <1>4 DEF Next1, Definition
<1>6. \A l \in Lanes \ {k} : lanes[l] = definition.lanes[l]
  BY <1>0, <1>3 DEF Definition
<1>7. /\ Valid(lanes) /\ MayReplace(definition.lanes, lanes)
      /\ edit' = [edit EXCEPT ![p] = [saw |-> links, next |-> Next1(lanes)]]
  BY <1>2, <1>3
<1>8. edit'[p].next = Next1(lanes)
  BY <1>0, <1>7
<1> QED BY <1>5, <1>6, <1>7, <1>8

(* An edit waits for its publication with what it read. *)
LEMMA ReachesGraphPublish ==
  ASSUME Base, [Next]_vars, NEW p \in Procs, At(p, "graph", "publish")'
  PROVE  \/ At(p, "graph", "publish") /\ proc'[p] = proc[p] /\ edit'[p] = edit[p]
         \/ EditGraph(p)
<1>0. /\ proc \in [Procs -> Work] /\ edit \in [Procs -> Edit]
      /\ proc'[p].step = "publish" /\ proc'[p].job = "graph"
  BY DEF Base, Typed, At
<1>1. ASSUME NEW q \in Procs, Ends(q), edit' = [edit EXCEPT ![q] = NoEdit] \/ edit' = edit
      PROVE  proc'[p] = proc[p] /\ edit'[p] = edit[p]
  <2>1. proc' = [proc EXCEPT ![q] = Idle]
    BY <1>1 DEF Ends
  <2>2. q # p
    BY <2>1, <1>0 DEF Idle
  <2> QED BY <2>1, <2>2, <1>0, <1>1
<1>2. CASE UNCHANGED vars \/ (Merge /\ UNCHANGED gvars)
  BY <1>2, <1>0 DEF vars, tvars, gvars, Merge, At
<1>3. ASSUME NEW q \in Procs,
             \/ (Checkpoint(q) \/ Load(q) \/ TrackStep(q)) /\ UNCHANGED gvars
             \/ BeginEdit(q) \/ BeginLink(q) \/ GraphStep(q) \/ Stop(q)
      PROVE  \/ At(p, "graph", "publish") /\ proc'[p] = proc[p] /\ edit'[p] = edit[p]
             \/ EditGraph(p)
  <2>1. CASE (Checkpoint(q) \/ Load(q)) /\ UNCHANGED gvars
    <3>1. CASE Checkpoint(q)
      BY <2>1, <3>1, <1>0 DEF Checkpoint, Idle, At, gvars
    <3>2. CASE Load(q)
      BY <2>1, <3>2, <1>0 DEF Load, Idle, At, gvars
    <3> QED BY <2>1, <3>1, <3>2
  <2>2. CASE BeginEdit(q) \/ BeginLink(q)
    BY <2>2, <1>0 DEF BeginEdit, BeginLink, Idle, At
  <2>3. CASE Acquire(q) /\ UNCHANGED gvars
    BY <2>3, <1>0 DEF Acquire, Work, At, gvars
  <2>4. CASE (ReloadTrack(q) \/ PublishEvent(q)) /\ UNCHANGED gvars /\ ~Ends(q)
    <3>1. /\ proc[q].job = "checkpoint" /\ edit' = edit
          /\ \A r \in Procs \ {q} : proc'[r] = proc[r]
          /\ proc'[q].job = proc[q].job
      BY <2>4, <1>0 DEF ReloadTrack, PublishEvent, At, gvars, Work
    <3> QED BY <3>1, <1>0 DEF At
  <2>5. CASE (ReloadTrack(q) \/ ProjectEvent(q) \/ AddSlice(q) \/ Refresh(q))
             /\ UNCHANGED gvars /\ Ends(q)
    BY <2>5, <1>0, <1>1 DEF At, gvars
  <2>6. CASE EditGraph(q)
    <3>1. CASE q = p
      BY <2>6, <3>1
    <3>2. CASE q # p
      BY <2>6, <3>2, <1>0 DEF EditGraph, At
    <3> QED BY <3>1, <3>2
  <2>7. CASE RefuseEdit(q) \/ PublishGraph(q) \/ WriteLink(q) \/ Stop(q)
    <3>1. Ends(q) /\ edit' = [edit EXCEPT ![q] = NoEdit]
      BY <2>7 DEF RefuseEdit, PublishGraph, WriteLink, Stop, Kill
    <3> QED BY <3>1, <1>0, <1>1 DEF At
  <2>8. ProjectEvent(q) \/ AddSlice(q) \/ Refresh(q) => Ends(q)
    BY DEF ProjectEvent, AddSlice, Refresh
  <2>9. PublishEvent(q) => ~Ends(q)
    BY <1>0 DEF PublishEvent, Ends, Idle
  <2> QED BY <1>3, <2>1, <2>2, <2>3, <2>4, <2>5, <2>6, <2>7, <2>8, <2>9
          DEF TrackStep, GraphStep
<1> QED BY <1>2, <1>3 DEF Next

(* Only a publication changes the threads file. *)
LEMMA DefinitionComesFrom ==
  ASSUME [Next]_vars
  PROVE  definition' = definition \/ \E p \in Procs : PublishGraph(p)
  BY DEF Next, vars, gvars, BeginEdit, BeginLink, GraphStep, EditGraph, RefuseEdit,
         WriteLink, Stop

(* One edit at a time is past the lock of the change. *)
LEMMA OneEdit ==
  ASSUME Base, NEW p \in Procs, NEW q \in Procs, p # q,
         At(p, "graph", "publish"), At(q, "graph", "publish")
  PROVE  FALSE
<1>1. Change \in proc[p].wants \cap proc[q].wants
  BY DEF Base, Fits, At
<1> QED BY <1>1, LocksExclude DEF At

(* What waits for publication still follows the file. *)
Serial ==
  \A p \in Procs : At(p, "graph", "publish") =>
    /\ edit[p].next.revision = definition.revision + 1
    /\ \E k \in Lanes : \A l \in Lanes \ {k} :
         edit[p].next.lanes[l] = definition.lanes[l]

LEMMA SerialInit == Init => Serial
  BY DEF Init, TrackInit, Idle, Serial, At

LEMMA SerialNext ==
  ASSUME Base, Serial, [Next]_vars
  PROVE  Serial'
<1> SUFFICES ASSUME NEW p \in Procs, At(p, "graph", "publish")'
             PROVE  /\ edit'[p].next.revision = definition'.revision + 1
                    /\ \E k \in Lanes : \A l \in Lanes \ {k} :
                         edit'[p].next.lanes[l] = definition'.lanes[l]
  BY DEF Serial
<1>1. CASE At(p, "graph", "publish") /\ proc'[p] = proc[p] /\ edit'[p] = edit[p]
  <2>1. CASE definition' = definition
    BY <1>1, <2>1 DEF Serial
  <2>2. ASSUME NEW q \in Procs, PublishGraph(q) PROVE FALSE
    <3>1. q # p
      BY <1>1, <2>2 DEF PublishGraph, Ends, Idle, At, Base, Typed
    <3> QED BY <3>1, <1>1, <2>2, OneEdit DEF PublishGraph
  <2> QED BY <2>1, <2>2, DefinitionComesFrom
<1>2. CASE EditGraph(p)
  <2>1. PICK lanes \in [Lanes -> Lane], k \in Lanes :
           /\ edit'[p].next = Next1(lanes)
           /\ \A l \in Lanes \ {k} : lanes[l] = definition.lanes[l]
    BY <1>2, EditEffect
  <2>2. definition' = definition
    BY <1>2 DEF EditGraph
  <2> QED BY <2>1, <2>2 DEF Next1
<1> QED BY <1>1, <1>2, ReachesGraphPublish

LEMMA SerialHolds == Spec => []Serial
  BY SerialInit, SerialNext, BaseHolds, PTL DEF Spec

(* Of edits at the same time none is lost: each revision of the threads     *)
(* file follows the one before and changes one lane of it                   *)
(* (runThreadSet, runThreadRemove under acquireTaskMutations).              *)
THEOREM EditsSerial == Spec => EditsAreSerial
<1>1. Base /\ Serial /\ [Next]_vars =>
        [definition' # definition =>
          /\ definition'.revision = definition.revision + 1
          /\ \E k \in Lanes : \A l \in Lanes \ {k} :
               definition'.lanes[l] = definition.lanes[l]]_vars
  BY DefinitionComesFrom DEF Serial, PublishGraph
<1> QED BY <1>1, BaseHolds, SerialHolds, PTL DEF Spec, EditsAreSerial

-----------------------------------------------------------------------------
(* Started lanes. *)

(* An edit that waits for publication keeps the lanes that have begun. *)
LanesHeld ==
  \A p \in Procs : At(p, "graph", "publish") =>
     \A k \in Lanes : Begun(definition.lanes[k], edit[p].saw) =>
                        Pinned(definition.lanes[k], edit[p].next.lanes[k])

LEMMA LanesInit == Init => LanesHeld
  BY DEF Init, TrackInit, LanesHeld, Idle, At

(* A lane that a checkpoint has begun in a linked task is started for the   *)
(* reload.                                                                  *)
LEMMA BegunStarted ==
  ASSUME Base, NEW k \in Lanes, Begun(definition.lanes[k], links)
  PROVE  k \in Named(definition.lanes) /\ Started(definition.lanes[k], History)
<1>1. definition.lanes[k].targets \in Seq(References)
  BY DEF Base, Typed, Definition, Lane
<1> DEFINE ts == definition.lanes[k].targets
<1>2. PICK e \in events : e.task \in links /\ <<e.task, e.target>> \in Range(ts)
  BY DEF Begun
<1>3. PICK i \in DOMAIN ts : ts[i] = <<e.task, e.target>>
  BY <1>2 DEF Range
<1>4. ts[i] \in Tasks \X Slices
  <2> HIDE DEF ts
  <2>1. ts \in Seq(References)
    BY <1>1 DEF ts
  <2> QED BY <2>1, <1>3 DEF References
<1>5. e.target \in Slices
  BY <1>3, <1>4
<1>6. e.target # Closeout
  BY <1>5, TaskAssumption DEF Slices, Closeout
<1>7. <<e.task, e.target>> \in History
  BY <1>2, <1>6 DEF History
<1>8. ts # <<>>
  BY <1>3
<1> QED BY <1>2, <1>7, <1>8 DEF Started, Named

LEMMA LanesNext ==
  ASSUME Base, LanesHeld, [Next]_vars
  PROVE  LanesHeld'
<1>1. ASSUME NEW p \in Procs, At(p, "graph", "publish")', NEW k \in Lanes,
             Begun(definition.lanes[k], edit[p].saw)'
      PROVE  Pinned(definition'.lanes[k], edit'[p].next.lanes[k])
  <2>1. CASE At(p, "graph", "publish") /\ proc'[p] = proc[p] /\ edit'[p] = edit[p]
    <3>1. definition' = definition
      <4>1. ASSUME NEW q \in Procs, PublishGraph(q) PROVE FALSE
        <5>1. q # p
          BY <2>1, <4>1 DEF PublishGraph, Ends, Idle, At, Base, Typed
        <5> QED BY <5>1, <2>1, <4>1, OneEdit DEF PublishGraph
      <4> QED BY <4>1, DefinitionComesFrom
    <3>2. PICK e \in events' : /\ ~e.merged /\ e.task \in edit[p].saw
                               /\ <<e.task, e.target>> \in Range(definition.lanes[k].targets)
      BY <1>1, <2>1, <3>1 DEF Begun
    <3>3. e \in events
      <4>1. CASE events' = events
        BY <3>2, <4>1
      <4>2. CASE Merge
        <5>1. PICK r \in Tasks, target \in Slices, state \in States :
                \E view \in SUBSET Of(r, target) :
                  events' = events \cup {Incoming(r, target, state, view)}
          BY <4>2 DEF Merge
        <5>2. PICK view \in SUBSET Of(r, target) :
                events' = events \cup {Incoming(r, target, state, view)}
          BY <5>1
        <5>3. Incoming(r, target, state, view).merged = TRUE
          BY DEF Incoming
        <5> QED BY <5>2, <5>3, <3>2
      <4>3. ASSUME NEW q \in Procs, PublishEvent(q)
            PROVE  e \in events
        <5>1. q # p
          BY <2>1, <4>3 DEF PublishEvent, At
        <5>2. proc[p].wants \cap proc[q].wants = {}
          BY <2>1, <4>3, <5>1, LocksExclude DEF PublishEvent, At
        <5>3. proc[q].task \notin proc[p].wants
          BY <4>3, <5>2 DEF PublishEvent, At, Base, Fits
        <5>4. e.task \in proc[p].wants
          BY <2>1, <3>2 DEF Base, Fits, At
        <5>5. PICK f : f = [id |-> NewId, task |-> proc[q].task, target |-> proc[q].target,
                 state |-> proc[q].state, after |-> proc[q].after, merged |-> FALSE]
          OBVIOUS
        <5>6. events' = events \cup {f} /\ f.task = proc[q].task
          BY <5>5, <4>3 DEF PublishEvent
        <5> QED BY <3>2, <5>3, <5>4, <5>6
      <4> QED BY <4>1, <4>2, <4>3, EventsComeFrom
    <3>4. Begun(definition.lanes[k], edit[p].saw)
      BY <3>2, <3>3 DEF Begun
    <3> QED BY <2>1, <3>1, <3>4 DEF LanesHeld
  <2>2. CASE EditGraph(p)
    <3>1. PICK lanes \in [Lanes -> Lane] :
             /\ Valid(lanes) /\ MayReplace(definition.lanes, lanes)
             /\ edit'[p].next = Next1(lanes)
      BY <2>2, EditEffect
    <3>2. edit'[p].next.lanes = lanes
      BY <3>1 DEF Next1
    <3>3. definition' = definition /\ events' = events /\ edit'[p].saw = links
      BY <2>2 DEF EditGraph, Base, Typed
    <3>4. Begun(definition.lanes[k], links)
      BY <1>1, <3>3 DEF Begun
    <3> QED BY <3>1, <3>2, <3>3, <3>4, BegunStarted DEF MayReplace
  <2> QED BY <1>1, <2>1, <2>2, ReachesGraphPublish
<1> QED BY <1>1 DEF LanesHeld

(* No edit changes the dependencies of a lane that a checkpoint of this     *)
(* clone has begun in a task its reload found linked, or more than appends  *)
(* to its targets: the locks of those tasks keep checkpoints out between    *)
(* the check and the publication (validateThreadDefinitionMutation), also   *)
(* while other writers add, replace or lose links.                          *)
THEOREM StartedLanesStand == Spec => PinnedLanesStand
<1> DEFINE Kept == \A p \in Procs :
             At(p, "graph", "publish") /\ proc'[p].step = "idle" /\ definition' # definition =>
               \A k \in Lanes : Begun(definition.lanes[k], edit[p].saw) =>
                                  Pinned(definition.lanes[k], definition'.lanes[k])
<1>1. Base /\ LanesHeld /\ [Next]_vars => LanesHeld'
  BY LanesNext
<1>2. Base /\ LanesHeld /\ [Next]_vars => [Kept]_vars
  <2> SUFFICES ASSUME Base, LanesHeld, [Next]_vars, NEW p \in Procs,
                      At(p, "graph", "publish"), definition' # definition,
                      NEW k \in Lanes, Begun(definition.lanes[k], edit[p].saw)
               PROVE  Pinned(definition.lanes[k], definition'.lanes[k])
    OBVIOUS
  <2>1. PICK q \in Procs : PublishGraph(q)
    BY DefinitionComesFrom
  <2>2. q = p
    BY <2>1, OneEdit DEF PublishGraph
  <2> QED BY <2>1, <2>2 DEF PublishGraph, LanesHeld
<1> QED BY <1>1, <1>2, LanesInit, BaseHolds, PTL DEF Spec, PinnedLanesStand

=============================================================================
