----------------------------- MODULE TaskThreads -----------------------------
(***************************************************************************)
(* The named execution threads of a workspace change (thread_mutation.go,  *)
(* thread_definition.go, slice.go, change.go) over the tracks of the tasks *)
(* it links.                                                               *)
(*                                                                         *)
(* A graph edit looks up the links, locks the change and every linked      *)
(* task, looks again, and publishes the definition as one file.  Linking a *)
(* task rewrites the change's document, without a lock.  A repo-owned      *)
(* graph is the case of one task, whose lock is the only one.              *)
(***************************************************************************)
EXTENDS TaskCheckpoints, Sequences, Functions

CONSTANTS
  Change,       \* the lock of the change's threads
  RepoOf,       \* the repository alias of each task
  Linked,       \* the tasks linked at first
  Lanes,        \* thread keys
  MaxTargets,   \* bound: targets of a lane
  MaxRevision,  \* bound: revisions of the definition
  MaxLinks      \* bound: tasks linked

ASSUME ThreadAssumption ==
  /\ Change \in Locks \ Tasks
  /\ Linked \subseteq Tasks
  /\ MaxTargets \in Nat /\ MaxRevision \in Nat /\ MaxLinks \in Nat

VARIABLES
  links,        \* the tasks in the change's Repo Slices
  definition,   \* the threads file
  edit,         \* what each process knows of the graph
  linkings      \* links started

gvars == <<links, definition, edit, linkings>>
vars == <<tvars, gvars>>

References == Tasks \X Slices
(* A key without targets is not in the file. *)
Lane == [targets : Seq(References), after : SUBSET Lanes]
NoLane == [targets |-> <<>>, after |-> {}]
Definition == [revision : Nat, lanes : [Lanes -> Lane]]
NoDefinition == [revision |-> 0, lanes |-> [k \in Lanes |-> NoLane]]

(* saw: the links as last read; next: the definition it will publish.       *)
Edit == [saw : SUBSET Tasks, next : Definition]
NoEdit == [saw |-> {}, next |-> NoDefinition]

Named(lanes) == {k \in Lanes : lanes[k].targets # <<>>}

-----------------------------------------------------------------------------
(* validateThreadDefinitionCycles: some lane of every set waits for none of *)
(* the set.                                                                 *)
Acyclic(lanes) ==
  \A ks \in SUBSET Named(lanes) \ {{}} : \E k \in ks : lanes[k].after \cap ks = {}

(* validateWorkspaceThreadDefinition, validateThreadDefinitionGraph: targets *)
(* are base slices of linked tasks, in one place of one lane.               *)
Valid(lanes) ==
  /\ Named(lanes) # {}
  /\ \A k \in Named(lanes) :
       /\ \A i \in DOMAIN lanes[k].targets :
            LET r == lanes[k].targets[i]
            IN /\ r[1] \in links /\ r[2] \in json[r[1]].slices
               /\ \A l \in Named(lanes) : \A j \in DOMAIN lanes[l].targets :
                    lanes[l].targets[j] = r => l = k /\ j = i
       /\ lanes[k].after \subseteq Named(lanes)
  /\ Acyclic(lanes)

(* checkpointedThreadTargets, of the tasks that are linked.                 *)
History == {<<e.task, e.target>> :
              e \in {f \in events : f.task \in links /\ f.target # Closeout}}
Started(lane, history) == Range(lane.targets) \cap history # {}

IsPrefixOf(s, t) == Len(s) <= Len(t) /\ \A i \in DOMAIN s : t[i] = s[i]
(* validateThreadDefinitionMutation: what a started lane keeps.             *)
Pinned(old, new) == new.after = old.after /\ IsPrefixOf(old.targets, new.targets)

MayReplace(lanes, next) ==
  /\ \A k \in Named(lanes) : Started(lanes[k], History) => Pinned(lanes[k], next[k])
  /\ \A k \in Named(lanes) \ Named(next) : \A l \in Named(lanes) :
       k \in lanes[l].after => ~Started(lanes[l], History)

-----------------------------------------------------------------------------
(* The preliminary look and the lock set: the change and each linked task.  *)
BeginEdit(p) ==
  /\ proc[p].step = "idle" /\ jobs < MaxJobs /\ jobs' = jobs + 1
  /\ definition.revision < MaxRevision
  /\ proc' = [proc EXCEPT ![p] = [Idle EXCEPT !.job = "graph", !.step = "lock",
                                            !.wants = {Change} \cup links]]
  /\ edit' = [edit EXCEPT ![p].saw = links]
  /\ UNCHANGED <<events, json, holder, links, definition, linkings>>

(* The file's revision goes up with every edit (readOrCreateThreadDefinition). *)
Next1(lanes) == [revision |-> definition.revision + 1, lanes |-> lanes]

(* Fault: the links are not compared with those that were locked. *)
LinksStand_Unchecked(p) == TRUE

(* sameThreadMutationLockWorkspaces *)
LinksStand(p) == edit[p].saw = links

(* runThreadSet, runThreadRemove: the reload, the new lanes, their checks.  *)
(* A checkpoint of a slice that task.json has lost fails the edit.          *)
EditGraph(p) ==
  /\ At(p, "graph", "read") /\ LinksStand(p)
  /\ \A r \in History : r[2] \in json[r[1]].slices
  /\ \E k \in Lanes, n \in 0..MaxTargets :
       \E targets \in [1..n -> links \X Slices], after \in SUBSET (Lanes \ {k}) :
         LET lanes == [definition.lanes EXCEPT
                         ![k] = IF n = 0 THEN NoLane
                                ELSE [targets |-> targets, after |-> after]]
         IN /\ n = 0 => k \in Named(definition.lanes) /\ after = {}
            /\ Valid(lanes) /\ MayReplace(definition.lanes, lanes)
            /\ edit' = [edit EXCEPT ![p] = [saw |-> links, next |-> Next1(lanes)]]
  /\ proc' = [proc EXCEPT ![p].step = "publish"] /\ KeepsLocks(p)
  /\ UNCHANGED <<events, json, jobs, links, definition, linkings>>

(* "thread owner links changed during mutation", or any other refusal.      *)
RefuseEdit(p) ==
  /\ At(p, "graph", "read") /\ Ends(p)
  /\ edit' = [edit EXCEPT ![p] = NoEdit]
  /\ UNCHANGED <<events, json, jobs, links, definition, linkings>>

PublishGraph(p) ==
  /\ At(p, "graph", "publish")
  /\ definition' = edit[p].next
  /\ edit' = [edit EXCEPT ![p] = NoEdit]
  /\ Ends(p)
  /\ UNCHANGED <<events, json, jobs, links, linkings>>

-----------------------------------------------------------------------------
(* runSliceCreate: the document is read, ... *)
BeginLink(p) ==
  /\ proc[p].step = "idle" /\ jobs < MaxJobs /\ jobs' = jobs + 1
  /\ linkings < MaxLinks /\ linkings' = linkings + 1
  /\ \E t \in Tasks \ links :
       proc' = [proc EXCEPT ![p] = [Idle EXCEPT !.job = "link", !.step = "write",
                                                !.task = t]]
  /\ edit' = [edit EXCEPT ![p].saw = links]
  /\ UNCHANGED <<events, json, holder, links, definition>>

(* ... and written with the row of this repository's alias replaced         *)
(* (upsertWorkspaceChangeRepoSliceBody).                                    *)
Upsert(tasks, t) == {u \in tasks : RepoOf[u] # RepoOf[t]} \cup {t}

WriteLink(p) ==
  /\ At(p, "link", "write")
  /\ links' = Upsert(edit[p].saw, proc[p].task)
  /\ edit' = [edit EXCEPT ![p] = NoEdit]
  /\ Ends(p)
  /\ UNCHANGED <<events, json, jobs, definition, linkings>>

-----------------------------------------------------------------------------
GraphStep(p) ==
  \/ EditGraph(p) \/ RefuseEdit(p) \/ PublishGraph(p) \/ WriteLink(p)

Stop(p) == Kill(p) /\ edit' = [edit EXCEPT ![p] = NoEdit]
                   /\ UNCHANGED <<links, definition, linkings>>

Init ==
  /\ TrackInit
  /\ links = Linked
  /\ definition = NoDefinition
  /\ edit = [p \in Procs |-> NoEdit]
  /\ linkings = 0

Next ==
  \/ Merge /\ UNCHANGED gvars
  \/ \E p \in Procs :
       \/ (Checkpoint(p) \/ Load(p) \/ TrackStep(p)) /\ UNCHANGED gvars
       \/ BeginEdit(p) \/ BeginLink(p) \/ GraphStep(p) \/ Stop(p)

Spec == Init /\ [][Next]_vars

-----------------------------------------------------------------------------
(* Files and processes have values of their shapes, whoever is past its     *)
(* locks holds all it wanted, and whoever has ended holds none.             *)
TypeOK ==
  /\ events \subseteq Event /\ IsFiniteSet(events)
  /\ json \in [Tasks -> Manifest]
  /\ holder \in [Locks -> Procs \cup {Nobody}]
  /\ proc \in [Procs -> Work]
  /\ jobs \in 0..MaxJobs
  /\ links \subseteq Tasks
  /\ definition \in Definition
  /\ edit \in [Procs -> Edit]
  /\ linkings \in 0..MaxLinks
  /\ \A p \in Procs :
       /\ proc[p].step \in {"idle", "write"} => Held(p) = {}
       /\ proc[p].step \in {"read", "publish", "project"} => Held(p) = proc[p].wants

(* A checkpoint of this clone names one of the lane's targets, in one of    *)
(* these tasks.                                                             *)
Begun(lane, tasks) ==
  \E e \in events : /\ ~e.merged /\ e.task \in tasks
                    /\ <<e.task, e.target>> \in Range(lane.targets)

(* "A graph edit cannot miss newly published history" (RFC 0001:144): in    *)
(* the state in which an edit publishes, every lane that a checkpoint of    *)
(* this clone has begun by then keeps its dependencies and has its targets  *)
(* at most appended to, whatever was checkpointed, linked or unlinked since *)
(* the edit first looked.  The tasks are those the edit's reload found      *)
(* linked: a link that another writer has dropped (upsertWorkspaceChange-   *)
(* RepoSlice) takes its task's lanes out of every edit's sight.  A merge    *)
(* takes no lock.                                                           *)
PinnedLanesStand ==
  [][\A p \in Procs :
       At(p, "graph", "publish") /\ proc'[p].step = "idle" /\ definition' # definition =>
         \A k \in Lanes : Begun(definition.lanes[k], edit[p].saw) =>
                            Pinned(definition.lanes[k], definition'.lanes[k])]_vars

(* Edits are not lost: each revision follows the last and differs from it   *)
(* in one lane.                                                             *)
EditsAreSerial ==
  [][definition' # definition =>
       /\ definition'.revision = definition.revision + 1
       /\ \E k \in Lanes : \A l \in Lanes \ {k} :
            definition'.lanes[l] = definition.lanes[l]]_vars

(* No commands wait for one another's locks in a circle, so that some lock  *)
(* holder always goes on.                                                   *)
WaitsFor(p) == {q \in Procs : \E l \in NextLocks(p) : holder[l] = q}
NoCircularWait ==
  \A ps \in SUBSET {p \in Procs : proc[p].step = "lock"} :
    ps # {} => \E p \in ps : WaitsFor(p) \cap ps = {}
=============================================================================
