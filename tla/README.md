# A verification development for `ds`

`ds` (devspecs) is a command-line program that indexes a repository's intent
documents, keeps the task tracks that agents work through and, through the
*hub*, lets several agents on one machine talk to each other.  Most of the code
is text processing: scanning, ranking, classifying, formatting.  This
development models the parts whose correctness depends on the order in which
processes do things, and on where they die:

* the hub (`internal/hubstore`), one SQLite file that any number of `ds`
  processes open, with durable topics, a publication stream, cursors, retention,
  backups and leases, and the repositories enrolled in it;
* the local index (`internal/store`): opening, migrating, replacing and
  restoring it, one file at a time;
* task tracks and threads (`internal/commands/task*`, `thread*`, `slice.go`):
  JSON files that commands of several processes rewrite, under locks or not;
* orchestration (`internal/orchestration`): one dispatch of work to a provider's
  lane, resumed and finalised by any number of processes.

## The system

### Components, state and operations

| Component | State | Operations | What is hard |
|---|---|---|---|
| topics and event types (`topic.go`, `event.go`) | `topics`, `topic_roles`, `event_schemas`, `topic_audit` | create, edit, archive, restore, grant, revoke, register type, retire type | several agents change one policy with what they read earlier; deadlines, manual archives and a wall clock that may step back |
| publications (`message.go`, `vote.go`, `event.go`) | `scope_counters`, `publications`, `message_heads`, `message_revisions`, `message_pin_audit`, `message_votes`, `event_entries`, `publication_idempotency` | post, revise, pin, vote, publish event | retries with idempotency keys, revisions that race, correction chains |
| retention (`retention.go`) | `pruned_ranges`, `pruned_idempotency`, `prune_audit`, low-water marks, the retention epoch, backup files | plan, prune, vacuum, reconcile | plan and commit are two transactions; whole groups only; files and tables change in different steps, with crashes between them |
| subscriptions (`subscription.go`) | `consumers`, `subscriptions`, `subscription_topics` | enrol, subscribe, remove, pull, acknowledge | a claim outlives the state it was computed from; several workers of one consumer; repeated acknowledgements |
| leases (`lease.go`, `commands/hub_lease.go`) | `topic_leases` | acquire (with polling), renew, release | lost replies and tokens, deadlines, several processes of one actor |
| hub file (`store.go`, `scope.go`, `schema.go`) | the SQLite file, `hub_meta`, repository markers, bindings | open, initialise, migrate, enrol actors and repositories | kills between creating and filling a file; several releases of the program; markers shared by hubs; repositories that move |
| index store (`internal/store/store.go`, `index_recovery.go`) | the active database and its `-wal`, the journal, rollback files, automatic and manual backups, the writer lease | open, migrate by copy, rebuild, restore, back up, prune backups | a kill or a failing rename at any step of a swap; commands that open the index without the lease |
| task tracks (`task_checkpoint_state.go`, `task.go`, `task_durability.go`) | checkpoint events, `task.json`, a lock per task | checkpoint, close out, add a slice, refresh | a lock that only some writers take; merges from other clones; kills between event and projection |
| change threads (`thread_mutation.go`, `thread_definition.go`, `slice.go`, `change.go`) | the threads file, the change's links, a lock per change | set and remove a thread, link a task | locks over several tasks in one order; links read before the lock |
| orchestration (`service.go`, `waspflow.go`) | request, handle, receipt, copied evidence; outside: the lane | dispatch, resume, collect, reap, finalise | a crash between two files or two provider commands; finalising twice |
| scan, adapters, retrieval, classify, evalharness, ... | none, or derived data | pure passes over text | heuristics; nothing concurrent |

The components of the hub share one SQLite file and nothing else.  Every
operation of the first five rows but three is *one* write transaction:
`DB.write` takes the single writer slot before it samples the clock, runs the
checks and the changes, and rolls everything back on any error.  That is why
one operation is one action here, why its refusals are the states in which the
action is disabled, and why the clock is an argument of the action.  The three
exceptions are the interesting ones: a prune plans in one transaction and
commits in another; a worker pulls in one and acknowledges in another; an
agent reads a policy in one and changes it in another.

The other components share files.  A file is replaced atomically (written
aside and renamed), so one file is one step; nothing is atomic over two files.
Advisory locks (the index writer lease, the task and change locks) belong to
the operating system and end with the process that holds them.

Publications reach readers by cursor: a subscription stores the last position
acknowledged, a pull walks positions beyond it and says of each whether it is
delivered or why not, and prunes leave ranges and a low-water mark behind so
that a walk can tell "pruned" from "lost".

### What makes each component correct

* Topics: no update is lost; the audit alone tells the policy; authority comes
  from the owner; an archive instant does not move.
* Publications: positions are issued once, in order; a key makes one entry;
  heads, revisions, pins and votes agree.
* Retention: a prune takes what its plan showed and whole groups only, leaves
  nothing dangling, and accounts for every position it takes.
* Subscriptions: every position a cursor passes was told once, truthfully.
* Leases: participants that keep to their deadlines exclude each other, and a
  lost token blocks a topic only until its deadline.
* Hub file: one authority for each home, forever; rows in the format of the file.
* Scopes: an enrolled repository is found where it was enrolled, no other is
  taken for it, and it gets no second scope by being renamed.
* Index: the last index of each recent schema can be restored, an unreadable one
  is kept, and a swap that fails puts back what it took away.
* Task tracks: commands never fork a target, a closeout follows its slices.
* Threads: started lanes stay as they are, no edit is lost, no deadlock.
* Orchestration: evidence outlives the lane it is about; what the receipt tells
  is the lane that was reaped; a reaped lane gets its receipt.

## Modules

| Module | Models | Extends or composes |
|---|---|---|
| `HubTopic` | the topic tables and the eight operations on them | |
| `HubTopicClients` | actors that read a policy and later change it with the generation they read | `HubTopic` |
| `HubStream` | the publication stream and retention, with topics changing next to it | `HubTopic`; refines `HubFeed` |
| `HubCursor` | subscriptions, workers, claims | `HubStream` |
| `HubFeed` | the abstract promise of the stream | |
| `HubRanges` | the interval arithmetic of pruned ranges and gap lists | refines `HubFeed` |
| `HubLease` | the lease row and the workers that use it | |
| `HubBackup` | the backup files of prune and vacuum, their claims, intents and audit rows | stands beside `HubStream`: there a prune deletes, here it is backed up |
| `HubFile` | creating, initialising, migrating and probing the hub file; what a write checks first | |
| `HubScopes` | enrolling repositories, their marker files and what people do to them | `HubFile` |
| `IndexSwap` | the index file, its swaps and backups | |
| `TaskCheckpoints` | checkpoint events, their projection, the task locks | |
| `TaskThreads` | the graph of a change and its links to tasks | `TaskCheckpoints` |
| `Dispatch` | one dispatch, its processes and the lane | |
| `MC...` | small instances for TLC | |
| `...Proofs` | theorems about the module of that name, and their proofs; `HubStreamProofs` also those about `HubTopicClients` and `HubCursor`, `HubScopesProofs` also those about `HubFile` | |

**HubTopic.**  A topic is named by its (scope, key) pair.  `topic[t]` is the
row of `topics`; NULL deadlines and archive instants are `Never`, later than
every instant.  `TopicForWrite` is `topicForWrite` (existence, generation
compare-and-swap, owner or maintainer), `ExpiredFirst` and `TopicActive` are
the archive logic of `scanTopic`, `SetTopic` and `AppendAudit` the row update
and the audit insert every operation ends with.  `Instants` is a set the clock
sample is drawn from freely at each operation, so clocks that step back are
included.

**HubTopicClients** adds `seen`, what each actor last read of each topic, and
lets policy changes present only the generation in it.

**HubStream** has one variable per table.  Entries are named by scope and
sequence number; a message by the sequence number of its first revision.  A
`publications` row and its `message_revisions` or `event_entries` row are one
record, because they are inserted and deleted together.  `AppendEntry` is
`appendMessage` and the insert part of `PublishEvent`; `KeyFree` is
`replayMessage` for a key that is not a replay (a replay changes nothing).
Retention is translated from the SQL of `pruneCandidates`: `Chain` is the
recursive closure over corrections, `OldMessages`, `OldRevisions` and
`OldChains` the groups, `Batch` the prefix of groups within the batch limit,
`PrunePlan` what the digest of a plan distinguishes.  `PlanPrune` is the read
transaction, `CommitPrune` the write transaction with its second look at the
candidates, `PruneFails` every way in which the prune ends without one.
`keyed` is a history variable: every entry ever published under a key.

**HubCursor** adds subscriptions and workers.  `page[w]` is the last page a
worker pulled with its signed claim; a worker keeps it after acknowledging, so
acknowledgements repeat.  `AckReply` lists the checks of `Ack` in their order.
`ledger` is a history variable: what acknowledged pages said of positions.

**HubRanges** is the arithmetic `HubStream` leaves out: there, pruned
positions are a plain set; here, they are rows `(from, to)` merged by
`MergePrunedRange`, and `Pull` and `ScanPublications` compute gap lists from
them with `AddGap` and `AddMissingGaps`, as the code does.  The loop of
`mergePrunedRange` is stated by what it ends at (`Widened`), the smallest interval
out of which no range that touches it sticks.  Every reason a retained entry is not
delivered for stands as "filtered".

**HubLease** keeps deadlines as the time left until them, so the state is
finite while time passes without bound.  A lease operation is one step; its
reply reaches the worker in a later step (`Reply`), never (`LoseToken`), or
after the worker stopped.  The worker's part, stop when a renewal fails or the
deadline passes, is what `docs/hub.md` asks of participants and is modelled as
external.

**HubBackup** is what a prune or a vacuum does beside the tables.  A backup
path has a file, perhaps a hard link `.claim` that shows it is the hub's own
and an intent `.pending` while it is unfinished; once the transaction commits
it has a row of `prune_audit`.  `op[o]` is how far a process is: it reconciles
(`reconcilePendingPruneBackups`), builds (`backupForPrune`, in the write
transaction), finishes, compacts if it is a vacuum, and cleans up
(`cleanupPruneBackups`).  Every change of a file is an action of its own,
`Fail` ends a process anywhere, and `Ends` releases the writer slot as SQLite
does for a process that dies.  `Unlink`, `SkipUnlink` and `Unclaim` are
`removeClaimedPruneBackup`, shared by the three callers.  `copy` records which
state a snapshot holds; `touched` and `dropped` are history variables that
say which files are out of the hub's hands.  What a user does to the files
(`Tamper`) is external.  The publications are left to `HubStream`: here a
prune commits, and moves the epoch, or fails.

**HubFile** is `open` step by step: `OpenHub` (the stat), `CreateFile`,
`Initialize`, `ProbeReady`, `Migrate`, `Probe`; `CloseHub` is every way a command
ends, at any step.  A process slot runs one command after another, each of a home
and of a release: programs like this one whose `schemaVersion` may be smaller or
larger.  `Admitted` is what `DB.write` checks with the writer slot in hand; the
other hub modules take it as given.  Random ids are numbered as they are drawn.

**HubScopes** adds the disk: `dirs` are all Git common directories there have
been, with their file identity and their marker, `at` which of them is at a
path.  Creating, copying, renaming and removing them is external.  `EnrollRepo`
is nine steps, because each look at the disk may be followed by another
command's or a user's step: `Resolve` and `ReadMarker` before the transaction,
then, with the writer slot, `Begin`, `CreateMarker` and `FillMarker`,
`RereadMarker`, `CheckMarker`, `CheckIdentity` and `Bind`.  `repo` (which
repository a directory is, or is a copy of) and `dir` (the directory a call and
its binding are about, 0 if it was replaced during the call) are history.
`Answers` is what `LookupRepo` finds.

**IndexSwap** has one variable per kind of file: the active database `main` and
the rows only its `-wal` holds, what each swap moved `aside`, the `evidence` of
unreadable indexes, `backups` and the `journal`.  A database is its schema, the
local rows it holds and whether SQLite can read it.  `proc[p].step` walks
`ReplaceIndexWithStage` file by file: back up (`Preserve`, `ListBackup`), write
the journal, `MoveMain`, `MoveWal`, `NotePreserved`, `Publish`,
`NotePublished`, `Clear`, `Complete`, `Forget`, `Prune`.  `Stops` kills a
process anywhere, `MoveFails`, `PublishFails`, `PublishTears` and
`ValidateFails` are the error paths with `PutBack` (`restoreMovedIndex`), of
which each rename may fail too.  `Check` and `Use` are a command that opens the
index: it looks at the journal, and later writes without the lease.
`displaced`, `saw` and `at` are history: what has to stay restorable.

**TaskCheckpoints.**  `events` are the checkpoint files, `json` the manifests
they are projected to.  Heads are the events of a target that no other
supersedes; `Reconciled` is what every load makes of a manifest: a single head
wins, a conflict leaves what the manifest said.  `Checkpoint`, `Acquire`,
`ReloadTrack`, `PublishEvent`, `ProjectEvent` are one `ds task checkpoint`.
`Load` followed by `AddSlice` or `Refresh` are the commands that rewrite
`task.json` without the lock.  `Merge` is external: git brings an event another
clone wrote from what it had seen.

**TaskThreads** adds the change: `links` (its Repo Slices table), the threads
file `definition`, and what each process has read (`edit`).  `BeginEdit` reads
the links and with them the set of locks, `Acquire` takes these in order,
`EditGraph` reloads (`saw` keeps the links it found), compares and validates, `PublishGraph` writes.  A link is
read in `BeginLink` and written in `WriteLink`, without a lock.

**Dispatch** follows one dispatch, because each has an id and a lane of its own.
`pc[c]` is how far a process is, `seen[c]` what it has collected.  The lane, its
workspace, its report, `verify-result.json` and native receipt are the
provider's and modelled as the driver uses them: a wait succeeds only for a lane
that is not live, a reap removes the workspace and leaves the lane's directory,
a verification writes nothing into the workspace.  `lost` is a history variable:
a process that had reaped was killed, or its receipt was refused.

## Runs

| Run | Instance | Shows |
|---|---|---|
| `topic_clients` | 2 actors, 1 topic, 1 event type, clock {0, 2}, deadline 1, 4 generations | no lost update, delegated authority, audit replay, archive instant |
| `stream` | three families: 1 scope with messages and keys, votes or 1 pin, deadlines, 3 positions; 1 scope with messages and events, 4 positions; 2 scopes of messages without keys, 2 operators, 2 positions each, 2 prunes; prunes of at most 3 | keys, heads, pins, plan and commit; chains and groups; per-scope accounting, refinement of `HubFeed` |
| `cursor` | two families: 2 workers (symmetric) over 3 positions and 1 prune, clock forward only; 1 worker with every kind and type filter, events, deadlines and archives over 2 positions; subscriptions made at the first instant | exactly-once telling, conflicts, stale claims; reasons are true |
| `ranges` | every sequence of batches over 8 positions | interval arithmetic and gap lists |
| `scopes` | two families: 3 processes and 2 releases that open 1 hub, enrol an actor and the global scope; 2 processes that enrol in 2 homes, 2 paths, 2 directories, 2 file identities, two calls at once about 1 directory | one authority, formats, lookups, no second scope |
| `lease` | 3 workers of 2 actors, 4 tokens, lifetimes 1 and 2, renewals longer or shorter, fairness | exclusion, waiting ends |
| `backup` | 2 processes, 3 backups (symmetric), 2 prunes, 1 backup tampered with | deletions are backed up, the newest backup stands, snapshots stay tracked |
| `index_swap` | 2 processes, schemas 1..3 of which the CLI has 2 and backups of 2 are kept, an earlier backup or none, 2 swaps, 3 backups, 1 row, 1 fault; a manual backup or a damaged index (CONSTRAINT) | rollbacks stand, damaged indexes are kept, failures restore |
| `threads` | two families: 2 tasks of 2 repositories, 2 slices, 1 merge, 1 link; 3 tasks, two of one repository, 2 links, graph edits, open checkpoints; both with 2 processes (symmetric), 4 commands, 2 lanes | forks, closeouts, pinned lanes, serial edits, no deadlock |
| `dispatch` | 3 processes, 2 verdicts, 2 edits, fairness | evidence, receipts |
| `ack_repeat`, `index_restore` | as above | disagreements, below |

The runs `stream`, `cursor`, `scopes` and `threads` each explore two or three
families of states in one instance: their CONSTRAINT (`Families`,
`TwoWorkersOrFilters`, `OpensOrEnrols`, `TracksOrLinks`, in the MC modules) keeps a state if it belongs to any.  A family is what a smaller instance, with smaller bounds or without deadlines,
events, a second scope or a second worker, would reach, so each is explored as
completely as by a run of its own.

Bounds and why they suffice:

* `Instants` has one sample before and one after the single deadline or
  cutoff: every comparison in the code is of a sample or a stored instant
  with a deadline or cutoff, and both outcomes, in both orders, occur.
* `MaxGeneration`, `MaxSequence`, `MaxEpoch`, `MaxPins` bound counters in the
  guards.  Three positions hold a message with two revisions next to another
  entry, four a chain of three corrections next to one more; two prunes give
  one that finds what an earlier one left.
* `PruneBatchLimit` is below the number of eligible entries, so batches split,
  and at least the size of some groups, so they do not always block.
* One key suffices for reuse; two operators for a plan overtaken by a prune.
* In `scopes`, four ids are two authorities and two markers; two directories are
  a repository and the one that takes its path, its identity or its marker; a
  race for one marker takes two calls about one directory.  Release 2 stands for
  any older one and 3 for any newer one; a migration passes versions in one step.
* In `ranges`, eight positions allow three separate ranges and a batch that
  bridges two of them, touches, fills or lies between them.
* Three backups hold the newest, one to be cleaned up and one being made; with
  two processes every pair of stages occurs.  A third process only adds the
  vacuums described under known behaviours.
* In `index_swap`, schemas 1..3 around the supported 2 give an index that is
  older, current and too new.  The code keeps backups of three schemas, the
  run of two.  A backup of any schema that an earlier swap left, and what the two
  swaps of the run displace, can be of three schemas, so the limit takes effect;
  that it does so at three of four is the theorem's part.  Two swaps
  let the second meet what a killed or failed first has left; a third only
  repeats that.  One fault, together with any number of kills, is one failing
  rename or write per behaviour.  One row tells an index that has lost
  something from one that has not.
* In `threads`, the lock of the change sorts between those of the tasks, so a
  graph edit of both meets checkpoints on either side.  Four commands hold two
  checkpoints of slices, a closeout and one edit or link beside them; two
  revisions an edit of an edited graph.  The third task is of the first one's
  repository: its link replaces the first one's, and of two links written at
  once one is lost, before, between and after the steps of an edit.
* In `dispatch`, a third process resumes while two finalise; a second edit tells
  a report of the finished work from one of less.
* In `lease`, one token more than workers keeps a fresh one available.

Deadlock is not checked in the runs with bounded counters, which stop at their
bounds by construction (and a finished dispatch stops); it is checked in the
lease, backup, index and scopes runs, which never stop.  That commands do not wait for
each other's locks is a property of its own (`NoCircularWait`).

**Fairness** is assumed in `lease` and `dispatch`.  In `lease` time passes, and
a waiting worker whose acquisition stays possible makes it, which the 250 ms
poll of `lease acquire --wait` justifies.  Holders are not fair: they may
neither renew, stop nor release.  In `dispatch` a process that is not killed
takes its next step, as straight-line code does; nothing says that anyone
resumes, that a wait succeeds or that the agent ends.  Nothing else promises
progress: each operation runs to completion or fails, and retrying is the
caller's choice.

## Disagreements found

* `ack_repeat`: `Ack` says a repeated acknowledgement returns the current
  cursor; after any prune it is refused with `ErrReplayGap`, because the epoch
  of the claim is compared first.
* `index_restore`: `RestoreIndex` says that the selected backup remains
  untouched; the swap it makes backs up the displaced index and then prunes, and
  of each schema only the newest automatic backup stays.  A selected automatic
  backup of the displaced index's schema is removed.

## Known behaviours

What the models show the code to do where no sentence of the repository, or
none that is precise enough, says otherwise (the entries on links and on
journals name one that does); the properties are stated so as to hold with them.

* `RenewLease` sets the deadline to now plus what is asked for (`lease.go:196`),
  so a renewal that asks for less than is left shortens a lease.  While the reply
  is on its way the old deadline is still believed, and two participants that
  keep to their deadlines overlap.  `WorkersExclude` says that nothing else lets
  them: of the workers at work at one time all but one have shortened their own
  lease, let it run out, and not been told.
* A kill between creating `hub.sqlite` and its first transaction, or between
  creating and filling a marker, leaves an empty file that nothing fills again:
  every later open, or enrolment of that repository in any home, is refused.
* Of two first enrolments of one repository in one home the second is refused
  with a binding conflict, because it looked for the marker before the first
  made it; repeated, it succeeds.
* A bound path stays bound: a repository that is removed and made again there is
  refused for good.  If the directory at a path is exchanged twice during one
  enrolment, the binding can be one that no directory has.
* A reader's queries do not look at the version: a handle opened before a newer
  release migrated the file reads on.
* A retry of `PublishEvent` is classified by reads before its transaction
  (`event.go:550`): a prune in between makes the answer a conflict where a replay
  gap is meant.  Nothing is published either way.
* A cleanup removes every other backup of its own epoch, and vacuums do not move
  the epoch: two of three concurrent vacuums remove each other's backup and the
  third's while it compacts, which `retention.go:429` means to exclude.
  `NewestBackupStands` is what holds: a prune's backup stands while no other
  operation is recorded at its epoch.
* When a rename that moves the index aside fails, and a rename back fails too,
  the journal is dropped all the same and the next command creates an empty
  index over what is still aside (`MaxFaults` of 2 shows it; the run has 1).
  This is the only way to lose it: `UnstuckFailuresRestore` is proved for any
  number of faults.
  The same holds of a journal that a later swap replaces: what the earlier one
  moved aside is known by no journal, although the type's comment
  (`index_recovery.go:76`) calls it the record of an interrupted swap's files.
* A command that passed the journal's check opens the index without the lease.
  If a swap has moved it away meanwhile the command creates a fresh one, which
  the swap's rename replaces: what it wrote is lost.
* A closeout, or a slice, is read back from its events after a crash before the
  projection; durability is not, and is asked for again.
* `task.json` is rewritten by `slice add` and the index refresh from a copy that
  was loaded earlier, without the lock: a slice added meanwhile is lost and its
  ordinal is given again.
* Two tasks linked at once lose one link; a second task of one repository
  replaces the first (`change.go:229`).  RFC 0001 (lines 133 to 146) pins lanes
  with history without exception; the code pins those of the tasks that are
  linked when an edit reloads under its locks.  Lanes of a task that has lost its
  link are unprotected, and the run reaches edits that change them.
  `PinnedLanesStand` is what holds: an edit changes no started lane of a task it
  found linked, whatever is linked, replaced or lost around it.
* A conflict that a merge left counts as what `task.json` said last, so a
  closeout can pass over it.
* The listing of the topic audit orders rows by the sampled clock: after a clock
  that steps back it differs from the commit order (`topic.go:341`).
* A process that dies between the reap and the receipt, or whose receipt is
  larger than 8 KiB, leaves a dispatch no resume can finish, though
  `service.go:190` calls it recoverable: every resume inspects the workspace
  that is gone.  Two processes that finalise one dispatch both write a receipt,
  and the copy of `verify-result.json` can differ from the digest in the first.
* A lane whose handle could not be recorded runs on, and no command finds it.

## Theorems

All theorems hold for every value of the constants that satisfies the named
assumptions of the modules (`ActorsAssumption`, `ClockAssumption`,
`ScopesAssumption`, `StreamAssumption`, `PositionAssumption`, `LeaseAssumption`,
`IndexAssumption`, ...).  A theorem
listed without a property states one that no run checks on its own, because a
checked one implies it or because it is a step towards one
(`PositionsAreAccounted`, `KeysAreRemembered`, `HistoryGrows`,
`GoneBackupsAreGone`, `ForeignFilesStay`, `UnstuckFailuresRestore`,
`RangesStaySound`).

`HubStreamProofs` has three parts.  "Topics" proves of `HubTopicClients!ClientsSpec` the
types of the topic tables (`TopicsTypeCorrect`) and all five properties of the run
`topic_clients`.  The invariant `ClientInv` says of each
topic that its audit replays (`Replays`) and of each reader that its generation
is behind the topic's or the policy it read is the current one (`SeenBehind`).
The eight operations are reduced to two facts, `CreateEffect` and
`ChangeEffect`: one generation, one audit row, and the row tells the change
(`Tells`).  What an appended row does to the last row about a subject
(`LastActionAppended`, `PolicyRowAppended`) then carries the replay over a step.
`ElapsedDeadlineStands` is about the operation instead: every one but restore
and archive by hand needs an active topic at its own clock sample.

"Publications" proves of `HubStream!Spec`: `TypeCorrect`,
`PositionsAreAccounted`, `HeadsAreCoherent`, `RetriesPublishOnce`,
`KeysAreRemembered`, `NothingDangles`, `StreamImplementsFeed`, and the action
properties `HistoryGrows`, `PruneSparesRecent` and `PrunesAreAsPlanned`.  The
inductive invariant `StreamInv` joins the type invariant, `PositionsAccounted`
and `HeadsCoherent` with two facts that make them inductive: pin numbers of a
revision form a finite set (so that the next number is a natural number), and
a message has one head (without it a revision could replace one of two heads).
`PositionsAccounted` is what every other proof leans on: a fresh sequence
number is in use nowhere.  `KeyInv` adds that rows of the idempotency tables
are exactly the keyed history, split by what is retained and what is pruned;
`KeysRemembered` gives that a key recognised as free was never used, hence
`OneEntryPerKey`.  `NoOrphans` follows because a prune takes chains closed
under correction (`Chain` is the least closed set) and votes and pin rows with
their revision.  The refinement maps `Publish` of `HubFeed` to every appending
action and `Prune` to `CommitPrune`; all else stutters.  The action properties follow
from `OnlyPrunesRemove` (no other step takes an entry) and `BatchSpares` (what
a group may hold, by its kind).  `PinsAreAttributed` needs the transitions of a
revision numbered up to their number (`PinsNumbered`: the one added last has the
greatest), and that a revision nobody published yet has none (`NoPinsAhead`).

"Cursors" proves of `HubCursor!HubSpec` the types and all three properties of
the run `cursor`, over the stream's invariant: `HubTypeCorrect`, `CursorsAreAccounted`,
`RetainedAreNotMissed` and `AcksAreSound`.  The invariant `CursorInv` says the
same of a ledger and of every page a worker still holds (`PageStands`): it
covers the positions from its start to its end once each (`Tiles`), and what it
says is true of the stream (`TrueOf`).  `TrueStays` carries that over every step
of the stream: a number is never issued again, and what leaves the entries is
pruned.  While the epoch is the page's, what the page delivers is retained, so
an acknowledgement joins two stretches that meet (`TilesJoin`).

`HubRangesProofs` proves both properties of the run `ranges`, `RangesImplementFeed` and
`ReadersAlwaysAccount`, and that the rows themselves stay sound (`RangesStaySound`).
The invariant `RangesInv` says that rows do not overlap or touch (`Apart`), that they
and the entries split the positions issued, and that the low-water mark is below every
entry.  Apartness is what the readers lean on: a stretch without an entry lies in one
row (`OneRowCovers`), so that `addMissingGaps` reports it as one gap and never calls a
position unavailable (`MissingIsPruned`).  For the merge, `NearEdges` says that
the rows near a run of deleted entries stick out of it by at most one on each side
(the invariant makes the loop of `mergePrunedRange` widen once), and `MergeIs` that
the widened row covers those rows and the run and nothing else.
The lists are built by folds.  What a fold computes for every input is beyond the
library's induction theorems, so each of the three is followed by the list of its
intermediate values (`ReportSteps`, `RecordSteps`, `WalkSteps`), along which the
invariant of a walk is carried step by step (`Upto`): a gap list `Tells` of everything
passed so far, in order, each reason true.  `AddGapIs` and `TellsRow` are its steps.

`HubLeaseProofs` proves `TypeCorrect`, `LeasesExclude` and `LiveLeasesAreKept`.  The invariant `LeaseInv` says that
a token is held by one worker, and that the last deadline a working worker was
told, or the one on its way to it, is covered by the stored one.  While a renewal's
reply is on its way only that one counts, so that shortening renewals keep the
invariant too.

`HubBackupProofs` proves the types and every property of the run `backup`: `TypeCorrect`,
`NewestBackupsStand`, `GoneBackupsAreGone`, `DeletionsAreBackedUp`,
`SnapshotsStayTracked` and `ForeignFilesStay`.  The invariant `BackupInv`
says of each process what its stage and step guarantee (`OpInv`): a backup
being made is in no row, and what is being removed is either unrecorded or
recorded at the cleaner's epoch or before and not the cleaner's own.  With rows
that are unique by backup and never of a later epoch (`RowsInOrder`), a removed
backup cannot be that of the newest row (`OldIsNotNewest`): the cleaner's own
row would then be a second one of that epoch.  That only one process
reconciles or builds at a time follows from `SlotHeld`.  `TrackInv` adds that
an unrecorded snapshot has its claim (so that a removal is never skipped), that
an intent stands from the snapshot to the commit, and what a process has in
hand when it is between two backups.

`HubScopesProofs` proves every property of the run `scopes`: `ScopesTypeOK`,
`LookupsFind`, `ScopesStayOne`, `AuthorityKept` and `RowsFit`.  The invariant `IInv`
has a part for each thing a step may rely on after another process has moved.
`FilesMade` (an authority exactly from the first transaction on) and `HandlesOpen` (past its
creation the file an open process works on is there) give `AuthorityKept`: the exclusive creation
never meets a file that has an authority, and a migration only moves up.  `SlotsHeld`
says that whoever is in a transaction has the writer slot and that the file's version
is still its own, since a migration needs the slot; hence `RowsFit`.
`FillersApart` says that a marker that is being filled has one filler and no content yet;
`MarkersIdentify` follows, that equal markers are copies of one, and so does
`BindingsHold`, that the evidence of a binding stays what its directory shows: a step
changes a marker only while it is empty (`MarkerMoves`).  `LookupsFind` is these two
read together.  `EvidenceHolds` is what a call knows of the directory it is
about at each step, as long as nobody disturbed it; with the search for the same
evidence in `Bind` it makes the second binding of a directory impossible
(`ScopesStayOne`).

`DispatchProofs` proves `TypeCorrect`, `EvidenceIsKeptFirst` and
`ReceiptsTellTheReap`.  The invariant `DispatchInv` joins the type invariant
with what each process knows at each step: before a handle is recorded only the
process that spawned the lane is past the request (`Starting`), a process past
its wait has a lane that is over, whose workspace and report no longer change
(`LaneOver`), and whatever it has collected is also in the copies, as the agent
left it (`Collected`).  A verification may change the verdict between another
process's copy and its reap, which is why the receipt's state is compared with
the native receipt and not with the copy.

`TaskThreadsProofs` proves the types and all five properties of the run `threads`.  `Base`
joins the types with two facts: an event supersedes only events with smaller
ids (`Numbered`, hence every target with events has a head), and what each
process holds fits its step (`Fits`): while it locks, every lock it has is below
every lock it still wants; past that it has all it wanted.
`LocksNeverDeadlock` looks at the highest lock that members of a circle wait
for: its holder waits for a higher one.  It needs `Locks` to be finite, which
`TaskAssumption` says.  `CommandsForkNothing` needs `PredecessorsStand`: between
reload and publication the heads are covered by what the event will supersede,
because nobody else holds the task (`LocksExclude`); only a merge adds one.
`CloseoutsFollowWork` needs `Ended` (whatever `task.json` or a copy of it calls
done has an event, so that a stale copy cannot close a slice nobody worked on)
and `Closing`, the property one step early.  `EditsSerial` needs `Serial`: the
edit that waits for publication still follows the file, since all edits share
the lock of the change.  `StartedLanesStand` needs `LanesHeld`: what an
edit is about to publish pins every lane begun by then of the tasks it found
linked.  The edit holds the locks of all these tasks, since its reload refuses it
otherwise, so no command of this clone begins another lane of theirs before
publication.  Links may change meanwhile; nothing is assumed of them.

`IndexSwapProofs` proves `TypeCorrect`, `RollbacksAlwaysStand`, `DamagedStaysKept`,
`UnstuckFailuresRestore` and, assuming at most one fault, `FailuresRestore`: with two,
the rename back of `moveActiveIndexAside` can fail too, and the journal goes all the
same (`index_recovery.go:601`).  The invariant `IInv` has a part for the files and
four for each process.  `PathsClear` says that nothing is on a rollback path before
the swap that owns it moves something there, so a move never lands on another swap's
leftovers.  `BackupsSound` and `LatestKnown` relate each schema's last displaced
index to the backups and to how many were made after it: a backup of that schema
that is as new still stands, because pruning keeps the newest ones of a schema
(`PrunedAreOld`).  `Owns` ties a process's swap number, backup and staged copy to
its step, `Listing` says that the backup whose manifest is being written is the newest
one and holds what its maker saw, and `Spares` that a damaged file is only moved by
a swap that was told to keep it.  `Undisturbed` says where the halves of the index
are (`Whole`): at the active path, at the rollback path, or the database there and
its log here, with every row the backup's maker saw, unless somebody wrote
meanwhile; `PutBackIs` then gives that what a failed swap puts back is that index.
`NoDbAssumption` says that no file is not a database.

Type invariants that are proved are not checked again by a run; those of `HubScopes`
and `IndexSwap` are, because they also say who has the writer slot, or the lease.

A step that changes several fields of one element is written as one clause,
`![p] = [@ EXCEPT !.a = ..., !.b = ...]`.  Two clauses with the same index,
`![p].a = ..., ![p].b = ...`, mean the same, but from them the SMT translation of
TLAPS 1.4.5 derives that the index differs from itself, and proves anything.  The
one update with two indices, that of `RenameRepo`, is about paths that differ.

Only model-checked: `WaitingEnds` and `ReapedIsReported` (liveness is outside the
prover's reach).  What a run expects to be violated has no theorem either.

## Not modelled

* Payloads, JSON schema validation, source references, correlations, display
  names, listing and pagination of messages: data that no state change
  depends on.
* Signing of claims: a claim is the record it carries.  Ids are unique.
* SQLite busy time-outs and I/O errors, except while a hub is opened or a
  repository enrolled: an operation that fails this way rolls back and is a step
  that changes nothing.
* The wall clock steps back freely in the topic and stream modules, not in
  `HubLease`, where the participants read the same clock as the store.
* Of the hub file: the schemas a migration builds, digests of migrations, the
  integrity check, worktrees (several trees of one Git common directory).
* Of the index: the schema migrations, disk-space checks (an error before the
  journal), the SQLite statements of a command, a failing rename of an invalid
  index to `.failed` (`index_recovery.go:367`; it only keeps the journal).  Backups are ordered by the
  time in their names, which is taken to be the order of their creation.
* Of tasks: starting a task, iterations of a slice (slices among others),
  prompts, audits, drafts and the Markdown projections, which no state change
  reads.  A repo-owned graph is the case of one task.
* Of orchestration: the frozen apply payload, provider selection, status
  display.  A lane name given by the user and reused after a reap.
* Scanning, adapters, retrieval, classification, evaluation, formatting: text
  heuristics without interleavings.

## Plan

Done: topics, stream and retention, cursors, ranges, leases, backups, the hub
file and scopes; the index swap, task tracks and threads, dispatch; proofs about
all of them.

1. `HubReplay`: the reads `PublishEvent` makes before its transaction, with
   prunes between them, and the answer a retry gets.
2. Task start (workspace created, then filled) next to `TaskCheckpoints`.
3. `HubStream` with `HubRanges` in the place of its set of pruned positions: the two
   refine `HubFeed` separately.
