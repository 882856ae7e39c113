----------------------------- MODULE IndexSwap -----------------------------
(***************************************************************************)
(* The local index (internal/store): opening and migrating it, replacing   *)
(* it by a staged one, the recovery journal and the automatic backups.     *)
(* A swap holds the writer lease and changes one file at a time; it may be *)
(* killed between any two, and a rename or a write may fail.  Commands     *)
(* that only open the index hold no lease.                                 *)
(*                                                                         *)
(* A database is its schema, the local rows it holds (tags, links, task    *)
(* projections: what a scan of the repository does not bring back) and     *)
(* whether SQLite can read it.  -shm goes with -wal.  The database work of *)
(* a command that has opened the index is one step.                        *)
(***************************************************************************)
EXTENDS Integers, Sequences, FiniteSets

CONSTANTS
  Procs,        \* the processes that run ds
  Nobody,       \* the free writer lease
  NoDb,         \* no file
  Newest,       \* the highest schema of any CLI, schemas are 1..Newest
  Supported,    \* SchemaVersion of this CLI
  KeptSchemas,  \* how many schemas keep an automatic backup, 3 in the code
  MaxSwaps,     \* bound: swaps that write a journal
  MaxBackups,   \* bound: backups ever made
  MaxRows,      \* bound: rows ever written
  MaxFaults     \* bound: renames and writes that fail once a swap has begun

ASSUME IndexAssumption ==
  /\ Newest \in Nat /\ Supported \in 1..Newest
  /\ KeptSchemas \in Nat /\ MaxSwaps \in Nat /\ MaxBackups \in Nat
  /\ MaxRows \in Nat /\ MaxFaults \in Nat
  /\ Nobody \notin Procs

Schemas == 1..Newest
Rows == 1..MaxRows
(* "torn": the staged copy did not survive its publication; "damaged": the  *)
(* active file was harmed from outside.                                     *)
Db == [schema : Schemas, rows : SUBSET Rows, is : {"sound", "torn", "damaged"}]
(* No file is not a database. *)
ASSUME NoDbAssumption == NoDb \notin Db
Reasons == {"none", "rebuild", "restore", "migrate", "backup"}
Phases == {"prepared", "active_preserved", "stage_published", "complete"}
(* index-recovery.json; phase "none" when there is no such file. *)
NoJournal == [phase |-> "none", swap |-> 0]

VARIABLES
  main,       \* the active database file
  wal,        \* rows only its -wal holds
  aside,      \* what each swap has moved to its rollback path
  evidence,   \* unreadable databases kept for inspection
  backups,    \* every backup ever made, oldest first
  journal,
  lease,      \* who holds the writer lease
  proc,       \* what each process does
  swaps,      \* swaps that wrote a journal
  row,        \* rows written
  faults,     \* faults met
  harmed,     \* the active file was damaged from outside
  displaced   \* history: the last displaced index of each schema

disk == <<main, wal, aside, evidence, backups, journal>>
vars == <<disk, lease, proc, swaps, row, faults, harmed, displaced>>

Backup == [db : Db, kind : {"automatic", "manual"},
           listed : BOOLEAN,   \* its manifest is written
           there : BOOLEAN]
Aside == [main : Db \cup {NoDb}, wal : SUBSET Rows]
Nothing == [main |-> NoDb, wal |-> {}]

Steps == {"idle", "open", "queue", "stage", "preserve", "list", "journal", "move",
          "movewal", "noted", "publish", "published", "validate",
          "complete", "forget", "prune"}
(* stage: the staged copy; from: the backup it restores; mine: the backup   *)
(* it made; saw, at: history, the rows there were then, of those written;   *)
(* keep: what it displaces is unreadable; swap: its rollback path.          *)
Process == [step : Steps, reason : Reasons, stage : Db \cup {NoDb}, from : Nat,
            mine : Nat, saw : SUBSET Rows, at : Nat, keep : BOOLEAN, swap : Nat]
Idle == [step |-> "idle", reason |-> "none", stage |-> NoDb, from |-> 0, mine |-> 0,
         saw |-> {}, at |-> 0, keep |-> FALSE, swap |-> 0]
NeverDisplaced == [at |-> 0, rows |-> {}]

(* Every file, process and counter has a value of its shape, and the lease  *)
(* is held by whoever stages or publishes.                                  *)
TypeOK ==
  /\ main \in Db \cup {NoDb}
  /\ wal \subseteq Rows
  /\ aside \in [1..MaxSwaps -> Aside]
  /\ evidence \subseteq Db
  /\ backups \in Seq(Backup)
  /\ journal \in [phase : Phases, swap : 1..MaxSwaps] \cup {NoJournal}
  /\ lease \in Procs \cup {Nobody}
  /\ proc \in [Procs -> Process]
  /\ \A p \in Procs : proc[p].step \notin {"idle", "open", "queue"} <=> lease = p
  /\ swaps \in 0..MaxSwaps
  /\ row \in 0..MaxRows
  /\ faults \in 0..MaxFaults
  /\ harmed \in BOOLEAN
  /\ displaced \in [Schemas -> [at : Nat, rows : SUBSET Rows]]

Fresh == [schema |-> Supported, rows |-> {}, is |-> "sound"]
Gone == [db |-> Fresh, kind |-> "automatic", listed |-> FALSE, there |-> FALSE]

(* What an earlier swap, by some CLI, has displaced. *)
Earlier(s) == [db |-> [Fresh EXCEPT !.schema = s], kind |-> "automatic",
               listed |-> TRUE, there |-> TRUE]
NothingDisplaced == [s \in Schemas |-> NeverDisplaced]

(* No index yet, or one that some CLI has left, with a backup or none.      *)
Init ==
  /\ main \in {NoDb} \cup {[Fresh EXCEPT !.schema = s] : s \in Schemas}
  /\ wal = {}
  /\ aside = [s \in 1..MaxSwaps |-> Nothing]
  /\ evidence = {}
  /\ \/ backups = <<>> /\ displaced = NothingDisplaced
     \/ \E s \in Schemas :
          /\ backups = <<Earlier(s)>>
          /\ displaced = [NothingDisplaced EXCEPT ![s] = [at |-> 1, rows |-> {}]]
  /\ journal = NoJournal
  /\ lease = Nobody
  /\ proc = [p \in Procs |-> Idle]
  /\ swaps = 0
  /\ row = 0
  /\ faults = 0
  /\ harmed = FALSE

-----------------------------------------------------------------------------
At(p, step) == proc[p].step = step
Goto(p, step) == proc' = [proc EXCEPT ![p].step = step]

(* Fault: the lease outlives the operation. *)
Ends_KeepsLease(p) == proc' = [proc EXCEPT ![p] = Idle] /\ UNCHANGED lease

(* A lease is a lock of the operating system: it ends with its process.     *)
Ends(p) == /\ proc' = [proc EXCEPT ![p] = Idle]
           /\ lease' = IF lease = p THEN Nobody ELSE lease
Fault == faults < MaxFaults /\ faults' = faults + 1
Contents(db, log) == [db EXCEPT !.rows = @ \cup log]
Sound == main # NoDb /\ main.is = "sound"

-----------------------------------------------------------------------------
(* openIndex.  The journal is looked at first, and without the lease.       *)
Check(p) ==
  /\ At(p, "idle") /\ journal = NoJournal
  /\ Goto(p, "open")
  /\ UNCHANGED <<disk, lease, swaps, row, faults, harmed, displaced>>

(* A missing index is created; the command writes a row, which a kill may   *)
(* leave in the -wal.                                                       *)
Use(p) ==
  /\ At(p, "open") /\ row < MaxRows
  /\ main = NoDb \/ (Sound /\ main.schema = Supported)
  /\ row' = row + 1
  /\ LET db == IF main = NoDb THEN Fresh ELSE Contents(main, wal)
     IN \/ main' = Contents(db, {row'}) /\ wal' = {}
        \/ main' = db /\ wal' = {row'}
  /\ Ends(p)
  /\ UNCHANGED <<aside, evidence, backups, journal, swaps, faults, harmed, displaced>>

(* Unreadable, or newer than this CLI.                                      *)
Refused(p) ==
  /\ At(p, "open") /\ main # NoDb
  /\ ~Sound \/ main.schema > Supported
  /\ Ends(p)
  /\ UNCHANGED <<disk, swaps, row, faults, harmed, displaced>>

Outdated(p) ==
  /\ At(p, "open") /\ Sound /\ main.schema < Supported
  /\ Goto(p, "queue")
  /\ UNCHANGED <<disk, lease, swaps, row, faults, harmed, displaced>>

-----------------------------------------------------------------------------
(* ds index rebuild, restore and backup, or a migration on open.            *)
Begin(p, reason) ==
  /\ lease = Nobody /\ lease' = p
  /\ \/ At(p, "idle") /\ reason \in {"rebuild", "restore", "backup"}
     \/ At(p, "queue") /\ reason = "migrate"
  /\ proc' = [proc EXCEPT ![p] =
                [Idle EXCEPT !.reason = reason,
                   !.step = IF reason = "backup" THEN "preserve" ELSE "stage"]]
  /\ UNCHANGED <<disk, swaps, row, faults, harmed, displaced>>

Staged(p, db, from) ==
  /\ proc' = [proc EXCEPT ![p] = [@ EXCEPT !.step = "preserve", !.stage = db, !.from = from]]
  /\ UNCHANGED <<disk, lease, swaps, row, faults, harmed, displaced>>

(* A rebuild opens its stage, never the active index: no journal stops it.  *)
StageRebuild(p) == At(p, "stage") /\ proc[p].reason = "rebuild" /\ Staged(p, Fresh, 0)

StageRestore(p) ==
  /\ At(p, "stage") /\ proc[p].reason = "restore"
  /\ \E b \in DOMAIN backups : backups[b].there /\ Staged(p, backups[b].db, b)

(* migrateIndexCopyOnWrite: somebody else may have migrated meanwhile.      *)
StageMigration(p) ==
  /\ At(p, "stage") /\ proc[p].reason = "migrate"
  /\ IF Sound /\ main.schema < Supported
       THEN Staged(p, [Contents(main, wal) EXCEPT !.schema = Supported], 0)
       ELSE Ends(p) /\ UNCHANGED <<disk, swaps, row, faults, harmed, displaced>>

(* Out of space, no such backup, a deadline: before the journal is written  *)
(* an error leaves the active index as it was.                              *)
GiveUp(p) ==
  /\ proc[p].step \in {"open", "queue", "stage", "preserve", "list", "journal"}
  /\ Ends(p)
  /\ backups' = IF At(p, "list")   \* the manifest failed: the snapshot goes too
                  THEN [backups EXCEPT ![proc[p].mine] = Gone] ELSE backups
  /\ UNCHANGED <<main, wal, aside, evidence, journal, swaps, row, faults, harmed, displaced>>

-----------------------------------------------------------------------------
(* ReplaceIndexWithStage.                                                   *)

(* An online backup reads the -wal too. *)
Snapshot == Contents(main, wal)

(* The active index is backed up, if there is one.  An unreadable one stops *)
(* all but a rebuild, which will keep it as evidence.                       *)
Preserve(p) ==
  /\ At(p, "preserve")
  /\ IF Sound
       THEN /\ Len(backups) < MaxBackups
            /\ backups' = Append(backups,
                 [db |-> Snapshot, listed |-> FALSE, there |-> TRUE,
                  kind |-> IF proc[p].reason = "backup" THEN "manual" ELSE "automatic"])
            /\ proc' = [proc EXCEPT ![p] =
                         [@ EXCEPT !.step = "list", !.mine = Len(backups'),
                                   !.saw = main.rows \cup wal, !.at = row]]
       ELSE /\ \/ main = NoDb /\ proc[p].reason # "backup"
               \/ main # NoDb /\ proc[p].reason = "rebuild"
            /\ proc' = [proc EXCEPT ![p] = [@ EXCEPT !.step = "journal", !.keep = main # NoDb]]
            /\ UNCHANGED backups
  /\ UNCHANGED <<main, wal, aside, evidence, journal, lease, swaps, row, faults, harmed,
                 displaced>>

(* The manifest, by which pruning knows the backup.                         *)
ListBackup(p) ==
  /\ At(p, "list")
  /\ LET b == proc[p].mine
     IN /\ backups' = [backups EXCEPT ![b].listed = TRUE]
        /\ IF backups[b].kind = "manual"
             THEN Ends(p) /\ UNCHANGED displaced
             ELSE /\ Goto(p, "journal")
                  /\ displaced' = [displaced EXCEPT ![backups[b].db.schema] =
                                     [at |-> b, rows |-> proc[p].saw]]
                  /\ UNCHANGED lease
  /\ UNCHANGED <<main, wal, aside, evidence, journal, swaps, row, faults, harmed>>

(* The journal of a swap that was killed is replaced.                       *)
WriteJournal(p) ==
  /\ At(p, "journal")
  /\ swaps < MaxSwaps
  /\ swaps' = swaps + 1
  /\ journal' = [phase |-> "prepared", swap |-> swaps']
  /\ proc' = [proc EXCEPT ![p] = [@ EXCEPT !.step = "move", !.swap = swaps']]
  /\ UNCHANGED <<main, wal, aside, evidence, backups, lease, row, faults, harmed,
                 displaced>>

MoveMain(p) ==
  /\ At(p, "move")
  /\ aside' = [aside EXCEPT ![proc[p].swap].main = main]
  /\ main' = NoDb
  /\ Goto(p, "movewal")
  /\ UNCHANGED <<wal, evidence, backups, journal, lease, swaps, row, faults, harmed, displaced>>

MoveWal(p) ==
  /\ At(p, "movewal")
  /\ aside' = [aside EXCEPT ![proc[p].swap].wal = wal]
  /\ wal' = {}
  /\ Goto(p, "noted")
  /\ UNCHANGED <<main, evidence, backups, journal, lease, swaps, row, faults, harmed, displaced>>

Phase(p, phase) == journal' = [phase |-> phase, swap |-> proc[p].swap]

NotePreserved(p) ==
  /\ At(p, "noted")
  /\ Phase(p, "active_preserved")
  /\ Goto(p, "publish")
  /\ UNCHANGED <<main, wal, aside, evidence, backups, lease, swaps, row, faults, harmed, displaced>>

Published(p) ==
  proc' = [proc EXCEPT ![p] = [@ EXCEPT !.step = "published", !.stage = NoDb]]

(* One rename, over whatever a command has created meanwhile.               *)
Publish(p) ==
  /\ At(p, "publish")
  /\ main' = proc[p].stage
  /\ Published(p)
  /\ UNCHANGED <<wal, aside, evidence, backups, journal, lease, swaps, row, faults, harmed,
                 displaced>>

NotePublished(p) ==
  /\ At(p, "published")
  /\ Phase(p, "stage_published")
  /\ Goto(p, "validate")
  /\ UNCHANGED <<main, wal, aside, evidence, backups, lease, swaps, row, faults, harmed, displaced>>

(* Fault: what was displaced is always removed. *)
Kept_Never(p) == {}

(* What preserveMovedIndexEvidence keeps beside the backups.                *)
Kept(p) == LET a == aside[proc[p].swap]
           IN IF proc[p].keep /\ a.main # NoDb THEN {Contents(a.main, a.wal)} ELSE {}

(* The published index is valid: what it displaced goes.                    *)
Clear(p) ==
  /\ At(p, "validate") /\ Sound
  /\ evidence' = evidence \cup Kept(p)
  /\ aside' = [aside EXCEPT ![proc[p].swap] = Nothing]
  /\ Goto(p, "complete")
  /\ UNCHANGED <<main, wal, backups, journal, lease, swaps, row, faults, harmed, displaced>>

Complete(p) ==
  /\ At(p, "complete")
  /\ Phase(p, "complete")
  /\ Goto(p, "forget")
  /\ UNCHANGED <<main, wal, aside, evidence, backups, lease, swaps, row, faults, harmed, displaced>>

Forget(p) ==
  /\ At(p, "forget")
  /\ journal' = NoJournal
  /\ Goto(p, "prune")
  /\ UNCHANGED <<main, wal, aside, evidence, backups, lease, swaps, row, faults, harmed, displaced>>

-----------------------------------------------------------------------------
(* pruneAutomaticIndexBackups: of those with a manifest the newest of each  *)
(* of the last few schemas stays.                                           *)
Candidates == {b \in DOMAIN backups : backups[b].kind = "automatic"
                                       /\ backups[b].listed /\ backups[b].there}
Latest(s) == {b \in Candidates : backups[b].db.schema = s
               /\ \A c \in Candidates : backups[c].db.schema = s => c <= b}

(* Fault: the newest backups stay, whatever their schema. *)
Stays_BySequence(b) == Cardinality({c \in Candidates : c > b}) < KeptSchemas

Stays(b) ==
  /\ b \in Latest(backups[b].db.schema)
  /\ Cardinality({s \in Schemas : \E c \in Latest(s) : c > b}) < KeptSchemas

Prune(p) ==
  /\ At(p, "prune")
  /\ backups' = IF proc[p].mine = 0 THEN backups
                ELSE [b \in DOMAIN backups |->
                       IF b \notin Candidates \/ b = proc[p].mine \/ Stays(b)
                         THEN backups[b] ELSE Gone]
  /\ Ends(p)
  /\ UNCHANGED <<main, wal, aside, evidence, journal, swaps, row, faults, harmed, displaced>>

-----------------------------------------------------------------------------
(* Failure.  restoreMovedIndex: each part is renamed back, and a rename of  *)
(* those in "stuck" fails too.                                              *)
Parts(p) == {part \in {"main", "wal"} :
               IF part = "main" THEN aside[proc[p].swap].main # NoDb
                                ELSE aside[proc[p].swap].wal # {}}

(* Fault: only the database file is renamed back. *)
PutBack_MainOnly(p, here, stuck) ==
  LET a == aside[proc[p].swap]
      back == (Parts(p) \ stuck) \ {"wal"}
  IN /\ main' = IF "main" \in back THEN a.main ELSE here
     /\ wal' = IF "wal" \in back THEN a.wal ELSE wal
     /\ aside' = [aside EXCEPT ![proc[p].swap] =
                    [main |-> IF "main" \in back THEN NoDb ELSE a.main,
                     wal |-> IF "wal" \in back THEN {} ELSE a.wal]]

PutBack(p, here, stuck) ==
  LET a == aside[proc[p].swap]
      back == Parts(p) \ stuck
  IN /\ main' = IF "main" \in back THEN a.main ELSE here
     /\ wal' = IF "wal" \in back THEN a.wal ELSE wal
     /\ aside' = [aside EXCEPT ![proc[p].swap] =
                    [main |-> IF "main" \in back THEN NoDb ELSE a.main,
                     wal |-> IF "wal" \in back THEN {} ELSE a.wal]]

Stuck(p, already) ==
  {stuck \in SUBSET Parts(p) : faults + already + Cardinality(stuck) <= MaxFaults}

(* A rename of moveActiveIndexAside fails: the journal goes, whether or not *)
(* what had been moved is back.                                             *)
MoveFails(p) ==
  /\ proc[p].step \in {"move", "movewal"} /\ Fault
  /\ \E stuck \in Stuck(p, 1) :
        /\ PutBack(p, main, stuck)
        /\ faults' = faults + 1 + Cardinality(stuck)
  /\ journal' = NoJournal
  /\ Ends(p)
  /\ UNCHANGED <<evidence, backups, swaps, row, harmed, displaced>>

(* The journal cannot be updated, or the stage not renamed: the journal     *)
(* goes only when everything is back.                                       *)
PublishFails(p) ==
  /\ proc[p].step \in {"noted", "publish"}
  /\ \E stuck \in Stuck(p, 1) :
        /\ faults + 1 + Cardinality(stuck) <= MaxFaults
        /\ PutBack(p, main, stuck)
        /\ faults' = faults + 1 + Cardinality(stuck)
        /\ journal' = IF stuck = {} THEN NoJournal ELSE journal
  /\ Ends(p)
  /\ UNCHANGED <<evidence, backups, swaps, row, harmed, displaced>>

(* The published file is not what was staged.                               *)
PublishTears(p) ==
  /\ At(p, "publish") /\ Fault
  /\ main' = [proc[p].stage EXCEPT !.is = "torn"]
  /\ Published(p)
  /\ UNCHANGED <<wal, aside, evidence, backups, journal, lease, swaps, row, harmed, displaced>>

(* The torn copy is renamed out of the way, for good.                       *)
ValidateFails(p) ==
  /\ At(p, "validate") /\ ~Sound
  /\ \E stuck \in Stuck(p, 0) :
        /\ PutBack(p, NoDb, stuck)
        /\ faults' = faults + Cardinality(stuck)
        /\ journal' = IF stuck = {} THEN NoJournal ELSE journal
  /\ Ends(p)
  /\ UNCHANGED <<evidence, backups, swaps, row, harmed, displaced>>

(* Any later error, and a kill at any point: the journal stays as it is.    *)
Stops(p) ==
  /\ ~At(p, "idle")
  /\ Ends(p)
  /\ UNCHANGED <<disk, swaps, row, faults, harmed, displaced>>

(* External: the file goes bad, while no swap runs.                         *)
Damage ==
  /\ ~harmed /\ Sound /\ lease = Nobody
  /\ harmed' = TRUE
  /\ main' = [Contents(main, wal) EXCEPT !.is = "damaged"]
  /\ wal' = {}
  /\ UNCHANGED <<aside, evidence, backups, journal, lease, proc, swaps, row, faults, displaced>>

Open(p) == Check(p) \/ Use(p) \/ Refused(p) \/ Outdated(p)
Stage(p) == StageRebuild(p) \/ StageRestore(p) \/ StageMigration(p)
Replace(p) == \/ Preserve(p) \/ ListBackup(p) \/ WriteJournal(p) \/ MoveMain(p)
              \/ MoveWal(p) \/ NotePreserved(p) \/ Publish(p) \/ NotePublished(p)
              \/ Clear(p) \/ Complete(p) \/ Forget(p) \/ Prune(p)
Fails(p) == \/ GiveUp(p) \/ MoveFails(p) \/ PublishFails(p) \/ PublishTears(p)
            \/ ValidateFails(p) \/ Stops(p)

Next == \/ Damage
        \/ \E p \in Procs :
             \/ Open(p) \/ Stage(p) \/ Replace(p) \/ Fails(p)
             \/ \E reason \in Reasons : Begin(p, reason)

Spec == Init /\ [][Next]_vars

-----------------------------------------------------------------------------
(* Rollback (docs/index-maintenance.md): the last index displaced of each   *)
(* of the most recently displaced schemas is in a backup of that schema,    *)
(* with every row it had, through crashes, failures and later swaps.        *)
RollbacksStand ==
  \A s \in Schemas :
    LET d == displaced[s]
    IN d.at # 0 /\ Cardinality({t \in Schemas : displaced[t].at > d.at}) < KeptSchemas
         => /\ backups[d.at].there
            /\ backups[d.at].db.schema = s
            /\ d.rows \subseteq backups[d.at].db.rows

(* "An unreadable index is not a reason to delete it": once the active file *)
(* is damaged it is still somewhere, whatever is rebuilt or restored.       *)
DamagedIsKept ==
  harmed => \E db \in evidence \cup {main} \cup {aside[s].main : s \in 1..MaxSwaps} :
              db # NoDb /\ db.is = "damaged"

(* A swap that fails and drops its journal leaves the index as it was: its  *)
(* schema, and every row it had when it was backed up (if meanwhile no      *)
(* command that had passed the journal's check wrote to the path).          *)
FailureRestores ==
  [][\A p \in Procs :
       (/\ proc[p].swap # 0 /\ proc[p].mine # 0 /\ ~At(p, "forget")
        /\ proc[p].at = row
        /\ journal # NoJournal /\ journal' = NoJournal /\ At(p, "idle")')
       => /\ main' # NoDb
          /\ main'.schema = backups[proc[p].mine].db.schema
          /\ proc[p].saw \subseteq main'.rows \cup wal']_vars

(* "The selected backup remains untouched": a restore removes no backup it  *)
(* has just been asked to restore.                                          *)
SelectedStands ==
  [][\A p \in Procs :
       proc[p].from # 0 /\ backups[proc[p].from].there
         => backups'[proc[p].from].there]_vars
=============================================================================
