----------------------------- MODULE HubBackup -----------------------------
(***************************************************************************)
(* The backup files of prune and vacuum (internal/hubstore/retention.go).  *)
(* A backup is a file beside hub.sqlite, a hard link to it (".claim") that *)
(* proves it is the hub's own, an intent (".pending") while the operation  *)
(* that makes it is unfinished, and, once that has committed, a row of     *)
(* prune_audit.  Files change one by one, rows by transaction, and several *)
(* processes prune and vacuum, fail or die at any point; what a user does  *)
(* to the files of the hub's home is external.                             *)
(*                                                                         *)
(* What the publications are is HubStream's matter: here a prune commits   *)
(* or fails.  The checks and the removal of one directory entry are one    *)
(* step where nothing is removed between them.                             *)
(***************************************************************************)
EXTENDS Integers, FiniteSets

CONSTANTS
  Operators,   \* processes that prune or vacuum
  Backups,     \* backup paths
  NoBackup,    \* no path
  Nobody,      \* the free writer slot
  MaxEpoch,    \* bound: prunes that commit
  MaxTouched   \* bound: backups a user tampers with

ASSUME BackupAssumption ==
  /\ NoBackup \notin Backups
  /\ Nobody \notin Operators
  /\ MaxEpoch \in Nat
  /\ MaxTouched \in Nat

VARIABLES
  epoch,    \* hub_meta.retention_epoch
  audit,    \* prune_audit
  file,     \* what is at each backup path
  copy,     \* the epoch of the state a full backup holds
  claim,    \* the paths with a .claim
  pending,  \* the paths with a .pending
  writer,   \* who holds SQLite's writer slot
  op,       \* what each process does
  touched,  \* history: backups a user has tampered with
  dropped   \* history: unfinished backups whose removal was cut short

disk == <<file, copy, claim, pending>>
vars == <<epoch, audit, file, copy, claim, pending, writer, op, touched, dropped>>

Stages == {"idle", "reconcile", "ready", "build", "finish", "compact", "clean"}
Steps == {"next", "claim", "intend", "snapshot", "commit",
          "list", "unlink", "unclaim", "mark"}

AuditRow == [backup : Backups, epoch : Nat, available : BOOLEAN]
Operation == [stage : Stages, step : Steps, kind : {"prune", "vacuum"},
              mine : Backups \cup {NoBackup},  \* the backup it makes
              cur : Backups \cup {NoBackup},   \* the one it removes
              todo : SUBSET Backups, epoch : Nat]

(* Every table, file and process has a value of its shape. *)
TypeOK ==
  /\ epoch \in Nat
  /\ audit \subseteq AuditRow
  /\ file \in [Backups -> {"none", "partial", "full", "foreign"}]
  /\ copy \in [Backups -> Nat]
  /\ claim \subseteq Backups
  /\ pending \subseteq Backups
  /\ writer \in Operators \cup {Nobody}
  /\ op \in [Operators -> Operation]
  /\ \A o \in Operators :
        /\ op[o].stage \in {"build", "finish", "compact", "clean"}
             => op[o].mine \in Backups
        /\ op[o].step \in {"unlink", "unclaim", "mark"} => op[o].cur \in Backups
  /\ touched \subseteq Backups
  /\ dropped \subseteq Backups

Idle == [stage |-> "idle", step |-> "next", kind |-> "prune", mine |-> NoBackup,
         cur |-> NoBackup, todo |-> {}, epoch |-> 0]

Init ==
  /\ epoch = 0
  /\ audit = {}
  /\ file = [b \in Backups |-> "none"]
  /\ copy = [b \in Backups |-> 0]
  /\ claim = {}
  /\ pending = {}
  /\ writer = Nobody
  /\ op = [o \in Operators |-> Idle]
  /\ touched = {}
  /\ dropped = {}

-----------------------------------------------------------------------------

At(o, stage, step) == op[o].stage = stage /\ op[o].step = step
Recorded(b) == \E r \in audit : r.backup = b
DropsUnfinished(o) == At(o, "reconcile", "unlink")

(* The backup and its claim are one file. *)
Owned(b) == file[b] \in {"partial", "full"} /\ b \in claim

(* A random path nothing is known of. *)
Unused(b) ==
  /\ file[b] = "none" /\ b \notin claim \cup pending /\ ~Recorded(b)
  /\ \A o \in Operators : b \notin {op[o].mine, op[o].cur} \cup op[o].todo

(* The operation ends, by an error, a kill, or because it is done; its      *)
(* transaction, if one is open, is over.                                    *)
Ends(o) ==
  /\ op' = [op EXCEPT ![o] = Idle]
  /\ writer' = IF writer = o THEN Nobody ELSE writer
  /\ dropped' = IF DropsUnfinished(o) THEN dropped \cup {op[o].cur} ELSE dropped

(* The next backup of the stage. *)
GoesOn(o) == op' = [op EXCEPT ![o] = [@ EXCEPT !.step = "next", !.cur = NoBackup]]

TakeWriter(o) == writer = Nobody /\ writer' = o

-----------------------------------------------------------------------------
(* reconcilePendingPruneBackups, in a write transaction: the intents other  *)
(* operations left.                                                         *)

(* Fault: the intents are looked at without holding the writer slot. *)
Begin_Unlocked(o, kind) ==
  /\ op[o].stage = "idle"
  /\ op' = [op EXCEPT ![o] = [Idle EXCEPT !.stage = "reconcile", !.kind = kind,
                                          !.todo = pending]]
  /\ UNCHANGED <<epoch, audit, disk, writer, touched, dropped>>

Begin(o, kind) ==
  /\ op[o].stage = "idle"
  /\ TakeWriter(o)
  /\ op' = [op EXCEPT ![o] = [Idle EXCEPT !.stage = "reconcile", !.kind = kind,
                                          !.todo = pending]]
  /\ UNCHANGED <<epoch, audit, disk, touched, dropped>>

(* Fault: a backup with an intent is never taken for recorded. *)
Keeps_Nothing(b) == FALSE

(* A backup the audit retains outlives its intent. *)
Keeps(b) == Recorded(b)

(* An intent that is only cleared: its backup is recorded, or there is      *)
(* nothing left to remove.                                                  *)
ClearIntent(o, b) ==
  /\ At(o, "reconcile", "next") /\ b \in op[o].todo /\ b \in pending
  /\ Keeps(b) \/ (file[b] = "none" /\ b \notin claim)
  /\ pending' = pending \ {b}
  /\ op' = [op EXCEPT ![o].todo = @ \ {b}]
  /\ UNCHANGED <<epoch, audit, file, copy, claim, writer, touched, dropped>>

(* An unfinished backup: the intent goes first, then the files.             *)
RemoveUnfinished(o, b) ==
  /\ At(o, "reconcile", "next") /\ b \in op[o].todo /\ b \in pending
  /\ ~Keeps(b)
  /\ Owned(b)
  /\ pending' = pending \ {b}
  /\ op' = [op EXCEPT ![o] = [@ EXCEPT !.todo = op[o].todo \ {b}, !.cur = b,
                                       !.step = "unlink"]]
  /\ UNCHANGED <<epoch, audit, file, copy, claim, writer, touched, dropped>>

(* An incomplete pair: the survivor stays, the intent goes, the operation   *)
(* fails.  A pair of two different files fails it with the intent in place; *)
(* so does an intent that went after the directory was read.                *)
RefuseIntent(o, b) ==
  /\ At(o, "reconcile", "next") /\ b \in op[o].todo
  /\ b \in pending =>
       ~Keeps(b) /\ ~Owned(b) /\ (file[b] # "none" \/ b \in claim)
  /\ pending' = IF file[b] = "none" \/ b \notin claim THEN pending \ {b} ELSE pending
  /\ Ends(o)
  /\ UNCHANGED <<epoch, audit, file, copy, claim, touched>>

(* The transaction ends.  A prune then plans, and may find nothing to do.   *)
Reconciled(o) ==
  /\ At(o, "reconcile", "next") /\ op[o].todo = {}
  /\ op' = [op EXCEPT ![o].stage = "ready"]
  /\ writer' = IF writer = o THEN Nobody ELSE writer
  /\ UNCHANGED <<epoch, audit, disk, touched, dropped>>

-----------------------------------------------------------------------------
(* backupForPrune, in the write transaction of the prune or the vacuum.     *)

Reserve(o, b) ==
  /\ At(o, "ready", "next")
  /\ TakeWriter(o)
  /\ Unused(b)
  /\ file' = [file EXCEPT ![b] = "partial"]
  /\ op' = [op EXCEPT ![o] = [@ EXCEPT !.stage = "build", !.step = "claim",
                                       !.mine = b]]
  /\ UNCHANGED <<epoch, audit, copy, claim, pending, touched, dropped>>

LinkClaim(o) ==
  /\ At(o, "build", "claim")
  /\ claim' = claim \cup {op[o].mine}
  /\ op' = [op EXCEPT ![o].step = "intend"]
  /\ UNCHANGED <<epoch, audit, file, copy, pending, writer, touched, dropped>>

(* writePruneIntent; when it fails the reservation is taken back.           *)
WriteIntent(o) ==
  /\ At(o, "build", "intend")
  /\ \/ /\ pending' = pending \cup {op[o].mine}
        /\ op' = [op EXCEPT ![o].step = "snapshot"]
     \/ /\ op' = [op EXCEPT ![o] = [@ EXCEPT !.step = "unlink", !.cur = op[o].mine]]
        /\ UNCHANGED pending
  /\ UNCHANGED <<epoch, audit, file, copy, claim, writer, touched, dropped>>

(* Fault: the intent goes once the snapshot is verified. *)
Snapshot_ClearsIntent(o) ==
  /\ At(o, "build", "snapshot")
  /\ file' = [file EXCEPT ![op[o].mine] = "full"]
  /\ copy' = [copy EXCEPT ![op[o].mine] = epoch]
  /\ pending' = pending \ {op[o].mine}
  /\ op' = [op EXCEPT ![o].step = "commit"]
  /\ UNCHANGED <<epoch, audit, claim, writer, touched, dropped>>

(* VACUUM INTO, synced and verified: the last committed state. *)
Snapshot(o) ==
  /\ At(o, "build", "snapshot")
  /\ file' = [file EXCEPT ![op[o].mine] = "full"]
  /\ copy' = [copy EXCEPT ![op[o].mine] = epoch]
  /\ op' = [op EXCEPT ![o].step = "commit"]
  /\ UNCHANGED <<epoch, audit, claim, pending, writer, touched, dropped>>

(* The prune's transaction moves the epoch and records it; the vacuum's     *)
(* records the epoch it finds.                                              *)
RecordedEpoch(o) == IF op[o].kind = "prune" THEN epoch + 1 ELSE epoch

Commit(o) ==
  /\ At(o, "build", "commit")
  /\ RecordedEpoch(o) <= MaxEpoch
  /\ epoch' = RecordedEpoch(o)
  /\ audit' = audit \cup {[backup |-> op[o].mine, epoch |-> RecordedEpoch(o),
                           available |-> TRUE]}
  /\ op' = [op EXCEPT ![o] = [@ EXCEPT !.stage = "finish", !.step = "next",
                                       !.epoch = RecordedEpoch(o)]]
  /\ writer' = Nobody
  /\ UNCHANGED <<disk, touched, dropped>>

-----------------------------------------------------------------------------
(* After the commit.                                                        *)

(* The intent is removed; whether that works is not looked at.              *)
Finish(o) ==
  /\ At(o, "finish", "next")
  /\ pending' \in {pending, pending \ {op[o].mine}}
  /\ op' = [op EXCEPT ![o] =
               IF op[o].kind = "vacuum" THEN [@ EXCEPT !.stage = "compact"]
               ELSE [@ EXCEPT !.stage = "clean", !.step = "list"]]
  /\ UNCHANGED <<epoch, audit, file, copy, claim, writer, touched, dropped>>

(* VACUUM, the checkpoint and the integrity check after it. *)
Compact(o) ==
  /\ At(o, "compact", "next")
  /\ writer = Nobody
  /\ op' = [op EXCEPT ![o] = [@ EXCEPT !.stage = "clean", !.step = "list"]]
  /\ UNCHANGED <<epoch, audit, disk, writer, touched, dropped>>

(* The recorded backups cleanupPruneBackups removes. *)
Old(o) ==
  {r.backup : r \in {x \in audit : /\ x.available
                                   /\ x.epoch <= op[o].epoch
                                   /\ x.backup # op[o].mine}}

ListOld(o) ==
  /\ At(o, "clean", "list")
  /\ op' = [op EXCEPT ![o] = [@ EXCEPT !.step = "next", !.todo = Old(o)]]
  /\ UNCHANGED <<epoch, audit, disk, writer, touched, dropped>>

(* With a claim, the backup is removed as the hub's own; without one (a hub *)
(* from before claims), as it is.                                           *)
RemoveOld(o, b) ==
  /\ At(o, "clean", "next") /\ b \in op[o].todo
  /\ file' = IF b \in claim THEN file ELSE [file EXCEPT ![b] = "none"]
  /\ op' = [op EXCEPT ![o] = [@ EXCEPT !.cur = b, !.todo = op[o].todo \ {b},
                !.step = IF b \in claim THEN "unlink" ELSE "mark"]]
  /\ UNCHANGED <<epoch, audit, copy, claim, pending, writer, touched, dropped>>

(* The row says so, unless the update fails.                                *)
MarkRemoved(o) ==
  /\ At(o, "clean", "mark")
  /\ \/ /\ writer = Nobody
        /\ audit' = {[r EXCEPT !.available = @ /\ r.backup # op[o].cur] : r \in audit}
     \/ UNCHANGED audit
  /\ GoesOn(o)
  /\ UNCHANGED <<epoch, disk, writer, touched, dropped>>

Done(o) ==
  /\ At(o, "clean", "next") /\ op[o].todo = {}
  /\ Ends(o)
  /\ UNCHANGED <<epoch, audit, disk, touched>>

-----------------------------------------------------------------------------
(* removeClaimedPruneBackup, for an unfinished, a refused or an old backup. *)

Unlink(o) ==
  /\ op[o].step = "unlink"
  /\ Owned(op[o].cur)
  /\ file' = [file EXCEPT ![op[o].cur] = "none"]
  /\ op' = [op EXCEPT ![o].step = "unclaim"]
  /\ UNCHANGED <<epoch, audit, copy, claim, pending, writer, touched, dropped>>

(* Not the hub's own any more: the cleanup goes on with the next backup,    *)
(* everybody else fails.                                                    *)
SkipUnlink(o) ==
  /\ op[o].step = "unlink"
  /\ ~Owned(op[o].cur)
  /\ IF op[o].stage = "clean"
     THEN /\ GoesOn(o)
          /\ UNCHANGED <<writer, dropped>>
     ELSE Ends(o)
  /\ UNCHANGED <<epoch, audit, disk, touched>>

Unclaim(o) ==
  /\ op[o].step = "unclaim"
  /\ claim' = claim \ {op[o].cur}
  /\ CASE op[o].stage = "clean" ->
            /\ op' = [op EXCEPT ![o].step = "mark"]
            /\ UNCHANGED <<writer, dropped>>
       [] op[o].stage = "reconcile" /\ op[o].cur \in claim ->
            /\ GoesOn(o)
            /\ UNCHANGED <<writer, dropped>>
       [] OTHER -> Ends(o)
  /\ UNCHANGED <<epoch, audit, file, copy, pending, touched>>

(* An error, a kill, a plan that changed or has nothing to remove.          *)
Fail(o) ==
  /\ op[o].stage # "idle"
  /\ Ends(o)
  /\ UNCHANGED <<epoch, audit, disk, touched>>

(* A user removes or replaces files that no operation is making.            *)
Tamper(b) ==
  /\ Cardinality(touched \cup {b}) <= MaxTouched
  /\ \A o \in Operators : op[o].stage = "build" => op[o].mine # b
  /\ touched' = touched \cup {b}
  /\ \/ /\ file[b] # "none"
        /\ file' = [file EXCEPT ![b] = "foreign"]
        /\ UNCHANGED claim
     \/ /\ file[b] \in {"partial", "full"}
        /\ file' = [file EXCEPT ![b] = "none"]
        /\ UNCHANGED claim
     \/ /\ b \in claim
        /\ claim' = claim \ {b}
        /\ UNCHANGED file
  /\ UNCHANGED <<epoch, audit, copy, pending, writer, op, dropped>>

Maintain(o) ==
  \/ \E kind \in {"prune", "vacuum"} : Begin(o, kind)
  \/ Reconciled(o) \/ LinkClaim(o) \/ WriteIntent(o) \/ Snapshot(o)
  \/ Commit(o) \/ Finish(o) \/ Compact(o) \/ ListOld(o) \/ MarkRemoved(o)
  \/ Done(o) \/ Unlink(o) \/ SkipUnlink(o) \/ Unclaim(o) \/ Fail(o)
  \/ \E b \in Backups :
        \/ ClearIntent(o, b) \/ RemoveUnfinished(o, b) \/ RefuseIntent(o, b)
        \/ Reserve(o, b) \/ RemoveOld(o, b)

Next == (\E o \in Operators : Maintain(o)) \/ (\E b \in Backups : Tamper(b))

Spec == Init /\ [][Next]_vars

-----------------------------------------------------------------------------
(* Properties.  Files a user has tampered with are out of the hub's hands.  *)

(* "Creates a verified SQLite backup before deletion" (docs/hub.md:122):    *)
(* the transaction that deletes also records a complete backup, of exactly  *)
(* the state it deletes from, that nobody has removed or overtaken while it *)
(* was made and verified.                                                   *)
DeletionIsBackedUp ==
  [][epoch' # epoch =>
       \E r \in audit' \ audit :
          /\ r.epoch = epoch'
          /\ file'[r.backup] = "full" /\ r.backup \in claim'
          /\ copy'[r.backup] = epoch]_vars

(* The backup of the last prune stays, whatever operations are interrupted, *)
(* reconciled or cleaned up after: only another operation recorded at the   *)
(* same epoch, hence a vacuum, may remove it ("only if no audit record      *)
(* retains it", docs/hub.md:138; cleanupPruneBackups, retention.go:386).    *)
NewestBackupStands ==
  \A r \in audit :
     /\ r.epoch = epoch
     /\ \A q \in audit : q.epoch = epoch => q = r
     /\ r.backup \notin touched
     => file[r.backup] = "full" /\ r.backup \in claim

(* No interrupted operation leaves a full snapshot behind that nobody will  *)
(* find: it is recorded, or its intent is still there, unless the process   *)
(* that was reconciling it died ("an interrupted prune or vacuum can leave  *)
(* a pending backup intent", docs/hub.md:137).                              *)
SnapshotsAreTracked ==
  \A b \in Backups :
     file[b] = "full" /\ ~Recorded(b) /\ b \notin touched
       => \/ b \in pending \cup dropped
          \/ \E o \in Operators : op[o].cur = b

(* A row that says its backup is gone is right about it.                    *)
GoneIsGone ==
  \A r \in audit :
     ~r.available /\ r.backup \notin touched => file[r.backup] = "none"

(* A file somebody put in the place of a backup is not removed while the    *)
(* claim shows that it is not the hub's (removeClaimedPruneBackup,          *)
(* retention.go:562).                                                       *)
ForeignFilesStand ==
  [][\A b \in Backups :
       file[b] = "foreign" /\ b \in claim => file'[b] = "foreign"]_vars

=============================================================================
