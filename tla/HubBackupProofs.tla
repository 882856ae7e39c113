-------------------------- MODULE HubBackupProofs --------------------------
(***************************************************************************)
(* The backup files stand: theorems about HubBackup for any number of      *)
(* processes, backups and tampered files.                                  *)
(***************************************************************************)
EXTENDS HubBackup, TLAPS

(* A process has the backups its stage and step speak of. *)
Equipped(o) ==
  /\ op[o].stage \in {"build", "finish", "compact", "clean"}
       => op[o].mine \in Backups
  /\ op[o].step \in {"unlink", "unclaim", "mark"} => op[o].cur \in Backups

(* Whoever reconciles or builds has the writer slot. *)
SlotHeld ==
  \A o \in Operators : op[o].stage \in {"reconcile", "build"} => writer = o

(* Rows are of this epoch or earlier ones, one for each backup. *)
RowsInOrder ==
  /\ \A r \in audit : r.epoch <= epoch
  /\ \A r, q \in audit : r.backup = q.backup => r = q

(* Removals happen in three stages only. *)
StepsFit(o) ==
  /\ op[o].stage \in {"idle", "ready", "finish", "compact"} => op[o].step = "next"
  /\ op[o].stage = "reconcile" => op[o].step \in {"next", "unlink", "unclaim"}
  /\ op[o].stage = "build" =>
       op[o].step \in {"claim", "intend", "snapshot", "commit", "unlink", "unclaim"}
  /\ op[o].stage = "clean" =>
       op[o].step \in {"list", "next", "unlink", "unclaim", "mark"}

(* A backup that is being made is in no row, has its claim from the second  *)
(* step on, and holds the current state when the transaction commits.       *)
Builds(o) ==
  op[o].stage = "build" =>
    /\ ~Recorded(op[o].mine)
    /\ op[o].step \in {"unlink", "unclaim"} => op[o].cur = op[o].mine
    /\ op[o].step \in {"intend", "snapshot", "commit"} => op[o].mine \in claim
    /\ op[o].step = "commit" =>
         file[op[o].mine] = "full" /\ copy[op[o].mine] = epoch

(* Reconciling removes what is not recorded. *)
Reconciles(o) ==
  op[o].stage = "reconcile" /\ op[o].step \in {"unlink", "unclaim"}
    => ~Recorded(op[o].cur)

OwnRow(o) == \E r \in audit : r.backup = op[o].mine /\ r.epoch = op[o].epoch
OldRow(o, b) ==
  b # op[o].mine /\ \E r \in audit : r.backup = b /\ r.epoch <= op[o].epoch

(* Cleaning up removes what is recorded at the cleaner's epoch or before,   *)
(* and never the cleaner's own backup, which is recorded too.               *)
Cleans(o) ==
  /\ op[o].stage \in {"finish", "compact", "clean"} => OwnRow(o)
  /\ op[o].stage = "clean" =>
       /\ op[o].step # "list" => \A b \in op[o].todo : OldRow(o, b)
       /\ op[o].step \in {"unlink", "unclaim", "mark"} => OldRow(o, op[o].cur)
       /\ op[o].step \in {"unclaim", "mark"} /\ op[o].cur \notin touched
            => file[op[o].cur] = "none"

OpInv(o) == StepsFit(o) /\ Builds(o) /\ Reconciles(o) /\ Cleans(o)

BackupInv ==
  /\ TypeOK
  /\ SlotHeld
  /\ RowsInOrder
  /\ \A o \in Operators : OpInv(o)
  /\ NewestBackupStands
  /\ GoneIsGone

(* Nobody but o moves. *)
Alone(o) == \A p \in Operators \ {o} : op'[p] = op[p]

(* Nothing but processes, intents and the writer slot changes. *)
Quiet == UNCHANGED <<epoch, audit, file, copy, claim, touched>>

-----------------------------------------------------------------------------
(* Shapes.                                                                  *)

(* What each process does stays an Operation. *)
LEMMA OpType ==
  ASSUME op \in [Operators -> Operation], audit \subseteq AuditRow,
         pending \subseteq Backups, epoch \in Nat, [Next]_vars
  PROVE  op' \in [Operators -> Operation]
<1> USE BackupAssumption
<1>end. ASSUME NEW o \in Operators, Ends(o)
        PROVE  op' \in [Operators -> Operation]
  BY <1>end DEF Ends, Idle, Operation, Stages, Steps
<1>on. ASSUME NEW o \in Operators, GoesOn(o)
       PROVE  op' \in [Operators -> Operation]
  <2>1. \A n \in Operation :
          [n EXCEPT !.step = "next", !.cur = NoBackup] \in Operation
    BY Zenon DEF Operation, Stages, Steps
  <2> QED
    BY <1>on, <2>1 DEF GoesOn
<1>1. ASSUME NEW o \in Operators, NEW kind \in {"prune", "vacuum"}, Begin(o, kind)
     PROVE  op' \in [Operators -> Operation]
  BY <1>1 DEF Begin, TakeWriter, Idle, Operation, Stages, Steps
<1>2. ASSUME NEW o \in Operators, Reconciled(o)
     PROVE  op' \in [Operators -> Operation]
  BY <1>2 DEF Reconciled, Operation, Stages, Steps
<1>3. ASSUME NEW o \in Operators, LinkClaim(o)
     PROVE  op' \in [Operators -> Operation]
  BY <1>3 DEF LinkClaim, Operation, Stages, Steps
<1>4. ASSUME NEW o \in Operators, WriteIntent(o)
     PROVE  op' \in [Operators -> Operation]
  <2>1. \A n \in Operation, b \in Backups \cup {NoBackup} :
          [n EXCEPT !.step = "unlink", !.cur = b] \in Operation
    BY Zenon DEF Operation, Stages, Steps
  <2>2. op[o].mine \in Backups \cup {NoBackup}
    BY DEF Operation
  <2>3. CASE op' = [op EXCEPT ![o].step = "snapshot"]
    BY <2>3 DEF Operation, Stages, Steps
  <2>4. CASE op' = [op EXCEPT ![o] = [@ EXCEPT !.step = "unlink", !.cur = op[o].mine]]
    BY <2>4, <2>1, <2>2
  <2> QED
    BY <1>4, <2>3, <2>4 DEF WriteIntent
<1>5. ASSUME NEW o \in Operators, Snapshot(o)
     PROVE  op' \in [Operators -> Operation]
  BY <1>5 DEF Snapshot, Operation, Stages, Steps
<1>6. ASSUME NEW o \in Operators, Commit(o)
     PROVE  op' \in [Operators -> Operation]
  <2>2. RecordedEpoch(o) \in Nat
    BY DEF RecordedEpoch
  <2>1. \A n \in Operation :
          [n EXCEPT !.stage = "finish", !.step = "next", !.epoch = RecordedEpoch(o)]
             \in Operation
    BY <2>2, Zenon DEF Operation, Stages, Steps
  <2> QED
    BY <1>6, <2>1 DEF Commit
<1>7. ASSUME NEW o \in Operators, Finish(o)
     PROVE  op' \in [Operators -> Operation]
  <2>1. \A n \in Operation :
          /\ [n EXCEPT !.stage = "clean", !.step = "list"] \in Operation
          /\ [n EXCEPT !.stage = "compact"] \in Operation
    BY Zenon DEF Operation, Stages, Steps
  <2> QED
    BY <1>7, <2>1 DEF Finish
<1>8. ASSUME NEW o \in Operators, Compact(o)
     PROVE  op' \in [Operators -> Operation]
  <2>1. \A n \in Operation :
          [n EXCEPT !.stage = "clean", !.step = "list"] \in Operation
    BY Zenon DEF Operation, Stages, Steps
  <2> QED
    BY <1>8, <2>1 DEF Compact
<1>9. ASSUME NEW o \in Operators, ListOld(o)
     PROVE  op' \in [Operators -> Operation]
  <2>1. \A n \in Operation, B \in SUBSET Backups :
          [n EXCEPT !.step = "next", !.todo = B] \in Operation
    BY Zenon DEF Operation, Stages, Steps
  <2>2. Old(o) \in SUBSET Backups
    BY DEF Old, AuditRow
  <2> QED
    BY <1>9, <2>1, <2>2 DEF ListOld
<1>10. ASSUME NEW o \in Operators, MarkRemoved(o)
     PROVE  op' \in [Operators -> Operation]
  BY <1>10, <1>on DEF MarkRemoved
<1>11. ASSUME NEW o \in Operators, Done(o)
     PROVE  op' \in [Operators -> Operation]
  BY <1>11, <1>end DEF Done
<1>12. ASSUME NEW o \in Operators, Unlink(o)
     PROVE  op' \in [Operators -> Operation]
  BY <1>12 DEF Unlink, Operation, Stages, Steps
<1>13. ASSUME NEW o \in Operators, SkipUnlink(o)
     PROVE  op' \in [Operators -> Operation]
  BY <1>13, <1>on, <1>end DEF SkipUnlink
<1>14. ASSUME NEW o \in Operators, Unclaim(o)
     PROVE  op' \in [Operators -> Operation]
  <2>1. CASE op' = [op EXCEPT ![o].step = "mark"]
    BY <2>1 DEF Operation, Steps
  <2> QED
    BY <1>14, <1>on, <1>end, <2>1 DEF Unclaim
<1>15. ASSUME NEW o \in Operators, Fail(o)
     PROVE  op' \in [Operators -> Operation]
  BY <1>15, <1>end DEF Fail
<1>16. ASSUME NEW o \in Operators, NEW b \in Backups, ClearIntent(o, b)
     PROVE  op' \in [Operators -> Operation]
  BY <1>16 DEF ClearIntent, Operation, Stages, Steps
<1>17. ASSUME NEW o \in Operators, NEW b \in Backups, RemoveUnfinished(o, b)
     PROVE  op' \in [Operators -> Operation]
  <2>1. \A n \in Operation, B \in SUBSET Backups :
          [n EXCEPT !.todo = B, !.cur = b, !.step = "unlink"] \in Operation
    BY Zenon DEF Operation, Stages, Steps
  <2>2. op[o].todo \ {b} \in SUBSET Backups
    BY DEF Operation
  <2> QED
    BY <1>17, <2>1, <2>2 DEF RemoveUnfinished
<1>18. ASSUME NEW o \in Operators, NEW b \in Backups, RefuseIntent(o, b)
     PROVE  op' \in [Operators -> Operation]
  BY <1>18, <1>end DEF RefuseIntent
<1>19. ASSUME NEW o \in Operators, NEW b \in Backups, Reserve(o, b)
     PROVE  op' \in [Operators -> Operation]
  <2>1. \A n \in Operation :
          [n EXCEPT !.stage = "build", !.step = "claim", !.mine = b] \in Operation
    BY Zenon DEF Operation, Stages, Steps
  <2> QED
    BY <1>19, <2>1 DEF Reserve, TakeWriter
<1>20. ASSUME NEW o \in Operators, NEW b \in Backups, RemoveOld(o, b)
     PROVE  op' \in [Operators -> Operation]
  <2>1. \A n \in Operation, B \in SUBSET Backups, t \in {"unlink", "mark"} :
          [n EXCEPT !.cur = b, !.todo = B, !.step = t] \in Operation
    BY Zenon DEF Operation, Stages, Steps
  <2>2. op[o].todo \ {b} \in SUBSET Backups
    BY DEF Operation
  <2> QED
    BY <1>20, <2>1, <2>2 DEF RemoveOld
<1>21. ASSUME NEW b \in Backups, Tamper(b)
     PROVE  op' \in [Operators -> Operation]
  BY <1>21 DEF Tamper
<1>22. CASE UNCHANGED vars
  BY <1>22 DEF vars
<1> QED
  BY <1>1, <1>2, <1>3, <1>4, <1>5, <1>6, <1>7, <1>8, <1>9, <1>10,
     <1>11, <1>12, <1>13, <1>14, <1>15, <1>16, <1>17, <1>18, <1>19,
     <1>20, <1>21, <1>22 DEF Next, Maintain

(* So do the tables and files. *)
LEMMA TableType ==
  ASSUME TypeOK, NEW o \in Operators, Maintain(o)
  PROVE  /\ epoch' \in Nat
         /\ audit' \subseteq AuditRow
         /\ file' \in [Backups -> {"none", "partial", "full", "foreign"}]
         /\ copy' \in [Backups -> Nat]
         /\ claim' \subseteq Backups
         /\ pending' \subseteq Backups
         /\ writer' \in Operators \cup {Nobody}
         /\ touched' \subseteq Backups
         /\ dropped' \subseteq Backups
<1> DEFINE Tables == /\ epoch' \in Nat
                     /\ audit' \subseteq AuditRow
                     /\ file' \in [Backups -> {"none", "partial", "full", "foreign"}]
                     /\ copy' \in [Backups -> Nat]
                     /\ claim' \subseteq Backups
                     /\ pending' \subseteq Backups
                     /\ writer' \in Operators \cup {Nobody}
                     /\ touched' \subseteq Backups
                     /\ dropped' \subseteq Backups
<1>end. ASSUME Ends(o)
        PROVE  writer' \in Operators \cup {Nobody} /\ dropped' \subseteq Backups
  BY <1>end DEF Ends, DropsUnfinished, At, TypeOK
<1>1. ASSUME NEW kind \in {"prune", "vacuum"}, Begin(o, kind)
      PROVE  Tables
  BY <1>1 DEF Begin, TakeWriter, TypeOK, disk
<1>2. CASE Reconciled(o)
  BY <1>2 DEF Reconciled, TypeOK, disk
<1>3. CASE LinkClaim(o)
  BY <1>3 DEF LinkClaim, At, TypeOK
<1>4. CASE WriteIntent(o)
  BY <1>4 DEF WriteIntent, At, TypeOK
<1>5. CASE Snapshot(o)
  BY <1>5 DEF Snapshot, At, TypeOK
<1>6. CASE Commit(o)
  <2>1. op[o].mine \in Backups /\ RecordedEpoch(o) \in Nat
    BY <1>6 DEF Commit, RecordedEpoch, At, TypeOK
  <2>2. [backup |-> op[o].mine, epoch |-> RecordedEpoch(o), available |-> TRUE]
          \in AuditRow
    BY <2>1 DEF AuditRow
  <2> QED
    BY <1>6, <2>1, <2>2 DEF Commit, TypeOK, disk
<1>7. CASE Finish(o)
  BY <1>7 DEF Finish, TypeOK
<1>8. CASE Compact(o)
  BY <1>8 DEF Compact, TypeOK, disk
<1>9. CASE ListOld(o)
  BY <1>9 DEF ListOld, TypeOK, disk
<1>10. CASE MarkRemoved(o)
  <2>1. \A r \in AuditRow, v \in BOOLEAN : [r EXCEPT !.available = v] \in AuditRow
    BY Zenon DEF AuditRow
  <2>2. \A r \in audit :
          r \in AuditRow /\ (r.available /\ r.backup # op[o].cur) \in BOOLEAN
    BY DEF TypeOK, AuditRow
  <2>3. {[r EXCEPT !.available = @ /\ r.backup # op[o].cur] : r \in audit}
          \subseteq AuditRow
    BY <2>1, <2>2
  <2> QED
    BY <1>10, <2>3 DEF MarkRemoved, TypeOK, disk
<1>11. CASE Done(o)
  BY <1>11, <1>end DEF Done, TypeOK, disk
<1>12. CASE Unlink(o)
  BY <1>12 DEF Unlink, TypeOK
<1>13. CASE SkipUnlink(o)
  BY <1>13, <1>end DEF SkipUnlink, TypeOK, disk
<1>14. CASE Unclaim(o)
  BY <1>14, <1>end DEF Unclaim, TypeOK
<1>15. CASE Fail(o)
  BY <1>15, <1>end DEF Fail, TypeOK, disk
<1>16. ASSUME NEW b \in Backups, ClearIntent(o, b)
       PROVE  Tables
  BY <1>16 DEF ClearIntent, TypeOK
<1>17. ASSUME NEW b \in Backups, RemoveUnfinished(o, b)
       PROVE  Tables
  BY <1>17 DEF RemoveUnfinished, TypeOK
<1>18. ASSUME NEW b \in Backups, RefuseIntent(o, b)
       PROVE  Tables
  BY <1>18, <1>end DEF RefuseIntent, TypeOK
<1>19. ASSUME NEW b \in Backups, Reserve(o, b)
       PROVE  Tables
  BY <1>19 DEF Reserve, TakeWriter, TypeOK
<1>20. ASSUME NEW b \in Backups, RemoveOld(o, b)
       PROVE  Tables
  BY <1>20 DEF RemoveOld, TypeOK
<1> QED
  BY <1>1, <1>2, <1>3, <1>4, <1>5, <1>6, <1>7, <1>8, <1>9, <1>10, <1>11,
     <1>12, <1>13, <1>14, <1>15, <1>16, <1>17, <1>18, <1>19, <1>20 DEF Maintain

(* The shapes after a step of o, if o is equipped for where it got. *)
LEMMA TypeStep ==
  ASSUME TypeOK, NEW o \in Operators, Maintain(o), Alone(o), Equipped(o)'
  PROVE  TypeOK'
<1>1. op' \in [Operators -> Operation]
  BY OpType DEF Next, TypeOK
<1>2. \A p \in Operators : Equipped(p)'
  BY DEF Alone, Equipped, TypeOK
<1> QED
  BY <1>1, <1>2, TableType DEF TypeOK, Equipped

-----------------------------------------------------------------------------
(* Steps that touch neither rows nor backups.                               *)

LEMMA QuietStep ==
  ASSUME BackupInv, Quiet, NEW o \in Operators, Alone(o),
         TypeOK', SlotHeld', OpInv(o)'
  PROVE  BackupInv'
<1>1. \A p \in Operators : OpInv(p)'
  BY DEF BackupInv, Quiet, Alone, OpInv, StepsFit, Builds, Reconciles, Cleans,
         Recorded, OwnRow, OldRow
<1>2. RowsInOrder' /\ NewestBackupStands' /\ GoneIsGone'
  BY DEF BackupInv, Quiet, RowsInOrder, NewestBackupStands, GoneIsGone
<1> QED
  BY <1>1, <1>2 DEF BackupInv

(* An operation that ends has nothing to keep. *)
LEMMA EndsStep ==
  ASSUME BackupInv, NEW o \in Operators, Ends(o)
  PROVE  /\ Alone(o) /\ Equipped(o)' /\ SlotHeld' /\ OpInv(o)'
         /\ op'[o].stage = "idle" /\ op'[o].step = "next"
<1>1. op'[o].stage = "idle" /\ op'[o].step = "next"
  BY DEF Ends, Idle, BackupInv, TypeOK
<1>2. Alone(o)
  BY DEF Ends, Alone, BackupInv, TypeOK
<1>3. SlotHeld'
  BY <1>1, <1>2 DEF Ends, Alone, SlotHeld, BackupInv
<1> QED
  BY <1>1, <1>2, <1>3 DEF Equipped, OpInv, StepsFit, Builds, Reconciles, Cleans

LEMMA Ending ==
  ASSUME BackupInv, NEW o \in Operators, Maintain(o), Ends(o), Quiet
  PROVE  BackupInv'
  BY EndsStep, TypeStep, QuietStep DEF BackupInv

LEMMA BeginStep ==
  ASSUME BackupInv, NEW o \in Operators, NEW kind \in {"prune", "vacuum"}, Begin(o, kind)
  PROVE  BackupInv'
<1>1. op'[o].stage = "reconcile" /\ op'[o].step = "next"
  BY DEF Begin, Idle, BackupInv, TypeOK
<1>2. Alone(o)
  BY DEF Begin, Alone, BackupInv, TypeOK
<1>3. SlotHeld'
  BY <1>1, <1>2, BackupAssumption DEF Begin, TakeWriter, Alone, SlotHeld, BackupInv
<1>4. Equipped(o)' /\ OpInv(o)'
  BY <1>1 DEF Equipped, OpInv, StepsFit, Builds, Reconciles, Cleans
<1> QED
  BY <1>2, <1>3, <1>4, TypeStep, QuietStep DEF Begin, Maintain, Quiet, disk, BackupInv

LEMMA ReconciledStep ==
  ASSUME BackupInv, NEW o \in Operators, Reconciled(o)
  PROVE  BackupInv'
<1>1. op'[o].stage = "ready" /\ op'[o].step = "next"
  BY DEF Reconciled, At, Operation, BackupInv, TypeOK
<1>2. Alone(o)
  BY DEF Reconciled, Alone, BackupInv, TypeOK
<1>3. SlotHeld'
  BY <1>1, <1>2 DEF Reconciled, At, Alone, SlotHeld, BackupInv
<1>4. Equipped(o)' /\ OpInv(o)'
  BY <1>1 DEF Equipped, OpInv, StepsFit, Builds, Reconciles, Cleans
<1> QED
  BY <1>2, <1>3, <1>4, TypeStep, QuietStep
     DEF Reconciled, Maintain, Quiet, disk, BackupInv

LEMMA ClearIntentStep ==
  ASSUME BackupInv, NEW o \in Operators, NEW b \in Backups, ClearIntent(o, b)
  PROVE  BackupInv'
<1>1. op'[o].stage = "reconcile" /\ op'[o].step = "next"
  BY DEF ClearIntent, At, Operation, BackupInv, TypeOK
<1>2. Alone(o)
  BY DEF ClearIntent, Alone, BackupInv, TypeOK
<1>3. SlotHeld'
  BY <1>1, <1>2 DEF ClearIntent, At, Alone, SlotHeld, BackupInv
<1>4. Equipped(o)' /\ OpInv(o)'
  BY <1>1 DEF Equipped, OpInv, StepsFit, Builds, Reconciles, Cleans
<1> QED
  BY <1>2, <1>3, <1>4, TypeStep, QuietStep DEF ClearIntent, Maintain, Quiet, BackupInv

LEMMA RemoveUnfinishedStep ==
  ASSUME BackupInv, NEW o \in Operators, NEW b \in Backups, RemoveUnfinished(o, b)
  PROVE  BackupInv'
<1>1. op'[o].stage = "reconcile" /\ op'[o].step = "unlink" /\ op'[o].cur = b
  BY DEF RemoveUnfinished, At, Operation, BackupInv, TypeOK
<1>2. Alone(o)
  BY DEF RemoveUnfinished, Alone, BackupInv, TypeOK
<1>3. SlotHeld'
  BY <1>1, <1>2 DEF RemoveUnfinished, At, Alone, SlotHeld, BackupInv
<1>4. Equipped(o)' /\ OpInv(o)'
  BY <1>1 DEF RemoveUnfinished, Keeps, Recorded, Equipped, OpInv, StepsFit,
              Builds, Reconciles, Cleans
<1> QED
  BY <1>2, <1>3, <1>4, TypeStep, QuietStep
     DEF RemoveUnfinished, Maintain, Quiet, BackupInv

LEMMA WriteIntentStep ==
  ASSUME BackupInv, NEW o \in Operators, WriteIntent(o)
  PROVE  BackupInv'
<1>1. /\ op'[o].stage = "build" /\ op'[o].mine = op[o].mine
      /\ \/ op'[o].step = "snapshot"
         \/ op'[o].step = "unlink" /\ op'[o].cur = op[o].mine
  BY DEF WriteIntent, At, Operation, BackupInv, TypeOK
<1>2. Alone(o)
  BY DEF WriteIntent, Alone, BackupInv, TypeOK
<1>3. SlotHeld'
  BY <1>1, <1>2 DEF WriteIntent, At, Alone, SlotHeld, BackupInv
<1>4. Equipped(o)' /\ OpInv(o)'
  BY <1>1 DEF WriteIntent, At, Recorded, Equipped, OpInv, StepsFit, Builds,
              Reconciles, Cleans, BackupInv, TypeOK
<1> QED
  BY <1>2, <1>3, <1>4, TypeStep, QuietStep DEF WriteIntent, Maintain, Quiet, BackupInv

LEMMA FinishStep ==
  ASSUME BackupInv, NEW o \in Operators, Finish(o)
  PROVE  BackupInv'
<1>1. /\ op'[o].mine = op[o].mine /\ op'[o].epoch = op[o].epoch
      /\ \/ op'[o].stage = "compact" /\ op'[o].step = "next"
         \/ op'[o].stage = "clean" /\ op'[o].step = "list"
  BY DEF Finish, At, Operation, BackupInv, TypeOK
<1>2. Alone(o)
  BY DEF Finish, Alone, BackupInv, TypeOK
<1>3. SlotHeld'
  BY <1>1, <1>2 DEF Finish, Alone, SlotHeld, BackupInv
<1>4. Equipped(o)' /\ OpInv(o)'
  BY <1>1 DEF Finish, At, Equipped, OpInv, StepsFit, Builds, Reconciles, Cleans,
              OwnRow, BackupInv, TypeOK
<1> QED
  BY <1>2, <1>3, <1>4, TypeStep, QuietStep DEF Finish, Maintain, Quiet, BackupInv

LEMMA CompactStep ==
  ASSUME BackupInv, NEW o \in Operators, Compact(o)
  PROVE  BackupInv'
<1>1. /\ op'[o].mine = op[o].mine /\ op'[o].epoch = op[o].epoch
      /\ op'[o].stage = "clean" /\ op'[o].step = "list"
  BY DEF Compact, At, Operation, BackupInv, TypeOK
<1>2. Alone(o)
  BY DEF Compact, Alone, BackupInv, TypeOK
<1>3. SlotHeld'
  BY <1>1, <1>2 DEF Compact, Alone, SlotHeld, BackupInv
<1>4. Equipped(o)' /\ OpInv(o)'
  BY <1>1 DEF Compact, At, Equipped, OpInv, StepsFit, Builds, Reconciles, Cleans,
              OwnRow, BackupInv, TypeOK
<1> QED
  BY <1>2, <1>3, <1>4, TypeStep, QuietStep DEF Compact, Maintain, Quiet, disk, BackupInv

LEMMA ListOldStep ==
  ASSUME BackupInv, NEW o \in Operators, ListOld(o)
  PROVE  BackupInv'
<1>1. /\ op'[o].mine = op[o].mine /\ op'[o].epoch = op[o].epoch
      /\ op'[o].stage = "clean" /\ op'[o].step = "next" /\ op'[o].todo = Old(o)
  BY DEF ListOld, At, Operation, BackupInv, TypeOK
<1>2. Alone(o)
  BY DEF ListOld, Alone, BackupInv, TypeOK
<1>3. SlotHeld'
  BY <1>1, <1>2 DEF ListOld, Alone, SlotHeld, BackupInv
<1>4. \A b \in Old(o) : OldRow(o, b)
  BY DEF Old, OldRow
<1>5. Equipped(o)' /\ OpInv(o)'
  BY <1>1, <1>4 DEF ListOld, At, Equipped, OpInv, StepsFit, Builds, Reconciles,
                    Cleans, OwnRow, OldRow, BackupInv, TypeOK
<1> QED
  BY <1>2, <1>3, <1>5, TypeStep, QuietStep DEF ListOld, Maintain, Quiet, disk, BackupInv

LEMMA SkipUnlinkStep ==
  ASSUME BackupInv, NEW o \in Operators, SkipUnlink(o)
  PROVE  BackupInv'
<1>1. CASE op[o].stage # "clean"
  BY <1>1, Ending DEF SkipUnlink, Maintain, Quiet, disk
<1>2. CASE op[o].stage = "clean"
  <2>1. /\ op'[o].mine = op[o].mine /\ op'[o].epoch = op[o].epoch
        /\ op'[o].stage = "clean" /\ op'[o].step = "next" /\ op'[o].todo = op[o].todo
    BY <1>2 DEF SkipUnlink, GoesOn, Operation, BackupInv, TypeOK
  <2>2. Alone(o)
    BY <1>2 DEF SkipUnlink, GoesOn, Alone, BackupInv, TypeOK
  <2>3. SlotHeld'
    BY <1>2, <2>1, <2>2 DEF SkipUnlink, Alone, SlotHeld, BackupInv
  <2>4. Equipped(o)' /\ OpInv(o)'
    BY <1>2, <2>1 DEF SkipUnlink, Equipped, OpInv, StepsFit, Builds, Reconciles,
                      Cleans, OwnRow, OldRow, BackupInv, TypeOK
  <2> QED
    BY <2>2, <2>3, <2>4, TypeStep, QuietStep
       DEF SkipUnlink, Maintain, Quiet, disk, BackupInv
<1> QED
  BY <1>1, <1>2

-----------------------------------------------------------------------------
(* Steps that make a backup.  Whoever makes one has the writer slot, so     *)
(* nobody else makes or reconciles one.                                     *)

LEMMA OthersBuildNothing ==
  ASSUME BackupInv, NEW o \in Operators,
         op[o].stage = "build" \/ writer = Nobody,
         NEW p \in Operators \ {o}
  PROVE  op[p].stage \notin {"reconcile", "build"}
  BY BackupAssumption DEF BackupInv, SlotHeld

LEMMA ReserveStep ==
  ASSUME BackupInv, NEW o \in Operators, NEW b \in Backups, Reserve(o, b)
  PROVE  BackupInv'
<1>1. op'[o].stage = "build" /\ op'[o].step = "claim" /\ op'[o].mine = b
  BY DEF Reserve, At, Operation, BackupInv, TypeOK
<1>2. Alone(o)
  BY DEF Reserve, Alone, BackupInv, TypeOK
<1>3. /\ \A p \in Operators \ {o} : op[p].stage \notin {"reconcile", "build"}
      /\ \A p \in Operators \ {o} : op[p].cur # b
      /\ ~Recorded(b) /\ ~Recorded(b)'
      /\ \A c \in Backups : c # b => file'[c] = file[c]
  BY OthersBuildNothing DEF Reserve, TakeWriter, Unused, Recorded, BackupInv, TypeOK
<1>4. SlotHeld'
  BY <1>1, <1>2, <1>3 DEF Reserve, TakeWriter, Alone, SlotHeld, BackupInv
<1>5. TypeOK'
  <2>1. Equipped(o)'
    BY <1>1 DEF Equipped
  <2> QED
    BY <1>2, <2>1, TypeStep DEF Maintain, BackupInv
<1>6. OpInv(o)'
  BY <1>1, <1>3 DEF OpInv, StepsFit, Builds, Reconciles, Cleans
<1>7. \A p \in Operators \ {o} : OpInv(p)'
  BY <1>2, <1>3 DEF Reserve, Alone, OpInv, StepsFit, Builds, Reconciles, Cleans,
                    OwnRow, OldRow, BackupInv, TypeOK
<1>8. RowsInOrder' /\ NewestBackupStands' /\ GoneIsGone'
  BY <1>3 DEF Reserve, RowsInOrder, NewestBackupStands, GoneIsGone, Recorded,
              BackupInv, TypeOK, AuditRow
<1> QED
  BY <1>4, <1>5, <1>6, <1>7, <1>8 DEF BackupInv

LEMMA LinkClaimStep ==
  ASSUME BackupInv, NEW o \in Operators, LinkClaim(o)
  PROVE  BackupInv'
<1>1. op'[o].stage = "build" /\ op'[o].step = "intend" /\ op'[o].mine = op[o].mine
  BY DEF LinkClaim, At, Operation, BackupInv, TypeOK
<1>2. Alone(o)
  BY DEF LinkClaim, Alone, BackupInv, TypeOK
<1>3. SlotHeld'
  BY <1>1, <1>2 DEF LinkClaim, At, Alone, SlotHeld, BackupInv
<1>4. TypeOK'
  <2>1. Equipped(o)'
    BY <1>1 DEF LinkClaim, At, Equipped, BackupInv, TypeOK
  <2> QED
    BY <1>2, <2>1, TypeStep DEF Maintain, BackupInv
<1>5. OpInv(o)'
  BY <1>1 DEF LinkClaim, At, Recorded, OpInv, StepsFit, Builds, Reconciles, Cleans,
              BackupInv
<1>6. \A p \in Operators \ {o} : OpInv(p)'
  BY <1>2 DEF LinkClaim, Alone, Recorded, OpInv, StepsFit, Builds, Reconciles,
              Cleans, OwnRow, OldRow, BackupInv
<1>7. RowsInOrder' /\ NewestBackupStands' /\ GoneIsGone'
  BY DEF LinkClaim, RowsInOrder, NewestBackupStands, GoneIsGone, BackupInv
<1> QED
  BY <1>3, <1>4, <1>5, <1>6, <1>7 DEF BackupInv

LEMMA SnapshotStep ==
  ASSUME BackupInv, NEW o \in Operators, Snapshot(o)
  PROVE  BackupInv'
<1>1. op'[o].stage = "build" /\ op'[o].step = "commit" /\ op'[o].mine = op[o].mine
  BY DEF Snapshot, At, Operation, BackupInv, TypeOK
<1>2. Alone(o)
  BY DEF Snapshot, Alone, BackupInv, TypeOK
<1>3. SlotHeld'
  BY <1>1, <1>2 DEF Snapshot, At, Alone, SlotHeld, BackupInv
<1>4. /\ op[o].mine \in Backups /\ ~Recorded(op[o].mine)
      /\ \A p \in Operators \ {o} : op[p].stage \notin {"reconcile", "build"}
      /\ file'[op[o].mine] = "full" /\ copy'[op[o].mine] = epoch
      /\ \A c \in Backups : c # op[o].mine => file'[c] = file[c]
  BY OthersBuildNothing DEF Snapshot, At, OpInv, Builds, BackupInv, TypeOK
<1>5. TypeOK'
  <2>1. Equipped(o)'
    BY <1>1, <1>4 DEF Equipped
  <2> QED
    BY <1>2, <2>1, TypeStep DEF Maintain, BackupInv
<1>6. OpInv(o)'
  BY <1>1, <1>4 DEF Snapshot, At, Recorded, OpInv, StepsFit, Builds, Reconciles,
                    Cleans, BackupInv
<1>7. \A p \in Operators \ {o} : OpInv(p)'
  <2> SUFFICES ASSUME NEW p \in Operators \ {o}
               PROVE  OpInv(p)'
    OBVIOUS
  <2>1. op[p].stage = "clean" /\ op[p].step \in {"unclaim", "mark"}
          => op[p].cur \in Backups /\ op[p].cur # op[o].mine
    BY <1>4 DEF OpInv, Cleans, OldRow, Recorded, BackupInv, TypeOK
  <2> QED
    BY <1>2, <1>4, <2>1 DEF Snapshot, Alone, OpInv, StepsFit, Builds, Reconciles,
                            Cleans, OwnRow, OldRow, BackupInv
<1>8. RowsInOrder' /\ NewestBackupStands' /\ GoneIsGone'
  BY <1>4 DEF Snapshot, RowsInOrder, NewestBackupStands, GoneIsGone, Recorded,
              BackupInv, TypeOK, AuditRow
<1> QED
  BY <1>3, <1>5, <1>6, <1>7, <1>8 DEF BackupInv

LEMMA CommitStep ==
  ASSUME BackupInv, NEW o \in Operators, Commit(o)
  PROVE  BackupInv'
<1> DEFINE row == [backup |-> op[o].mine, epoch |-> RecordedEpoch(o), available |-> TRUE]
<1>1. /\ op'[o].stage = "finish" /\ op'[o].step = "next"
      /\ op'[o].mine = op[o].mine /\ op'[o].epoch = RecordedEpoch(o)
  BY DEF Commit, At, Operation, BackupInv, TypeOK
<1>2. Alone(o)
  BY DEF Commit, Alone, BackupInv, TypeOK
<1>3. /\ op[o].mine \in Backups /\ ~Recorded(op[o].mine)
      /\ file[op[o].mine] = "full" /\ op[o].mine \in claim
      /\ \A p \in Operators \ {o} : op[p].stage \notin {"reconcile", "build"}
  BY OthersBuildNothing DEF Commit, At, OpInv, Builds, BackupInv, TypeOK
<1>4. /\ audit' = audit \cup {row} /\ epoch' = RecordedEpoch(o)
      /\ epoch \in Nat /\ epoch' \in Nat /\ epoch <= epoch'
      /\ \A r \in audit : r.epoch \in Nat /\ r.epoch <= epoch
  BY DEF Commit, RecordedEpoch, RowsInOrder, BackupInv, TypeOK, AuditRow
<1>5. SlotHeld'
  BY <1>1, <1>2, <1>3 DEF Alone, SlotHeld
<1>6. TypeOK'
  <2>1. Equipped(o)'
    BY <1>1, <1>3 DEF Equipped
  <2> QED
    BY <1>2, <2>1, TypeStep DEF Maintain, BackupInv
<1>7. OpInv(o)'
  <2>1. row \in audit' /\ row.backup = op'[o].mine /\ row.epoch = op'[o].epoch
    BY <1>1, <1>4
  <2>2. OwnRow(o)'
    BY <2>1 DEF OwnRow
  <2> QED
    BY <1>1, <2>2 DEF OpInv, StepsFit, Builds, Reconciles, Cleans
<1>8. \A p \in Operators \ {o} : OpInv(p)'
  <2> SUFFICES ASSUME NEW p \in Operators \ {o}
               PROVE  OpInv(p)'
    OBVIOUS
  <2>1. op'[p] = op[p] /\ op[p].stage \notin {"reconcile", "build"}
    BY <1>2, <1>3 DEF Alone
  <2>2. /\ OwnRow(p) => OwnRow(p)'
        /\ \A b : OldRow(p, b) => OldRow(p, b)'
    BY <1>4, <2>1 DEF OwnRow, OldRow
  <2>3. StepsFit(p)' /\ Builds(p)' /\ Reconciles(p)'
    BY <2>1 DEF OpInv, StepsFit, Builds, Reconciles, BackupInv
  <2>4. Cleans(p)'
    BY <2>1, <2>2 DEF Commit, disk, OpInv, Cleans, BackupInv
  <2> QED
    BY <2>3, <2>4 DEF OpInv
<1>9. RowsInOrder'
  <2>1. row.backup = op[o].mine /\ row.epoch = epoch'
    BY <1>4
  <2> HIDE DEF row
  <2>2. \A r \in audit : r.backup # row.backup
    BY <1>3, <2>1 DEF Recorded
  <2>3. \A r \in audit' : r.epoch <= epoch'
    BY <1>4, <2>1
  <2>4. \A r, q \in audit' : r.backup = q.backup => r = q
    BY <1>4, <2>2 DEF RowsInOrder, BackupInv
  <2> QED
    BY <2>3, <2>4 DEF RowsInOrder
<1>10. NewestBackupStands'
  BY <1>3, <1>4 DEF Commit, disk, NewestBackupStands, BackupInv
<1>11. GoneIsGone'
  BY <1>4 DEF Commit, disk, GoneIsGone, BackupInv
<1> QED
  BY <1>5, <1>6, <1>7, <1>8, <1>9, <1>10, <1>11 DEF BackupInv

-----------------------------------------------------------------------------
(* Steps that remove a backup.                                              *)

(* Is r the row a backup must be there for? *)
Newest(r) ==
  /\ r \in audit
  /\ r.epoch = epoch
  /\ \A q \in audit : q.epoch = epoch => q = r

(* Nothing that is removed, or next in line, belongs to the newest row. *)
LEMMA OldIsNotNewest ==
  ASSUME BackupInv, NEW o \in Operators, OwnRow(o), NEW b, OldRow(o, b),
         NEW r, Newest(r)
  PROVE  r.backup # b
<1> SUFFICES ASSUME r.backup = b
             PROVE  FALSE
  OBVIOUS
<1>1. PICK q1 \in audit : q1.backup = b /\ q1.epoch <= op[o].epoch
  BY DEF OldRow
<1>2. PICK q2 \in audit : q2.backup = op[o].mine /\ q2.epoch = op[o].epoch
  BY DEF OwnRow
<1>3. q1 = r
  BY <1>1 DEF Newest, RowsInOrder, BackupInv
<1>4. q2.epoch <= epoch /\ q2.epoch \in Nat /\ epoch \in Nat
  BY DEF RowsInOrder, BackupInv, TypeOK, AuditRow
<1>5. q2 = r
  BY <1>1, <1>2, <1>3, <1>4 DEF Newest
<1> QED
  BY <1>2, <1>5 DEF OldRow

LEMMA RemovedIsNotNewest ==
  ASSUME BackupInv, NEW o \in Operators, op[o].step \in {"unlink", "unclaim"},
         NEW r, Newest(r)
  PROVE  r.backup # op[o].cur
<1>1. op[o].stage \in {"reconcile", "build", "clean"}
  BY DEF BackupInv, OpInv, StepsFit, TypeOK, Operation, Stages
<1>2. CASE op[o].stage \in {"reconcile", "build"}
  BY <1>2 DEF BackupInv, OpInv, Builds, Reconciles, Recorded, Newest
<1>3. CASE op[o].stage = "clean"
  BY <1>3, OldIsNotNewest DEF BackupInv, OpInv, Cleans
<1> QED
  BY <1>1, <1>2, <1>3

(* Nor is it the backup another process is making. *)
LEMMA RemovedIsNotBuilt ==
  ASSUME BackupInv, NEW o \in Operators, op[o].step \in {"unlink", "unclaim"},
         NEW p \in Operators \ {o}, op[p].stage = "build"
  PROVE  op[p].mine # op[o].cur
<1>1. op[o].stage \in {"reconcile", "build", "clean"}
  BY DEF BackupInv, OpInv, StepsFit, TypeOK, Operation, Stages
<1>2. op[o].stage = "clean"
  BY <1>1, OthersBuildNothing
<1> QED
  BY <1>2 DEF BackupInv, OpInv, Builds, Cleans, OldRow, Recorded

LEMMA UnlinkStep ==
  ASSUME BackupInv, NEW o \in Operators, Unlink(o)
  PROVE  BackupInv'
<1>1. /\ op'[o].stage = op[o].stage /\ op'[o].step = "unclaim"
      /\ op'[o].mine = op[o].mine /\ op'[o].cur = op[o].cur
      /\ op'[o].todo = op[o].todo /\ op'[o].epoch = op[o].epoch
  BY DEF Unlink, Operation, BackupInv, TypeOK
<1>2. Alone(o)
  BY DEF Unlink, Alone, BackupInv, TypeOK
<1>3. /\ op[o].step = "unlink" /\ op[o].cur \in Backups
      /\ file' = [file EXCEPT ![op[o].cur] = "none"]
      /\ file'[op[o].cur] = "none"
      /\ \A c : c # op[o].cur => file'[c] = file[c]
  BY DEF Unlink, BackupInv, TypeOK
<1>4. SlotHeld'
  BY <1>1, <1>2 DEF Unlink, Alone, SlotHeld, BackupInv
<1>5. TypeOK'
  <2>1. Equipped(o)'
    BY <1>1, <1>3 DEF Equipped, BackupInv, TypeOK
  <2> QED
    BY <1>2, <2>1, TypeStep DEF Maintain, BackupInv
<1>6. OpInv(o)'
  <2>1. StepsFit(o)' /\ Builds(o)' /\ Reconciles(o)'
    BY <1>1, <1>3 DEF Unlink, Recorded, OpInv, StepsFit, Builds, Reconciles, BackupInv
  <2>2. Cleans(o)'
    BY <1>1, <1>3 DEF Unlink, OpInv, Cleans, OwnRow, OldRow, BackupInv
  <2> QED
    BY <2>1, <2>2 DEF OpInv
<1>7. ASSUME NEW p \in Operators \ {o}
      PROVE  OpInv(p)'
  <2>1. op'[p] = op[p]
    BY <1>2 DEF Alone
  <2>2. op[p].stage = "build" => op[p].mine # op[o].cur
    BY <1>3, RemovedIsNotBuilt
  <2>3. StepsFit(p)' /\ Builds(p)' /\ Reconciles(p)'
    BY <1>3, <2>1, <2>2 DEF Unlink, Recorded, OpInv, StepsFit, Builds, Reconciles,
                            BackupInv
  <2>4. Cleans(p)'
    BY <1>3, <2>1 DEF Unlink, OpInv, Cleans, OwnRow, OldRow, BackupInv
  <2> QED
    BY <2>3, <2>4 DEF OpInv
<1>8. RowsInOrder'
  BY DEF Unlink, RowsInOrder, BackupInv
<1>9. NewestBackupStands'
  <2>1. \A r : Newest(r) => r.backup # op[o].cur
    BY <1>3, RemovedIsNotNewest
  <2> QED
    BY <1>3, <2>1 DEF Unlink, NewestBackupStands, Newest, BackupInv
<1>10. GoneIsGone'
  BY <1>3 DEF Unlink, GoneIsGone, BackupInv
<1> QED
  BY <1>4, <1>5, <1>6, <1>7, <1>8, <1>9, <1>10 DEF BackupInv

LEMMA UnclaimStep ==
  ASSUME BackupInv, NEW o \in Operators, Unclaim(o)
  PROVE  BackupInv'
<1>1. /\ Alone(o) /\ SlotHeld' /\ Equipped(o)' /\ StepsFit(o)'
      /\ op'[o].stage = "clean" => /\ op[o].stage = "clean" /\ op'[o].step = "mark"
                                   /\ op'[o].mine = op[o].mine /\ op'[o].cur = op[o].cur
                                   /\ op'[o].todo = op[o].todo
                                   /\ op'[o].epoch = op[o].epoch
      /\ \/ op'[o].stage = "clean"
         \/ op'[o].stage \in {"idle", "reconcile"} /\ op'[o].step = "next"
  <2>1. CASE op[o].stage = "clean"
    <3>1. /\ op'[o].stage = "clean" /\ op'[o].step = "mark"
          /\ op'[o].mine = op[o].mine /\ op'[o].cur = op[o].cur
          /\ op'[o].todo = op[o].todo /\ op'[o].epoch = op[o].epoch
      BY <2>1 DEF Unclaim, Operation, BackupInv, TypeOK
    <3>2. Alone(o)
      BY <2>1 DEF Unclaim, Alone, BackupInv, TypeOK
    <3>3. SlotHeld'
      BY <2>1, <3>1, <3>2 DEF Unclaim, Alone, SlotHeld, BackupInv
    <3> QED
      BY <2>1, <3>1, <3>2, <3>3 DEF Unclaim, Equipped, StepsFit, BackupInv, TypeOK
  <2>2. CASE op[o].stage = "reconcile" /\ op[o].cur \in claim
    <3>1. op'[o].stage = "reconcile" /\ op'[o].step = "next"
      BY <2>2 DEF Unclaim, GoesOn, Operation, BackupInv, TypeOK
    <3>2. Alone(o)
      BY <2>2 DEF Unclaim, GoesOn, Alone, BackupInv, TypeOK
    <3>3. SlotHeld'
      BY <2>2, <3>1, <3>2 DEF Unclaim, Alone, SlotHeld, BackupInv
    <3> QED
      BY <3>1, <3>2, <3>3 DEF Equipped, StepsFit
  <2>3. CASE op[o].stage # "clean" /\ ~(op[o].stage = "reconcile" /\ op[o].cur \in claim)
    <3>1. Ends(o)
      BY <2>3 DEF Unclaim
    <3> QED
      BY <3>1, EndsStep DEF OpInv
  <2> QED
    BY <2>1, <2>2, <2>3
<1>2. /\ op[o].step = "unclaim" /\ claim' = claim \ {op[o].cur}
      /\ UNCHANGED <<epoch, audit, file, copy, pending, touched>>
  BY DEF Unclaim
<1>3. TypeOK'
  BY <1>1, TypeStep DEF Maintain, BackupInv
<1>4. OpInv(o)'
  <2>1. Builds(o)' /\ Reconciles(o)'
    BY <1>1 DEF Builds, Reconciles, StepsFit
  <2>2. Cleans(o)'
    BY <1>1, <1>2 DEF OpInv, Cleans, OwnRow, OldRow, StepsFit, BackupInv
  <2> QED
    BY <1>1, <2>1, <2>2 DEF OpInv
<1>5. ASSUME NEW p \in Operators \ {o}
      PROVE  OpInv(p)'
  <2>1. op'[p] = op[p]
    BY <1>1 DEF Alone
  <2>2. op[p].stage = "build" => op[p].mine # op[o].cur
    BY <1>2, RemovedIsNotBuilt
  <2>3. StepsFit(p)' /\ Builds(p)' /\ Reconciles(p)'
    BY <1>2, <2>1, <2>2 DEF Recorded, OpInv, StepsFit, Builds, Reconciles, BackupInv
  <2>4. Cleans(p)'
    BY <1>2, <2>1 DEF OpInv, Cleans, OwnRow, OldRow, BackupInv
  <2> QED
    BY <2>3, <2>4 DEF OpInv
<1>6. RowsInOrder' /\ GoneIsGone'
  BY <1>2 DEF RowsInOrder, GoneIsGone, BackupInv
<1>7. NewestBackupStands'
  <2>1. \A r : Newest(r) => r.backup # op[o].cur
    BY <1>2, RemovedIsNotNewest
  <2> QED
    BY <1>2, <2>1 DEF NewestBackupStands, Newest, BackupInv
<1> QED
  BY <1>1, <1>3, <1>4, <1>5, <1>6, <1>7 DEF BackupInv

LEMMA RemoveOldStep ==
  ASSUME BackupInv, NEW o \in Operators, NEW b \in Backups, RemoveOld(o, b)
  PROVE  BackupInv'
<1>1. /\ op[o].stage = "clean" /\ op[o].step = "next"
      /\ OwnRow(o) /\ OldRow(o, b) /\ \A c \in op[o].todo : OldRow(o, c)
  BY DEF RemoveOld, At, OpInv, Cleans, BackupInv
<1>2. /\ op'[o].stage = "clean" /\ op'[o].cur = b
      /\ op'[o].step = IF b \in claim THEN "unlink" ELSE "mark"
      /\ op'[o].mine = op[o].mine /\ op'[o].epoch = op[o].epoch
      /\ op'[o].todo = op[o].todo \ {b}
  BY <1>1 DEF RemoveOld, Operation, BackupInv, TypeOK
<1>3. Alone(o)
  BY DEF RemoveOld, Alone, BackupInv, TypeOK
<1>4. SlotHeld'
  BY <1>2, <1>3 DEF RemoveOld, Alone, SlotHeld, BackupInv
<1>5. TypeOK'
  <2>1. Equipped(o)'
    BY <1>1, <1>2 DEF Equipped, BackupInv, TypeOK
  <2> QED
    BY <1>3, <2>1, TypeStep DEF Maintain, BackupInv
<1>6. /\ b \notin claim => file'[b] = "none"
      /\ \A c : c # b \/ b \in claim => file'[c] = file[c]
      /\ UNCHANGED <<epoch, audit, copy, claim, touched>>
  BY DEF RemoveOld, BackupInv, TypeOK
<1>7. OpInv(o)'
  <2>1. StepsFit(o)' /\ Builds(o)' /\ Reconciles(o)'
    BY <1>2 DEF StepsFit, Builds, Reconciles
  <2>2. OwnRow(o)' /\ OldRow(o, b)' /\ \A c \in op[o].todo : OldRow(o, c)'
    BY <1>1, <1>2, <1>6 DEF OwnRow, OldRow
  <2>3. Cleans(o)'
    BY <1>2, <1>6, <2>2 DEF Cleans, OldRow
  <2> QED
    BY <2>1, <2>3 DEF OpInv
<1>8. ASSUME NEW p \in Operators \ {o}
      PROVE  OpInv(p)'
  <2>1. op'[p] = op[p]
    BY <1>3 DEF Alone
  <2>2. StepsFit(p)' /\ Builds(p)' /\ Reconciles(p)'
    BY <1>6, <2>1 DEF Recorded, OpInv, StepsFit, Builds, Reconciles, BackupInv
  <2>3. Cleans(p)'
    BY <1>6, <2>1 DEF OpInv, Cleans, OwnRow, OldRow, BackupInv
  <2> QED
    BY <2>2, <2>3 DEF OpInv
<1>9. RowsInOrder' /\ NewestBackupStands' /\ GoneIsGone'
  BY <1>6 DEF RowsInOrder, NewestBackupStands, GoneIsGone, BackupInv
<1> QED
  BY <1>4, <1>5, <1>7, <1>8, <1>9 DEF BackupInv

(* A row that is marked keeps its backup and its epoch. *)
LEMMA MarkRemovedStep ==
  ASSUME BackupInv, NEW o \in Operators, MarkRemoved(o)
  PROVE  BackupInv'
<1>1. /\ op[o].stage = "clean" /\ op[o].step = "mark"
      /\ op[o].cur \notin touched => file[op[o].cur] = "none"
  BY DEF MarkRemoved, At, OpInv, Cleans, BackupInv
<1>2. /\ op'[o].mine = op[o].mine /\ op'[o].epoch = op[o].epoch
      /\ op'[o].stage = "clean" /\ op'[o].step = "next" /\ op'[o].todo = op[o].todo
  BY <1>1 DEF MarkRemoved, GoesOn, Operation, BackupInv, TypeOK
<1>3. Alone(o) /\ UNCHANGED <<epoch, file, copy, claim, touched, writer>>
  BY DEF MarkRemoved, GoesOn, Alone, disk, BackupInv, TypeOK
<1>4. SlotHeld'
  BY <1>2, <1>3 DEF Alone, SlotHeld, BackupInv
<1>5. TypeOK'
  <2>1. Equipped(o)'
    BY <1>1, <1>2 DEF Equipped, BackupInv, TypeOK
  <2> QED
    BY <1>3, <2>1, TypeStep DEF Maintain, BackupInv
<1> DEFINE marked(r) == [r EXCEPT !.available = @ /\ r.backup # op[o].cur]
<1>6. CASE audit' = audit
  <2>1. \A p \in Operators \ {o} : OpInv(p)'
    BY <1>3, <1>6 DEF Alone, Recorded, OpInv, StepsFit, Builds, Reconciles, Cleans,
                      OwnRow, OldRow, BackupInv
  <2>2. OpInv(o)'
    BY <1>1, <1>2, <1>6 DEF OpInv, StepsFit, Builds, Reconciles, Cleans, OwnRow,
                            OldRow, BackupInv
  <2>3. RowsInOrder' /\ NewestBackupStands' /\ GoneIsGone'
    BY <1>3, <1>6 DEF RowsInOrder, NewestBackupStands, GoneIsGone, BackupInv
  <2> QED
    BY <1>4, <1>5, <2>1, <2>2, <2>3 DEF BackupInv
<1>7. CASE audit' = {marked(r) : r \in audit}
  <2>1. \A r \in audit : /\ marked(r) \in audit'
                         /\ marked(r).backup = r.backup /\ marked(r).epoch = r.epoch
                         /\ ~marked(r).available => ~r.available \/ r.backup = op[o].cur
    BY <1>7 DEF BackupInv, TypeOK, AuditRow
  <2>2. \A x \in audit' : \E r \in audit : x = marked(r)
    BY <1>7
  <2> HIDE DEF marked
  <2>3. \A c : Recorded(c)' <=> Recorded(c)
    BY <2>1, <2>2 DEF Recorded
  <2>4. ASSUME NEW p \in Operators, op'[p].mine = op[p].mine, op'[p].epoch = op[p].epoch
        PROVE  /\ OwnRow(p) => OwnRow(p)'
               /\ \A c : OldRow(p, c) => OldRow(p, c)'
    BY <2>1, <2>4 DEF OwnRow, OldRow
  <2>5. ASSUME NEW p \in Operators \ {o}
        PROVE  OpInv(p)'
    <3>1. op'[p] = op[p]
      BY <1>3 DEF Alone
    <3>2. StepsFit(p)' /\ Builds(p)' /\ Reconciles(p)'
      BY <1>3, <2>3, <3>1 DEF OpInv, StepsFit, Builds, Reconciles, BackupInv
    <3>3. Cleans(p)'
      BY <1>3, <2>4, <3>1 DEF OpInv, Cleans, BackupInv
    <3> QED
      BY <3>2, <3>3 DEF OpInv
  <2>6. OpInv(o)'
    <3>1. StepsFit(o)' /\ Builds(o)' /\ Reconciles(o)'
      BY <1>2 DEF StepsFit, Builds, Reconciles
    <3>2. Cleans(o)'
      BY <1>1, <1>2, <2>4 DEF OpInv, Cleans, BackupInv
    <3> QED
      BY <3>1, <3>2 DEF OpInv
  <2>7. RowsInOrder'
    BY <1>3, <2>1, <2>2 DEF RowsInOrder, BackupInv
  <2>8. NewestBackupStands'
    <3> SUFFICES ASSUME NEW r \in audit, marked(r).epoch = epoch,
                        \A q \in audit : marked(q).epoch = epoch => marked(q) = marked(r),
                        r.backup \notin touched
                 PROVE  file[r.backup] = "full" /\ r.backup \in claim
      BY <1>3, <2>1, <2>2 DEF NewestBackupStands
    <3>1. \A q \in audit : q.epoch = epoch => q.backup = r.backup
      BY <2>1
    <3>2. \A q \in audit : q.epoch = epoch => q = r
      BY <3>1 DEF RowsInOrder, BackupInv
    <3> QED
      BY <2>1, <3>2 DEF NewestBackupStands, BackupInv
  <2>9. GoneIsGone'
    <3> SUFFICES ASSUME NEW r \in audit, ~marked(r).available, r.backup \notin touched
                 PROVE  file[r.backup] = "none"
      BY <1>3, <2>1, <2>2 DEF GoneIsGone
    <3> QED
      BY <1>1, <2>1 DEF GoneIsGone, BackupInv
  <2> QED
    BY <1>4, <1>5, <2>5, <2>6, <2>7, <2>8, <2>9 DEF BackupInv
<1> QED
  BY <1>6, <1>7 DEF MarkRemoved

-----------------------------------------------------------------------------
(* A user changes what no operation is making, and is noted.                *)

LEMMA TamperStep ==
  ASSUME BackupInv, NEW b \in Backups, Tamper(b)
  PROVE  BackupInv'
<1>1. /\ touched' = touched \cup {b}
      /\ \A c \in Backups : c # b => file'[c] = file[c] /\ (c \in claim' <=> c \in claim)
      /\ UNCHANGED <<epoch, audit, copy, pending, writer, op, dropped>>
      /\ \A p \in Operators : op[p].stage = "build" => op[p].mine # b
  <2>1. \A c : c # b => (c \in claim' <=> c \in claim)
    BY DEF Tamper
  <2>2. file' = file \/ \E v : file' = [file EXCEPT ![b] = v]
    BY Zenon DEF Tamper
  <2>3. \A c \in Backups : c # b => file'[c] = file[c]
    BY <2>2 DEF BackupInv, TypeOK
  <2> QED
    BY <2>1, <2>3 DEF Tamper
<1>2. TypeOK'
  BY DEF Tamper, BackupInv, TypeOK
<1>3. ASSUME NEW p \in Operators
      PROVE  OpInv(p)'
  <2>1. StepsFit(p)' /\ Builds(p)' /\ Reconciles(p)'
    BY <1>1 DEF Recorded, OpInv, StepsFit, Builds, Reconciles, BackupInv, TypeOK
  <2>2. Cleans(p)'
    BY <1>1 DEF OpInv, Cleans, OwnRow, OldRow, BackupInv, TypeOK
  <2> QED
    BY <2>1, <2>2 DEF OpInv
<1>4. SlotHeld' /\ RowsInOrder' /\ NewestBackupStands' /\ GoneIsGone'
  BY <1>1 DEF SlotHeld, RowsInOrder, NewestBackupStands, GoneIsGone, BackupInv,
              TypeOK, AuditRow
<1> QED
  BY <1>2, <1>3, <1>4 DEF BackupInv

-----------------------------------------------------------------------------
(* Theorems.                                                                *)

LEMMA BackupInvInit == Init => BackupInv
<1> SUFFICES ASSUME Init
             PROVE  BackupInv
  OBVIOUS
<1>1. \A o \in Operators : op[o] = Idle
  BY DEF Init
<1>2. Idle \in Operation /\ Idle.stage = "idle" /\ Idle.step = "next"
  BY DEF Idle, Operation, Stages, Steps
<1>3. TypeOK
  BY <1>1, <1>2 DEF Init, TypeOK
<1>4. \A o \in Operators : OpInv(o)
  BY <1>1, <1>2 DEF OpInv, StepsFit, Builds, Reconciles, Cleans
<1> QED
  BY <1>1, <1>2, <1>3, <1>4 DEF Init, BackupInv, SlotHeld, RowsInOrder,
     NewestBackupStands, GoneIsGone

LEMMA BackupInvStep == BackupInv /\ [Next]_vars => BackupInv'
<1> SUFFICES ASSUME BackupInv, [Next]_vars
             PROVE  BackupInv'
  OBVIOUS
<1>1. ASSUME NEW o \in Operators, Maintain(o)
      PROVE  BackupInv'
  <2>1. ASSUME Done(o) \/ Fail(o) \/ \E b \in Backups : RefuseIntent(o, b)
        PROVE  BackupInv'
    <3>1. Ends(o) /\ Quiet
      BY <2>1 DEF Done, Fail, RefuseIntent, Quiet, disk
    <3> QED
      BY <1>1, <3>1, Ending
  <2> QED
    BY <1>1, <2>1, BeginStep, ReconciledStep, ClearIntentStep, RemoveUnfinishedStep,
       ReserveStep, LinkClaimStep, WriteIntentStep, SnapshotStep, CommitStep,
       FinishStep, CompactStep, ListOldStep, RemoveOldStep, MarkRemovedStep,
       UnlinkStep, SkipUnlinkStep, UnclaimStep DEF Maintain
<1>2. CASE UNCHANGED vars
  BY <1>2 DEF vars, disk, BackupInv, TypeOK, SlotHeld, RowsInOrder, OpInv, StepsFit,
     Builds, Reconciles, Cleans, OwnRow, OldRow, Recorded, NewestBackupStands, GoneIsGone
<1> QED
  BY <1>1, <1>2, TamperStep DEF Next

LEMMA BackupInvHolds == Spec => []BackupInv
  BY BackupInvInit, BackupInvStep, PTL DEF Spec

(* Every table, file and process has a value of its shape, for any number   *)
(* of processes and backups (retention.go, prune_audit).                    *)
THEOREM TypeCorrect == Spec => []TypeOK
<1>1. BackupInv => TypeOK
  BY DEF BackupInv
<1> QED
  BY <1>1, BackupInvHolds, PTL

(* The backup of the last prune is there, whatever is interrupted,          *)
(* reconciled or cleaned up after (cleanupPruneBackups,                     *)
(* reconcilePendingPruneBackups).                                           *)
THEOREM NewestBackupsStand == Spec => []NewestBackupStands
<1>1. BackupInv => NewestBackupStands
  BY DEF BackupInv
<1> QED
  BY <1>1, BackupInvHolds, PTL

(* No row says of a backup that is there that it is gone                    *)
(* (cleanupPruneBackups marks what it has removed).                         *)
THEOREM GoneBackupsAreGone == Spec => []GoneIsGone
<1>1. BackupInv => GoneIsGone
  BY DEF BackupInv
<1> QED
  BY <1>1, BackupInvHolds, PTL

(* A prune deletes only with a complete backup of the state it deletes from *)
(* (PruneHub, backupForPrune).                                              *)
THEOREM DeletionsAreBackedUp == Spec => DeletionIsBackedUp
<1> DEFINE backed == epoch' # epoch =>
                       \E r \in audit' \ audit :
                          /\ r.epoch = epoch'
                          /\ file'[r.backup] = "full" /\ r.backup \in claim'
                          /\ copy'[r.backup] = epoch
<1>1. ASSUME BackupInv, NEW o \in Operators, Commit(o)
      PROVE  backed
  <2> DEFINE row == [backup |-> op[o].mine, epoch |-> RecordedEpoch(o),
                     available |-> TRUE]
  <2>1. row \in audit' /\ row.epoch = epoch' /\ row.backup = op[o].mine
    BY <1>1 DEF Commit
  <2>2. /\ ~Recorded(op[o].mine)
        /\ file'[op[o].mine] = "full" /\ op[o].mine \in claim'
        /\ copy'[op[o].mine] = epoch
    BY <1>1 DEF Commit, At, disk, OpInv, Builds, BackupInv
  <2>3. row \notin audit
    BY <2>1, <2>2 DEF Recorded
  <2> QED
    BY <2>1, <2>2, <2>3
<1>2. ASSUME BackupInv, [Next]_vars
      PROVE  [backed]_vars
  <2>1. ASSUME epoch' # epoch
        PROVE  \E o \in Operators : Commit(o)
    BY <1>2, <2>1 DEF Next, Maintain, Begin, Reconciled, ClearIntent, RemoveUnfinished,
       RefuseIntent, Reserve, LinkClaim, WriteIntent, Snapshot, Finish, Compact, ListOld,
       RemoveOld, MarkRemoved, Done, Unlink, SkipUnlink, Unclaim, Fail, Tamper, vars
  <2> QED
    BY <1>1, <1>2, <2>1
<1> QED
  BY <1>2, BackupInvHolds, PTL DEF Spec, DeletionIsBackedUp

-----------------------------------------------------------------------------
(* No snapshot is lost track of.                                            *)

(* A complete backup that no row names. *)
Unrecorded(b) == file[b] = "full" /\ ~Recorded(b) /\ b \notin touched

UnrecordedAreClaimed == \A b \in Backups : Unrecorded(b) => b \in claim

TrackOp(o) ==
  /\ op[o].step \notin {"unlink", "unclaim", "mark"} => op[o].cur = NoBackup
  /\ op[o].stage = "build" =>
       /\ file[op[o].mine] # "foreign"
       /\ op[o].step \in {"snapshot", "commit"} => op[o].mine \in pending
       /\ op[o].step # "commit" => file[op[o].mine] # "full"
  /\ op[o].step = "unclaim" /\ op[o].cur \notin touched
       => file[op[o].cur] = "none"

TrackInv ==
  /\ BackupInv
  /\ SnapshotsAreTracked
  /\ UnrecordedAreClaimed
  /\ \A o \in Operators : TrackOp(o)

(* What a step of o may do to files, rows and claims. *)
LEMMA FilesStep ==
  ASSUME TypeOK, NEW o \in Operators, Maintain(o)
  PROVE  /\ touched' = touched
         /\ \A c \in Backups : Recorded(c) => Recorded(c)'
         /\ \A c \in Backups :
              \/ file'[c] \in {file[c], "none"}
              \/ file'[c] = "partial" /\ Reserve(o, c)
              \/ Snapshot(o) /\ c = op[o].mine
         /\ \A c \in claim :
              c \in claim' \/ (op[o].step = "unclaim" /\ c = op[o].cur)
<1> DEFINE Kept == /\ touched' = touched
                   /\ \A c \in Backups : Recorded(c) => Recorded(c)'
                   /\ \A c \in Backups :
                        \/ file'[c] \in {file[c], "none"}
                        \/ file'[c] = "partial" /\ Reserve(o, c)
                        \/ Snapshot(o) /\ c = op[o].mine
                   /\ \A c \in claim :
                        c \in claim' \/ (op[o].step = "unclaim" /\ c = op[o].cur)
<1>1. ASSUME NEW kind \in {"prune", "vacuum"}, Begin(o, kind)
      PROVE  Kept
  BY <1>1 DEF Begin, TakeWriter, Recorded, TypeOK, disk
<1>2. CASE Reconciled(o)
  BY <1>2 DEF Reconciled, Recorded, TypeOK, disk
<1>3. CASE LinkClaim(o)
  BY <1>3 DEF LinkClaim, Recorded, TypeOK, disk
<1>4. CASE WriteIntent(o)
  BY <1>4 DEF WriteIntent, Recorded, TypeOK, disk
<1>5. CASE Snapshot(o)
  BY <1>5 DEF Snapshot, Recorded, TypeOK, disk
<1>6. CASE Commit(o)
  BY <1>6 DEF Commit, Recorded, TypeOK, disk
<1>7. CASE Finish(o)
  BY <1>7 DEF Finish, Recorded, TypeOK, disk
<1>8. CASE Compact(o)
  BY <1>8 DEF Compact, Recorded, TypeOK, disk
<1>9. CASE ListOld(o)
  BY <1>9 DEF ListOld, Recorded, TypeOK, disk
<1>10. CASE MarkRemoved(o)
  <2> DEFINE marked(r) == [r EXCEPT !.available = @ /\ r.backup # op[o].cur]
  <2>1. CASE audit' = audit
    BY <1>10, <2>1 DEF MarkRemoved, Recorded, disk
  <2>2. CASE audit' = {marked(r) : r \in audit}
    <3>1. \A r \in audit : marked(r) \in audit' /\ marked(r).backup = r.backup
      BY <2>2 DEF TypeOK, AuditRow
    <3>2. \A c : Recorded(c) => Recorded(c)'
      BY <3>1 DEF Recorded
    <3> QED
      BY <1>10, <3>2 DEF MarkRemoved, disk
  <2> QED
    BY <1>10, <2>1, <2>2 DEF MarkRemoved
<1>11. CASE Done(o)
  BY <1>11 DEF Done, Ends, Recorded, TypeOK, disk
<1>12. CASE Unlink(o)
  BY <1>12 DEF Unlink, Recorded, TypeOK, disk
<1>13. CASE SkipUnlink(o)
  BY <1>13 DEF SkipUnlink, GoesOn, Ends, Recorded, TypeOK, disk
<1>14. CASE Unclaim(o)
  BY <1>14 DEF Unclaim, GoesOn, Ends, Recorded, TypeOK, disk
<1>15. CASE Fail(o)
  BY <1>15 DEF Fail, Ends, Recorded, TypeOK, disk
<1>16. ASSUME NEW b \in Backups, ClearIntent(o, b)
      PROVE  Kept
  BY <1>16 DEF ClearIntent, Recorded, TypeOK, disk
<1>17. ASSUME NEW b \in Backups, RemoveUnfinished(o, b)
      PROVE  Kept
  BY <1>17 DEF RemoveUnfinished, Recorded, TypeOK, disk
<1>18. ASSUME NEW b \in Backups, RefuseIntent(o, b)
      PROVE  Kept
  BY <1>18 DEF RefuseIntent, Ends, Recorded, TypeOK, disk
<1>19. ASSUME NEW b \in Backups, Reserve(o, b)
      PROVE  Kept
  BY <1>19 DEF Reserve, TakeWriter, Recorded, TypeOK, disk
<1>20. ASSUME NEW b \in Backups, RemoveOld(o, b)
      PROVE  Kept
  BY <1>20 DEF RemoveOld, Recorded, TypeOK, disk
<1> QED
  BY <1>1, <1>2, <1>3, <1>4, <1>5, <1>6, <1>7, <1>8, <1>9, <1>10, <1>11, <1>12, <1>13,
     <1>14, <1>15, <1>16, <1>17, <1>18, <1>19, <1>20 DEF Maintain

(* What it may do to intents. *)
LEMMA IntentsStep ==
  ASSUME TypeOK, NEW o \in Operators, Maintain(o)
  PROVE  /\ dropped \subseteq dropped'
         /\ \A c \in pending :
              \/ c \in pending'
              \/ ClearIntent(o, c) \/ RemoveUnfinished(o, c) \/ RefuseIntent(o, c)
              \/ Finish(o) /\ c = op[o].mine
<1> DEFINE Kept == /\ dropped \subseteq dropped'
                   /\ \A c \in pending :
                        \/ c \in pending'
                        \/ ClearIntent(o, c) \/ RemoveUnfinished(o, c)
                        \/ RefuseIntent(o, c)
                        \/ Finish(o) /\ c = op[o].mine
<1>1. ASSUME NEW kind \in {"prune", "vacuum"}, Begin(o, kind)
      PROVE  Kept
  BY <1>1 DEF Begin, TakeWriter, disk
<1>2. CASE Reconciled(o)
  BY <1>2 DEF Reconciled, disk
<1>3. CASE LinkClaim(o)
  BY <1>3 DEF LinkClaim, disk
<1>4. CASE WriteIntent(o)
  BY <1>4 DEF WriteIntent, disk
<1>5. CASE Snapshot(o)
  BY <1>5 DEF Snapshot, disk
<1>6. CASE Commit(o)
  BY <1>6 DEF Commit, disk
<1>7. CASE Finish(o)
  BY <1>7 DEF Finish, disk
<1>8. CASE Compact(o)
  BY <1>8 DEF Compact, disk
<1>9. CASE ListOld(o)
  BY <1>9 DEF ListOld, disk
<1>10. CASE MarkRemoved(o)
  BY <1>10 DEF MarkRemoved, GoesOn, disk
<1>11. CASE Done(o)
  BY <1>11 DEF Done, Ends, disk
<1>12. CASE Unlink(o)
  BY <1>12 DEF Unlink, disk
<1>13. CASE SkipUnlink(o)
  BY <1>13 DEF SkipUnlink, GoesOn, Ends, disk
<1>14. CASE Unclaim(o)
  BY <1>14 DEF Unclaim, GoesOn, Ends, disk
<1>15. CASE Fail(o)
  BY <1>15 DEF Fail, Ends, disk
<1>16. ASSUME NEW b \in Backups, ClearIntent(o, b)
      PROVE  Kept
  BY <1>16 DEF ClearIntent, disk
<1>17. ASSUME NEW b \in Backups, RemoveUnfinished(o, b)
      PROVE  Kept
  BY <1>17 DEF RemoveUnfinished, disk
<1>18. ASSUME NEW b \in Backups, RefuseIntent(o, b)
      PROVE  Kept
  BY <1>18 DEF RefuseIntent, Ends, disk
<1>19. ASSUME NEW b \in Backups, Reserve(o, b)
      PROVE  Kept
  BY <1>19 DEF Reserve, TakeWriter, disk
<1>20. ASSUME NEW b \in Backups, RemoveOld(o, b)
      PROVE  Kept
  BY <1>20 DEF RemoveOld, disk
<1> QED
  BY <1>1, <1>2, <1>3, <1>4, <1>5, <1>6, <1>7, <1>8, <1>9, <1>10, <1>11, <1>12, <1>13,
     <1>14, <1>15, <1>16, <1>17, <1>18, <1>19, <1>20 DEF Maintain

(* An unrecorded snapshot that is being removed is being reconciled away,   *)
(* and is the hub's own.                                                    *)
LEMMA RemovedSnapshot ==
  ASSUME TrackInv, NEW o \in Operators, NEW b \in Backups,
         op[o].cur = b, Unrecorded(b)
  PROVE  op[o].stage = "reconcile" /\ op[o].step = "unlink" /\ Owned(b)
<1>1. op[o].step \in {"unlink", "unclaim", "mark"}
  BY BackupAssumption DEF TrackInv, TrackOp
<1>2. op[o].step # "unclaim"
  BY DEF TrackInv, TrackOp, Unrecorded
<1>3. op[o].stage # "clean"
  BY <1>1 DEF TrackInv, BackupInv, OpInv, Cleans, OldRow, Recorded, Unrecorded
<1>4. op[o].stage \in {"reconcile", "build"} /\ op[o].step = "unlink"
  BY <1>1, <1>2, <1>3 DEF TrackInv, BackupInv, OpInv, StepsFit, TypeOK, Operation, Stages
<1>5. op[o].stage # "build"
  BY <1>4 DEF TrackInv, TrackOp, BackupInv, OpInv, Builds, Unrecorded
<1> QED
  BY <1>4, <1>5 DEF TrackInv, UnrecordedAreClaimed, Unrecorded, Owned

(* A snapshot becomes unrecorded only when it is made. *)
LEMMA UnrecordedBefore ==
  ASSUME TypeOK, NEW o \in Operators, Maintain(o), NEW b \in Backups,
         Unrecorded(b)', ~(Snapshot(o) /\ b = op[o].mine)
  PROVE  Unrecorded(b)
  BY FilesStep DEF Unrecorded

LEMMA MaintainIsAlone ==
  ASSUME TypeOK, NEW o \in Operators, Maintain(o)
  PROVE  Alone(o)
<1>1. ASSUME NEW kind \in {"prune", "vacuum"}, Begin(o, kind)
      PROVE  Alone(o)
  BY <1>1 DEF Begin, TakeWriter, Alone, TypeOK
<1>2. CASE Reconciled(o)
  BY <1>2 DEF Reconciled, Alone, TypeOK
<1>3. CASE LinkClaim(o)
  BY <1>3 DEF LinkClaim, Alone, TypeOK
<1>4. CASE WriteIntent(o)
  BY <1>4 DEF WriteIntent, Alone, TypeOK
<1>5. CASE Snapshot(o)
  BY <1>5 DEF Snapshot, Alone, TypeOK
<1>6. CASE Commit(o)
  BY <1>6 DEF Commit, Alone, TypeOK
<1>7. CASE Finish(o)
  BY <1>7 DEF Finish, Alone, TypeOK
<1>8. CASE Compact(o)
  BY <1>8 DEF Compact, Alone, TypeOK
<1>9. CASE ListOld(o)
  BY <1>9 DEF ListOld, Alone, TypeOK
<1>10. CASE MarkRemoved(o)
  BY <1>10 DEF MarkRemoved, GoesOn, Alone, TypeOK
<1>11. CASE Done(o)
  BY <1>11 DEF Done, Ends, Alone, TypeOK
<1>12. CASE Unlink(o)
  BY <1>12 DEF Unlink, Alone, TypeOK
<1>13. CASE SkipUnlink(o)
  BY <1>13 DEF SkipUnlink, GoesOn, Ends, Alone, TypeOK
<1>14. CASE Unclaim(o)
  BY <1>14 DEF Unclaim, GoesOn, Ends, Alone, TypeOK
<1>15. CASE Fail(o)
  BY <1>15 DEF Fail, Ends, Alone, TypeOK
<1>16. ASSUME NEW b \in Backups, ClearIntent(o, b)
      PROVE  Alone(o)
  BY <1>16 DEF ClearIntent, Alone, TypeOK
<1>17. ASSUME NEW b \in Backups, RemoveUnfinished(o, b)
      PROVE  Alone(o)
  BY <1>17 DEF RemoveUnfinished, Alone, TypeOK
<1>18. ASSUME NEW b \in Backups, RefuseIntent(o, b)
      PROVE  Alone(o)
  BY <1>18 DEF RefuseIntent, Ends, Alone, TypeOK
<1>19. ASSUME NEW b \in Backups, Reserve(o, b)
      PROVE  Alone(o)
  BY <1>19 DEF Reserve, TakeWriter, Alone, TypeOK
<1>20. ASSUME NEW b \in Backups, RemoveOld(o, b)
      PROVE  Alone(o)
  BY <1>20 DEF RemoveOld, Alone, TypeOK
<1> QED
  BY <1>1, <1>2, <1>3, <1>4, <1>5, <1>6, <1>7, <1>8, <1>9, <1>10, <1>11, <1>12, <1>13,
     <1>14, <1>15, <1>16, <1>17, <1>18, <1>19, <1>20 DEF Maintain

LEMMA TrackedStep ==
  ASSUME TrackInv, NEW o \in Operators, Maintain(o)
  PROVE  SnapshotsAreTracked' /\ UnrecordedAreClaimed'
<1> USE DEF TrackInv
<1>1. TypeOK
  BY DEF BackupInv
<1>2. ASSUME NEW b \in Backups, Unrecorded(b)'
      PROVE  /\ b \in claim'
             /\ b \in pending' \cup dropped' \/ \E p \in Operators : op'[p].cur = b
  <2>1. CASE Snapshot(o) /\ b = op[o].mine
    BY <2>1 DEF Snapshot, At, TrackOp, BackupInv, OpInv, Builds
  <2>2. CASE ~(Snapshot(o) /\ b = op[o].mine)
    <3>1. Unrecorded(b)
      BY <1>1, <1>2, <2>2, UnrecordedBefore
    <3>2. b \in claim
      BY <3>1 DEF UnrecordedAreClaimed
    <3>3. b \in claim'
      BY <1>1, <3>1, <3>2, FilesStep DEF TrackOp, Unrecorded
    <3>4. CASE b \in pending
      <4>1. ~ClearIntent(o, b) /\ ~RefuseIntent(o, b)
        BY <3>1, <3>2, <3>4 DEF ClearIntent, RefuseIntent, Keeps, Unrecorded, Owned
      <4>2. ~(Finish(o) /\ b = op[o].mine)
        BY <3>1 DEF Finish, At, BackupInv, OpInv, Cleans, OwnRow, Recorded, Unrecorded
      <4>3. RemoveUnfinished(o, b) => op'[o].cur = b
        BY <1>1 DEF RemoveUnfinished, TypeOK, Operation
      <4> QED
        BY <1>1, <3>3, <3>4, <4>1, <4>2, <4>3, IntentsStep
    <3>5. CASE b \in dropped
      BY <1>1, <3>3, <3>5, IntentsStep
    <3>6. ASSUME NEW p \in Operators, op[p].cur = b
          PROVE  b \in dropped' \/ op'[p].cur = b
      <4>1. op[p].stage = "reconcile" /\ op[p].step = "unlink" /\ Owned(b)
        BY <3>1, <3>6, RemovedSnapshot
      <4>2. CASE p # o
        BY <1>1, <3>6, <4>2, MaintainIsAlone DEF Alone
      <4>3. CASE p = o
        <5>1. Unlink(o) \/ Fail(o)
          BY <3>6, <4>1, <4>3 DEF Maintain, Begin, Reconciled, LinkClaim, WriteIntent,
             Snapshot, Commit, Finish, Compact, ListOld, MarkRemoved, Done, SkipUnlink,
             Unclaim, ClearIntent, RemoveUnfinished, RefuseIntent, Reserve, RemoveOld, At
        <5>2. ~Unlink(o)
          BY <1>1, <1>2, <3>6, <4>3 DEF Unlink, TypeOK, Unrecorded
        <5> QED
          BY <3>6, <4>1, <4>3, <5>1, <5>2 DEF Fail, Ends, DropsUnfinished, At
      <4> QED
        BY <4>2, <4>3
    <3> QED
      BY <3>1, <3>3, <3>4, <3>5, <3>6 DEF SnapshotsAreTracked, Unrecorded
  <2> QED
    BY <2>1, <2>2
<1> QED
  BY <1>2 DEF SnapshotsAreTracked, UnrecordedAreClaimed, Unrecorded

LEMMA TrackOpOther ==
  ASSUME TrackInv, NEW o \in Operators, Maintain(o), NEW p \in Operators \ {o}
  PROVE  TrackOp(p)'
<1> USE DEF TrackInv
<1>1. op'[p] = op[p] /\ TypeOK /\ TrackOp(p)
  BY MaintainIsAlone DEF Alone, BackupInv
<1>2. ASSUME op[p].stage = "build"
      PROVE  /\ file'[op[p].mine] # "foreign"
             /\ op[p].step \in {"snapshot", "commit"} => op[p].mine \in pending'
             /\ op[p].step # "commit" => file'[op[p].mine] # "full"
  <2>1. op[o].stage \notin {"reconcile", "build"} /\ op[p].mine \in Backups
    BY <1>2, OthersBuildNothing DEF BackupInv, TypeOK
  <2>2. ~Recorded(op[p].mine)
    BY <1>2 DEF BackupInv, OpInv, Builds
  <2>3. file'[op[p].mine] \in {file[op[p].mine], "none", "partial"}
    BY <1>1, <2>1, FilesStep DEF Snapshot, At
  <2>4. ASSUME op[p].mine \in pending
        PROVE  op[p].mine \in pending'
    <3>1. Finish(o) => op[p].mine # op[o].mine
      BY <2>2 DEF Finish, At, BackupInv, OpInv, Cleans, OwnRow, Recorded
    <3> QED
      BY <1>1, <2>1, <2>4, <3>1, IntentsStep
         DEF ClearIntent, RemoveUnfinished, RefuseIntent, At
  <2> QED
    BY <1>1, <1>2, <2>3, <2>4 DEF TrackOp
<1>3. ASSUME op[p].step = "unclaim", op[p].cur \notin touched'
      PROVE  file'[op[p].cur] = "none"
  <2>1. op[p].cur \in Backups /\ file[op[p].cur] = "none"
    BY <1>1, <1>3, FilesStep DEF TrackOp, TypeOK
  <2>2. ~Reserve(o, op[p].cur)
    BY DEF Reserve, Unused
  <2>3. Snapshot(o) => op[p].cur # op[o].mine
    BY <1>3, RemovedIsNotBuilt DEF Snapshot, At
  <2> QED
    BY <1>1, <2>1, <2>2, <2>3, FilesStep
<1> QED
  BY <1>1, <1>2, <1>3 DEF TrackOp

LEMMA TrackOpOwn ==
  ASSUME TrackInv, NEW o \in Operators, Maintain(o)
  PROVE  TrackOp(o)'
<1> USE DEF TrackInv
<1> TypeOK /\ TrackOp(o)
  BY DEF BackupInv
<1>end. ASSUME Ends(o)
        PROVE  TrackOp(o)'
  <2>1. op'[o] = Idle
    BY <1>end DEF Ends, TypeOK
  <2> QED
    BY <2>1 DEF TrackOp, Idle
<1>on. ASSUME GoesOn(o), op[o].stage # "build"
       PROVE  TrackOp(o)'
  <2>1. op'[o].step = "next" /\ op'[o].cur = NoBackup /\ op'[o].stage = op[o].stage
    BY <1>on DEF GoesOn, Operation, TypeOK
  <2> QED
    BY <1>on, <2>1 DEF TrackOp
<1>1. ASSUME NEW kind \in {"prune", "vacuum"}, Begin(o, kind)
      PROVE  TrackOp(o)'
  <2>1. op'[o].stage = "reconcile" /\ op'[o].step = "next" /\ op'[o].cur = NoBackup
    BY <1>1 DEF Begin, Idle, Operation, TypeOK
  <2> QED
    BY <1>1, <2>1 DEF Begin, TrackOp, TypeOK
<1>2. CASE Reconciled(o)
  <2>1. op'[o].stage = "ready" /\ op'[o].step = "next" /\ op'[o].cur = op[o].cur
    BY <1>2 DEF Reconciled, At, Operation, TypeOK
  <2> QED
    BY <1>2, <2>1 DEF Reconciled, At, TrackOp, TypeOK
<1>3. CASE LinkClaim(o)
  <2>1. /\ op'[o].stage = "build" /\ op'[o].step = "intend" /\ op'[o].cur = op[o].cur
        /\ op'[o].mine = op[o].mine
    BY <1>3 DEF LinkClaim, At, Operation, TypeOK
  <2> QED
    BY <1>3, <2>1 DEF LinkClaim, At, TrackOp, TypeOK
<1>4. CASE WriteIntent(o)
  <2>1. /\ op'[o].stage = "build" /\ op'[o].mine = op[o].mine
        /\ \/ op'[o].step = "snapshot" /\ op'[o].cur = op[o].cur /\ op[o].mine \in pending'
           \/ op'[o].step = "unlink"
    BY <1>4 DEF WriteIntent, At, Operation, TypeOK
  <2> QED
    BY <1>4, <2>1 DEF WriteIntent, At, TrackOp
<1>5. CASE Snapshot(o)
  <2>1. /\ op'[o].stage = "build" /\ op'[o].step = "commit" /\ op'[o].cur = op[o].cur
        /\ op'[o].mine = op[o].mine
    BY <1>5 DEF Snapshot, At, Operation, TypeOK
  <2> QED
    BY <1>5, <2>1 DEF Snapshot, At, TrackOp, TypeOK
<1>6. CASE Commit(o)
  <2>1. op'[o].stage = "finish" /\ op'[o].step = "next" /\ op'[o].cur = op[o].cur
    BY <1>6 DEF Commit, At, Operation, TypeOK
  <2> QED
    BY <1>6, <2>1 DEF Commit, At, TrackOp, TypeOK
<1>7. CASE Finish(o)
  <2>1. /\ op'[o].stage \in {"compact", "clean"} /\ op'[o].step \in {"next", "list"}
        /\ op'[o].cur = op[o].cur
    BY <1>7 DEF Finish, At, Operation, TypeOK
  <2> QED
    BY <1>7, <2>1 DEF Finish, At, TrackOp
<1>8. CASE Compact(o)
  <2>1. op'[o].stage = "clean" /\ op'[o].step = "list" /\ op'[o].cur = op[o].cur
    BY <1>8 DEF Compact, At, Operation, TypeOK
  <2> QED
    BY <1>8, <2>1 DEF Compact, At, TrackOp, TypeOK
<1>9. CASE ListOld(o)
  <2>1. op'[o].stage = "clean" /\ op'[o].step = "next" /\ op'[o].cur = op[o].cur
    BY <1>9 DEF ListOld, At, Operation, TypeOK
  <2> QED
    BY <1>9, <2>1 DEF ListOld, At, TrackOp, TypeOK
<1>10. CASE MarkRemoved(o)
  BY <1>10, <1>end, <1>on DEF MarkRemoved, At
<1>11. CASE Done(o)
  BY <1>11, <1>end DEF Done
<1>12. CASE Unlink(o)
  <2>1. /\ op'[o].stage = op[o].stage /\ op'[o].step = "unclaim"
        /\ op'[o].cur = op[o].cur /\ op'[o].mine = op[o].mine
        /\ file'[op[o].cur] = "none"
    BY <1>12 DEF Unlink, Operation, TypeOK
  <2>2. op[o].stage = "build" => op[o].cur = op[o].mine
    BY <1>12 DEF Unlink, BackupInv, OpInv, Builds
  <2> QED
    BY <2>1, <2>2 DEF TrackOp
<1>13. CASE SkipUnlink(o)
  <2>1. CASE op[o].stage = "clean"
    BY <1>13, <2>1, <1>on DEF SkipUnlink
  <2>2. CASE op[o].stage # "clean"
    BY <1>13, <2>2, <1>end DEF SkipUnlink
  <2> QED
    BY <2>1, <2>2
<1>14. CASE Unclaim(o)
  <2>1. CASE op[o].stage = "clean"
    <3>1. op'[o].stage = "clean" /\ op'[o].step = "mark"
      BY <1>14, <2>1 DEF Unclaim, Operation, TypeOK
    <3> QED
      BY <3>1 DEF TrackOp
  <2>2. CASE op[o].stage # "clean" /\ ~Ends(o)
    BY <1>14, <2>2, <1>on DEF Unclaim
  <2>3. CASE Ends(o)
    BY <2>3, <1>end
  <2> QED
    BY <2>1, <2>2, <2>3
<1>15. CASE Fail(o)
  BY <1>15, <1>end DEF Fail
<1>16. ASSUME NEW b \in Backups, ClearIntent(o, b)
      PROVE  TrackOp(o)'
  <2>1. op'[o].stage = "reconcile" /\ op'[o].step = "next" /\ op'[o].cur = op[o].cur
    BY <1>16 DEF ClearIntent, At, Operation, TypeOK
  <2> QED
    BY <1>16, <2>1 DEF ClearIntent, At, TrackOp, TypeOK
<1>17. ASSUME NEW b \in Backups, RemoveUnfinished(o, b)
      PROVE  TrackOp(o)'
  <2>1. op'[o].stage = "reconcile" /\ op'[o].step = "unlink"
    BY <1>17 DEF RemoveUnfinished, At, Operation, TypeOK
  <2> QED
    BY <1>17, <2>1 DEF RemoveUnfinished, TrackOp, TypeOK
<1>18. ASSUME NEW b \in Backups, RefuseIntent(o, b)
      PROVE  TrackOp(o)'
  BY <1>18, <1>end DEF RefuseIntent
<1>19. ASSUME NEW b \in Backups, Reserve(o, b)
      PROVE  TrackOp(o)'
  <2>1. /\ op'[o].stage = "build" /\ op'[o].step = "claim" /\ op'[o].cur = op[o].cur
        /\ op'[o].mine = b /\ file'[b] = "partial"
    BY <1>19 DEF Reserve, At, Operation, TypeOK
  <2> QED
    BY <1>19, <2>1 DEF Reserve, At, TrackOp, TypeOK
<1>20. ASSUME NEW b \in Backups, RemoveOld(o, b)
      PROVE  TrackOp(o)'
  <2>1. op'[o].stage = "clean" /\ op'[o].step \in {"unlink", "mark"}
    BY <1>20 DEF RemoveOld, At, Operation, TypeOK
  <2> QED
    BY <2>1 DEF TrackOp
<1> QED
  BY <1>1, <1>2, <1>3, <1>4, <1>5, <1>6, <1>7, <1>8, <1>9, <1>10, <1>11, <1>12, <1>13,
     <1>14, <1>15, <1>16, <1>17, <1>18, <1>19, <1>20 DEF Maintain

LEMMA TrackTamper ==
  ASSUME TrackInv, NEW b \in Backups, Tamper(b)
  PROVE  SnapshotsAreTracked' /\ UnrecordedAreClaimed' /\ \A o \in Operators : TrackOp(o)'
<1> USE DEF TrackInv
<1>1. /\ touched' = touched \cup {b}
      /\ UNCHANGED <<epoch, audit, copy, pending, writer, op, dropped>>
      /\ \A o \in Operators : op[o].stage = "build" => op[o].mine # b
  BY DEF Tamper
<1>2. \A c \in Backups : c # b => file'[c] = file[c] /\ (c \in claim' <=> c \in claim)
  BY DEF Tamper, BackupInv, TypeOK
<1>3. SnapshotsAreTracked'
  BY <1>1, <1>2 DEF SnapshotsAreTracked, Recorded
<1>4. UnrecordedAreClaimed'
  BY <1>1, <1>2 DEF UnrecordedAreClaimed, Unrecorded, Recorded
<1>5. ASSUME NEW o \in Operators
      PROVE  TrackOp(o)'
  BY <1>1, <1>2 DEF TrackOp, BackupInv, TypeOK
<1> QED
  BY <1>3, <1>4, <1>5

LEMMA TrackInvHolds == Spec => []TrackInv
<1>1. Init => TrackInv
  <2> SUFFICES ASSUME Init
               PROVE  TrackInv
    OBVIOUS
  <2>1. \A o \in Operators : op[o] = Idle
    BY DEF Init
  <2>2. \A o \in Operators : TrackOp(o)
    BY <2>1 DEF TrackOp, Idle
  <2>3. SnapshotsAreTracked /\ UnrecordedAreClaimed
    BY DEF Init, SnapshotsAreTracked, UnrecordedAreClaimed, Unrecorded
  <2> QED
    BY <2>2, <2>3, BackupInvInit DEF TrackInv
<1>2. TrackInv /\ [Next]_vars => TrackInv'
  <2> SUFFICES ASSUME TrackInv, [Next]_vars
               PROVE  TrackInv'
    OBVIOUS
  <2>1. BackupInv'
    BY BackupInvStep DEF TrackInv
  <2>2. ASSUME NEW o \in Operators, Maintain(o)
        PROVE  TrackInv'
    BY <2>1, <2>2, TrackedStep, TrackOpOther, TrackOpOwn DEF TrackInv
  <2>3. ASSUME NEW b \in Backups, Tamper(b)
        PROVE  TrackInv'
    BY <2>1, <2>3, TrackTamper DEF TrackInv
  <2>4. CASE UNCHANGED vars
    BY <2>1, <2>4 DEF vars, disk, TrackInv, SnapshotsAreTracked, UnrecordedAreClaimed,
       Unrecorded, Recorded, TrackOp
  <2> QED
    BY <2>2, <2>3, <2>4 DEF Next
<1> QED
  BY <1>1, <1>2, PTL DEF Spec

(* Whenever a process dies, the snapshot it was making is recorded or has   *)
(* its intent, unless it was just being reconciled away (writePruneIntent,  *)
(* reconcilePendingPruneBackups).                                           *)
THEOREM SnapshotsStayTracked == Spec => []SnapshotsAreTracked
<1>1. TrackInv => SnapshotsAreTracked
  BY DEF TrackInv
<1> QED
  BY <1>1, TrackInvHolds, PTL

(* What somebody put in the place of a backup stays, as long as the claim   *)
(* shows that it is not the hub's (removeClaimedPruneBackup).               *)
THEOREM ForeignFilesStay == Spec => ForeignFilesStand
<1> DEFINE spared == \A b \in Backups :
                       file[b] = "foreign" /\ b \in claim => file'[b] = "foreign"
<1>1. ASSUME TrackInv, NEW o \in Operators, Maintain(o), NEW b \in Backups,
             file[b] = "foreign", b \in claim
      PROVE  file'[b] = "foreign"
  <2>1. TypeOK
    BY <1>1 DEF TrackInv, BackupInv
  <2>2. ~(Unlink(o) /\ b = op[o].cur) /\ ~Reserve(o, b)
    BY <1>1 DEF Unlink, Owned, Reserve, Unused
  <2>3. ~(Snapshot(o) /\ b = op[o].mine)
    BY <1>1 DEF Snapshot, At, TrackInv, TrackOp
  <2> QED
    BY <1>1, <2>1, <2>2, <2>3 DEF Maintain, Begin, Reconciled, LinkClaim, WriteIntent,
       Snapshot, Commit, Finish, Compact, ListOld, MarkRemoved, Done, Unlink,
       SkipUnlink, Unclaim, Fail, ClearIntent, RemoveUnfinished, RefuseIntent,
       Reserve, RemoveOld, TypeOK, disk
<1>2. ASSUME TrackInv, NEW b \in Backups, Tamper(b)
      PROVE  spared
  BY <1>2 DEF Tamper, TrackInv, BackupInv, TypeOK
<1>3. TrackInv /\ [Next]_vars => [spared]_vars
  BY <1>1, <1>2 DEF Next
<1> QED
  BY <1>3, TrackInvHolds, PTL DEF Spec, ForeignFilesStand

=============================================================================
