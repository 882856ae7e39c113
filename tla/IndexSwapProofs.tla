--------------------------- MODULE IndexSwapProofs ---------------------------
(***************************************************************************)
(* Proofs about the index and its swaps, for any number of processes,      *)
(* schemas, swaps, backups, rows, faults and kept schemas.                 *)
(***************************************************************************)
EXTENDS IndexSwap, FiniteSetTheorems, TLAPS

-----------------------------------------------------------------------------
(* The inductive invariant, part by part. *)

Waiting == {"idle", "open", "queue"}
(* The steps from the journal's writing to the end of the swap, and of      *)
(* those the ones at which the rollback path has a part of the index.       *)
Swapping == {"move", "movewal", "noted", "publish", "published", "validate",
             "complete", "forget", "prune"}
Displacing == {"movewal", "noted", "publish", "published", "validate"}
(* The steps that still have a staged copy to publish. *)
Staging == {"preserve", "list", "journal", "move", "movewal", "noted", "publish"}

(* A swap owns a rollback path of its own; the active index is backed up    *)
(* once; a manual backup ends before the journal; what is staged is a       *)
(* database that can be read.                                               *)
Owns(r) ==
  /\ r.swap # 0 <=> r.step \in Swapping
  /\ r.swap <= swaps /\ r.mine <= Len(backups) /\ r.at <= row
  /\ r.mine # 0 => r.step \in {"list", "journal"} \cup Swapping
  /\ r.reason = "backup" => r.step \in {"preserve", "list"}
  /\ r.step \in Staging /\ r.reason # "backup" => r.stage # NoDb /\ r.stage.is = "sound"

(* The backup whose manifest is not yet written: the newest of all, with    *)
(* the rows its maker saw.                                                  *)
Listing(r) ==
  r.step = "list" =>
    /\ r.mine = Len(backups) /\ r.mine # 0
    /\ backups[r.mine].there
    /\ backups[r.mine].db.rows = r.saw
    /\ backups[r.mine].kind = (IF r.reason = "backup" THEN "manual" ELSE "automatic")
    /\ \A s \in Schemas : displaced[s].at < r.mine

Harmed(db) == db # NoDb /\ db.is = "damaged"

(* What a swap knows of the damaged file.                                   *)
Spares(r) ==
  /\ r.step = "list" => ~Harmed(main)
  /\ r.step \in {"journal", "move"} /\ Harmed(main) => r.keep
  /\ r.step \in Displacing => ~Harmed(main)
  /\ r.step \in Displacing /\ Harmed(aside[r.swap].main) => r.keep

(* A rollback path is empty until the swap that owns it moves something.    *)
PathsClear ==
  /\ \A s \in 1..MaxSwaps : s > swaps => aside[s] = Nothing
  /\ \A p \in Procs : At(p, "move") => aside[proc[p].swap] = Nothing

(* As long as nobody else wrote, what was backed up is at the active path,  *)
(* or at the rollback path, or half and half.                               *)
Whole(r, db, log) ==
  db # NoDb /\ db.schema = backups[r.mine].db.schema /\ r.saw \subseteq db.rows \cup log
Undisturbed(r) ==
  r.mine # 0 /\ r.at = row =>
    /\ r.step \in {"list", "journal", "move"} => Whole(r, main, wal)
    /\ r.step = "movewal" => /\ Whole(r, aside[r.swap].main, wal)
                             /\ aside[r.swap].wal = {}
    /\ r.step \in Displacing \ {"movewal"} => Whole(r, aside[r.swap].main, aside[r.swap].wal)

(* Every backup is of an index that could be read. *)
BackupsSound == \A b \in DOMAIN backups : backups[b].db.is = "sound"

(* The backups that pruning sees are none of them newer than the last       *)
(* displaced index of their schema.                                         *)
Newer(s) == {t \in Schemas : displaced[t].at > displaced[s].at}
LatestKnown ==
  /\ \A b \in Candidates : b <= displaced[backups[b].db.schema].at
  /\ \A s \in Schemas : displaced[s].at # 0 =>
       /\ displaced[s].at \in DOMAIN backups
       /\ \/ Cardinality(Newer(s)) >= KeptSchemas
          \/ /\ displaced[s].at \in Candidates
             /\ backups[displaced[s].at].db.schema = s
             /\ displaced[s].rows \subseteq backups[displaced[s].at].db.rows

IInv ==
  /\ TypeOK /\ PathsClear /\ BackupsSound /\ LatestKnown /\ DamagedIsKept
  /\ \A p \in Procs : LET r == proc[p]
                      IN Owns(r) /\ Listing(r) /\ Spares(r) /\ Undisturbed(r)

Fine(p) == LET r == proc[p]
           IN Owns(r) /\ Listing(r) /\ Spares(r) /\ Undisturbed(r)

-----------------------------------------------------------------------------
(* Databases and the records of processes. *)

LEMMA ContentsIs ==
  ASSUME NEW db \in Db, NEW log \in SUBSET Rows
  PROVE  /\ Contents(db, log) \in Db
         /\ Contents(db, log).schema = db.schema
         /\ Contents(db, log).rows = db.rows \cup log
         /\ Contents(db, log).is = db.is
  BY DEF Contents, Db

LEMMA FreshIs ==
  Fresh \in Db /\ Fresh.schema = Supported /\ Fresh.rows = {} /\ Fresh.is = "sound"
  BY IndexAssumption DEF Fresh, Db, Schemas

LEMMA IdleIs == Idle \in Process /\ Idle.step = "idle" /\ Idle.reason = "none"
                /\ Idle.stage = NoDb /\ Idle.swap = 0 /\ Idle.mine = 0 /\ Idle.at = 0
  BY DEF Idle, Process, Steps, Reasons

LEMMA GoneIs ==
  /\ Gone \in Backup /\ ~Gone.listed /\ ~Gone.there /\ Gone.db.is = "sound"
  BY FreshIs DEF Gone, Backup

LEMMA BackupFields ==
  ASSUME NEW b \in Backup
  PROVE  /\ b.db \in Db /\ b.kind \in {"automatic", "manual"}
         /\ b.listed \in BOOLEAN /\ b.there \in BOOLEAN
  BY DEF Backup

LEMMA AsideFields ==
  ASSUME NEW a \in Aside
  PROVE  a.main \in Db \cup {NoDb} /\ a.wal \in SUBSET Rows
  BY DEF Aside

(* A process goes to a step and keeps the rest. *)
LEMMA StepTo ==
  ASSUME NEW r \in Process, NEW s \in Steps
  PROVE  LET n == [r EXCEPT !.step = s]
         IN  /\ n \in Process /\ n.step = s /\ n.reason = r.reason /\ n.stage = r.stage
             /\ n.from = r.from /\ n.mine = r.mine /\ n.saw = r.saw /\ n.at = r.at
             /\ n.keep = r.keep /\ n.swap = r.swap
  BY DEF Process

LEMMA GotoIs ==
  ASSUME TypeOK, NEW p \in Procs, NEW s \in Steps, Goto(p, s)
  PROVE  proc' = [proc EXCEPT ![p] = [proc[p] EXCEPT !.step = s]]
<1>1. proc \in [Procs -> Process]
  BY DEF TypeOK
<1> QED BY <1>1 DEF Goto

-----------------------------------------------------------------------------
(* What a step of p does to the processes. *)

(* p's record becomes n; p has the lease, or takes it, if its step needs    *)
(* it, and does not keep it otherwise.                                      *)
Becomes(p, n) ==
  /\ proc' = [proc EXCEPT ![p] = n]
  /\ lease' = IF n.step \in Waiting THEN IF lease = p THEN Nobody ELSE lease ELSE p
  /\ n.step \notin Waiting => lease \in {p, Nobody}

LEMMA BecomesTyped ==
  ASSUME TypeOK, NEW p \in Procs, NEW n \in Process, Becomes(p, n)
  PROVE  /\ proc' \in [Procs -> Process] /\ lease' \in Procs \cup {Nobody}
         /\ \A q \in Procs :
              proc'[q].step \notin {"idle", "open", "queue"} <=> lease' = q
         /\ proc'[p] = n /\ \A q \in Procs \ {p} : proc'[q] = proc[q]
<1>1. proc \in [Procs -> Process] /\ lease \in Procs \cup {Nobody}
  BY DEF TypeOK
<1>2. proc'[p] = n /\ \A q \in Procs \ {p} : proc'[q] = proc[q]
  BY <1>1 DEF Becomes
<1>3. proc' \in [Procs -> Process]
  BY <1>1 DEF Becomes
<1>4. \A q \in Procs : proc[q].step \notin Waiting <=> lease = q
  BY DEF TypeOK, Waiting
<1>5. \A q \in Procs : proc'[q].step \notin Waiting <=> lease' = q
  BY <1>1, <1>2, <1>4, IndexAssumption DEF Becomes
<1>6. lease' \in Procs \cup {Nobody}
  BY <1>1 DEF Becomes
<1> QED BY <1>2, <1>3, <1>5, <1>6 DEF Waiting

(* A process that waits relies on nothing but its own record.               *)
LEMMA WaitingFine ==
  ASSUME IInv, NEW q \in Procs, proc[q].step \in Waiting, proc'[q] = proc[q],
         swaps' >= swaps, Len(backups') >= Len(backups), row' >= row,
         swaps' \in Nat, Len(backups') \in Nat, row' \in Nat
  PROVE  Fine(q)'
<1>1. Owns(proc[q])
  BY DEF IInv
<1>2. /\ proc[q] \in Process /\ swaps \in Nat /\ Len(backups) \in Nat /\ row \in Nat
  BY DEF IInv, TypeOK
<1>3. proc[q].swap \in Nat /\ proc[q].mine \in Nat /\ proc[q].at \in Nat
  BY <1>2 DEF Process
<1> QED
  BY <1>1, <1>2, <1>3
  DEF Fine, Owns, Listing, Spares, Undisturbed, Waiting, Swapping, Displacing, Staging

(* The others wait while p has the lease, and what they know stays true.    *)
LEMMA OthersFine ==
  ASSUME IInv, NEW p \in Procs, lease \in {p, Nobody},
         \A q \in Procs \ {p} : proc'[q] = proc[q],
         swaps' >= swaps, Len(backups') >= Len(backups), row' >= row,
         swaps' \in Nat, Len(backups') \in Nat, row' \in Nat
  PROVE  \A q \in Procs \ {p} : Fine(q)'
<1>1. \A q \in Procs \ {p} : proc[q].step \in Waiting
  BY IndexAssumption DEF IInv, TypeOK, Waiting
<1> QED BY <1>1, WaitingFine

(* A step that moves no file and writes no row.                             *)
LEMMA SameFine ==
  ASSUME NEW q \in Procs, Fine(q), proc'[q] = proc[q],
         UNCHANGED <<main, wal, aside, backups, swaps, row, displaced>>
  PROVE  Fine(q)'
  BY DEF Fine, Owns, Listing, Spares, Harmed, Undisturbed, Whole

LEMMA IdleFine ==
  ASSUME NEW p \in Procs, proc'[p] = Idle,
         swaps' \in Nat, Len(backups') \in Nat, row' \in Nat
  PROVE  Fine(p)'
  BY IdleIs
  DEF Fine, Owns, Listing, Spares, Undisturbed, Waiting, Swapping, Displacing, Staging

LEMMA SameBackups ==
  ASSUME IInv, UNCHANGED <<backups, displaced>>
  PROVE  BackupsSound' /\ LatestKnown'
  BY DEF IInv, BackupsSound, LatestKnown, Candidates, Newer

LEMMA StepOnly ==
  ASSUME IInv, NEW p \in Procs, NEW n \in Process, Becomes(p, n),
         UNCHANGED <<main, wal, aside, evidence, backups, swaps, row, harmed, displaced>>,
         journal' \in [phase : Phases, swap : 1..MaxSwaps] \cup {NoJournal},
         faults' \in 0..MaxFaults,
         n.step = "move" => aside[n.swap] = Nothing,
         Fine(p)'
  PROVE  IInv'
<1>1. TypeOK
  BY DEF IInv
<1>2. /\ proc' \in [Procs -> Process] /\ lease' \in Procs \cup {Nobody}
      /\ \A q \in Procs :
           proc'[q].step \notin {"idle", "open", "queue"} <=> lease' = q
      /\ proc'[p] = n /\ \A q \in Procs \ {p} : proc'[q] = proc[q]
  BY <1>1, BecomesTyped
<1>3. TypeOK'
  BY <1>1, <1>2 DEF TypeOK
<1>4. PathsClear'
  BY <1>2 DEF IInv, PathsClear, At
<1>5. BackupsSound' /\ LatestKnown'
  BY SameBackups
<1>6. DamagedIsKept'
  BY DEF IInv, DamagedIsKept
<1>7. \A q \in Procs \ {p} : Fine(q)'
  BY <1>2, SameFine DEF IInv, Fine
<1> QED BY <1>3, <1>4, <1>5, <1>6, <1>7 DEF IInv, Fine

-----------------------------------------------------------------------------
(* The steps that only move the process, its lease and the journal.         *)

LEMMA RecordTyped ==
  ASSUME IInv, NEW p \in Procs
  PROVE  /\ proc[p] \in Process /\ Fine(p)
         /\ proc[p].step \in Steps /\ proc[p].reason \in Reasons
         /\ proc[p].stage \in Db \cup {NoDb} /\ proc[p].from \in Nat
         /\ proc[p].mine \in Nat /\ proc[p].saw \in SUBSET Rows /\ proc[p].at \in Nat
         /\ proc[p].keep \in BOOLEAN /\ proc[p].swap \in Nat
         /\ proc[p].step \notin Waiting <=> lease = p
<1>1. proc[p] \in Process /\ Fine(p)
  BY DEF IInv, TypeOK, Fine
<1>2. proc[p].step \notin Waiting <=> lease = p
  BY DEF IInv, TypeOK, Waiting
<1> QED BY <1>1, <1>2 DEF Process

LEMMA CountersTyped ==
  ASSUME IInv
  PROVE  /\ swaps \in 0..MaxSwaps /\ swaps \in Nat /\ row \in 0..MaxRows /\ row \in Nat
         /\ faults \in 0..MaxFaults /\ Len(backups) \in Nat
         /\ journal \in [phase : Phases, swap : 1..MaxSwaps] \cup {NoJournal}
         /\ lease \in Procs \cup {Nobody}
  BY DEF IInv, TypeOK

LEMMA EndsBecomes ==
  ASSUME NEW p \in Procs, Ends(p)
  PROVE  Becomes(p, Idle)
  BY IdleIs DEF Ends, Becomes, Waiting

(* The operation ends, and leaves the disk but for the journal as it is.    *)
LEMMA EndsOnly ==
  ASSUME IInv, NEW p \in Procs, Ends(p),
         UNCHANGED <<main, wal, aside, evidence, backups, swaps, row, harmed, displaced>>,
         journal' \in [phase : Phases, swap : 1..MaxSwaps] \cup {NoJournal},
         faults' \in 0..MaxFaults
  PROVE  IInv'
<1>1. Becomes(p, Idle) /\ Idle \in Process /\ Idle.step # "move"
  BY EndsBecomes, IdleIs
<1>2. proc'[p] = Idle
  BY <1>1, BecomesTyped DEF IInv
<1>3. Fine(p)'
  BY <1>2, IdleFine, CountersTyped
<1> QED BY <1>1, <1>3, StepOnly

(* The process goes on to a step that promises nothing new.                 *)
LEMMA GoesOn ==
  ASSUME IInv, NEW p \in Procs, NEW s \in Steps, Goto(p, s),
         s \notin Waiting <=> proc[p].step \notin Waiting,
         s \in Swapping <=> proc[p].step \in Swapping,
         s \in Staging => proc[p].step \in Staging,
         s \in Displacing => proc[p].step \in Displacing \ {"movewal"},
         s \notin {"list", "journal", "move", "movewal", "preserve"},
         proc[p].step \notin {"preserve", "list", "journal"},
         UNCHANGED <<main, wal, aside, evidence, backups, swaps, row, harmed, displaced>>,
         journal' \in [phase : Phases, swap : 1..MaxSwaps] \cup {NoJournal},
         UNCHANGED <<lease, faults>>
  PROVE  IInv'
<1> DEFINE n == [proc[p] EXCEPT !.step = s]
<1>1. /\ n \in Process /\ n.step = s /\ n.reason = proc[p].reason
      /\ n.stage = proc[p].stage /\ n.mine = proc[p].mine /\ n.saw = proc[p].saw
      /\ n.at = proc[p].at /\ n.keep = proc[p].keep /\ n.swap = proc[p].swap
  BY RecordTyped, StepTo
<1>2. proc' = [proc EXCEPT ![p] = n]
  BY GotoIs DEF IInv
<1> HIDE DEF n
<1>3. Becomes(p, n)
  BY <1>1, <1>2, RecordTyped, CountersTyped, IndexAssumption DEF Becomes
<1>4. proc'[p] = n
  BY <1>1, <1>3, BecomesTyped DEF IInv
<1>5. Fine(p)
  BY RecordTyped
<1>6. Owns(proc[p])'
  BY <1>1, <1>4, <1>5, RecordTyped DEF Fine, Owns, Swapping, Staging
<1>7. Listing(proc[p])' /\ Spares(proc[p])'
  BY <1>1, <1>4, <1>5 DEF Fine, Listing, Spares, Harmed, Displacing
<1>8. Undisturbed(proc[p])'
  BY <1>1, <1>4, <1>5 DEF Fine, Undisturbed, Whole, Displacing
<1>9. Fine(p)'
  BY <1>6, <1>7, <1>8 DEF Fine
<1> QED BY <1>1, <1>3, <1>9, StepOnly, CountersTyped

LEMMA CheckInv == ASSUME IInv, NEW p \in Procs, Check(p) PROVE IInv'
<1>1. /\ Goto(p, "open") /\ proc[p].step = "idle" /\ journal' = journal
      /\ UNCHANGED <<main, wal, aside, evidence, backups, swaps, row, harmed, displaced>>
      /\ UNCHANGED <<lease, faults>>
  BY DEF Check, At, disk
<1> QED BY <1>1, GoesOn, CountersTyped DEF Steps, Waiting, Swapping, Staging, Displacing

LEMMA OutdatedInv == ASSUME IInv, NEW p \in Procs, Outdated(p) PROVE IInv'
<1>1. /\ Goto(p, "queue") /\ proc[p].step = "open" /\ journal' = journal
      /\ UNCHANGED <<main, wal, aside, evidence, backups, swaps, row, harmed, displaced>>
      /\ UNCHANGED <<lease, faults>>
  BY DEF Outdated, At, disk
<1> QED BY <1>1, GoesOn, CountersTyped DEF Steps, Waiting, Swapping, Staging, Displacing

LEMMA RefusedInv == ASSUME IInv, NEW p \in Procs, Refused(p) PROVE IInv'
  BY EndsOnly, CountersTyped DEF Refused, disk

LEMMA StopsInv == ASSUME IInv, NEW p \in Procs, Stops(p) PROVE IInv'
  BY EndsOnly, CountersTyped DEF Stops, disk

LEMMA Phased ==
  ASSUME IInv, NEW p \in Procs, proc[p].step \in Swapping, NEW phase \in Phases,
         Phase(p, phase)
  PROVE  journal' \in [phase : Phases, swap : 1..MaxSwaps] \cup {NoJournal}
<1>1. proc[p].swap \in Nat /\ proc[p].swap # 0 /\ proc[p].swap <= swaps
  BY RecordTyped DEF Fine, Owns
<1>2. proc[p].swap \in 1..MaxSwaps
  BY <1>1, CountersTyped, IndexAssumption
<1> QED BY <1>2 DEF Phase

LEMMA NotePreservedInv == ASSUME IInv, NEW p \in Procs, NotePreserved(p) PROVE IInv'
<1>1. /\ Goto(p, "publish") /\ proc[p].step = "noted" /\ Phase(p, "active_preserved")
      /\ UNCHANGED <<main, wal, aside, evidence, backups, swaps, row, harmed, displaced>>
      /\ UNCHANGED <<lease, faults>>
  BY DEF NotePreserved, At
<1>2. journal' \in [phase : Phases, swap : 1..MaxSwaps] \cup {NoJournal}
  BY <1>1, Phased DEF Swapping, Phases
<1> QED BY <1>1, <1>2, GoesOn DEF Steps, Waiting, Swapping, Staging, Displacing

LEMMA NotePublishedInv == ASSUME IInv, NEW p \in Procs, NotePublished(p) PROVE IInv'
<1>1. /\ Goto(p, "validate") /\ proc[p].step = "published" /\ Phase(p, "stage_published")
      /\ UNCHANGED <<main, wal, aside, evidence, backups, swaps, row, harmed, displaced>>
      /\ UNCHANGED <<lease, faults>>
  BY DEF NotePublished, At
<1>2. journal' \in [phase : Phases, swap : 1..MaxSwaps] \cup {NoJournal}
  BY <1>1, Phased DEF Swapping, Phases
<1> QED BY <1>1, <1>2, GoesOn DEF Steps, Waiting, Swapping, Staging, Displacing

LEMMA CompleteInv == ASSUME IInv, NEW p \in Procs, Complete(p) PROVE IInv'
<1>1. /\ Goto(p, "forget") /\ proc[p].step = "complete" /\ Phase(p, "complete")
      /\ UNCHANGED <<main, wal, aside, evidence, backups, swaps, row, harmed, displaced>>
      /\ UNCHANGED <<lease, faults>>
  BY DEF Complete, At
<1>2. journal' \in [phase : Phases, swap : 1..MaxSwaps] \cup {NoJournal}
  BY <1>1, Phased DEF Swapping, Phases
<1> QED BY <1>1, <1>2, GoesOn DEF Steps, Waiting, Swapping, Staging, Displacing

LEMMA ForgetInv == ASSUME IInv, NEW p \in Procs, Forget(p) PROVE IInv'
<1>1. /\ Goto(p, "prune") /\ proc[p].step = "forget" /\ journal' = NoJournal
      /\ UNCHANGED <<main, wal, aside, evidence, backups, swaps, row, harmed, displaced>>
      /\ UNCHANGED <<lease, faults>>
  BY DEF Forget, At
<1> QED BY <1>1, GoesOn DEF Steps, Waiting, Swapping, Staging, Displacing

(* Taking the lease. *)
LEMMA BeginInv ==
  ASSUME IInv, NEW p \in Procs, NEW reason \in Reasons, Begin(p, reason)
  PROVE  IInv'
<1> DEFINE s == IF reason = "backup" THEN "preserve" ELSE "stage"
           n == [Idle EXCEPT !.reason = reason, !.step = s]
<1>1. /\ n \in Process /\ n.step = s /\ n.reason = reason /\ n.stage = NoDb
      /\ n.mine = 0 /\ n.at = 0 /\ n.swap = 0 /\ s \in {"preserve", "stage"}
  BY DEF Idle, Process, Steps
<1>2. /\ lease = Nobody /\ lease' = p /\ proc' = [proc EXCEPT ![p] = n]
      /\ UNCHANGED <<main, wal, aside, evidence, backups, journal, swaps, row, faults,
                     harmed, displaced>>
  BY DEF Begin, disk
<1>3. s = "preserve" => reason = "backup"
  OBVIOUS
<1> HIDE DEF n, s
<1>4. Becomes(p, n)
  BY <1>1, <1>2 DEF Becomes, Waiting
<1>5. proc'[p] = n
  BY <1>1, <1>4, BecomesTyped DEF IInv
<1>6. reason = "backup" => s = "preserve"
  BY DEF s
<1>7. Fine(p)'
  BY <1>1, <1>2, <1>3, <1>5, <1>6, CountersTyped
  DEF Fine, Owns, Listing, Spares, Undisturbed, Swapping, Displacing, Staging
<1> QED BY <1>1, <1>2, <1>4, <1>7, StepOnly, CountersTyped

-----------------------------------------------------------------------------
(* Staging. *)

LEMMA StagedInv ==
  ASSUME IInv, NEW p \in Procs, At(p, "stage"), NEW db \in Db, db.is = "sound",
         NEW from \in Nat, Staged(p, db, from)
  PROVE  IInv'
<1> DEFINE n == [proc[p] EXCEPT !.step = "preserve", !.stage = db, !.from = from]
<1>1. proc[p] \in Process /\ Fine(p) /\ proc[p].step = "stage" /\ proc \in [Procs -> Process]
      /\ lease = p
  BY RecordTyped DEF At, IInv, TypeOK, Waiting
<1>2. /\ n \in Process /\ n.step = "preserve" /\ n.reason = proc[p].reason /\ n.stage = db
      /\ n.mine = proc[p].mine /\ n.at = proc[p].at /\ n.swap = proc[p].swap
      /\ n.saw = proc[p].saw
  BY <1>1 DEF Process, Steps
<1>3. /\ proc' = [proc EXCEPT ![p] = n]
      /\ UNCHANGED <<main, wal, aside, evidence, backups, journal, lease, swaps, row,
                     faults, harmed, displaced>>
  BY <1>1 DEF Staged, disk
<1> HIDE DEF n
<1>4. Becomes(p, n)
  BY <1>1, <1>2, <1>3 DEF Becomes, Waiting
<1>5. proc'[p] = n
  BY <1>2, <1>4, BecomesTyped DEF IInv
<1>6. db # NoDb
  BY NoDbAssumption
<1>7. Fine(p)'
  BY <1>1, <1>2, <1>3, <1>5, <1>6, CountersTyped
  DEF Fine, Owns, Listing, Spares, Undisturbed, Swapping, Displacing, Staging
<1> QED BY <1>2, <1>3, <1>4, <1>7, StepOnly, CountersTyped

LEMMA StageInv == ASSUME IInv, NEW p \in Procs, Stage(p) PROVE IInv'
<1>1. CASE StageRebuild(p)
  BY <1>1, StagedInv, FreshIs DEF StageRebuild
<1>2. CASE StageRestore(p)
  <2>1. PICK b \in DOMAIN backups : Staged(p, backups[b].db, b)
    BY <1>2 DEF StageRestore
  <2>2. backups \in Seq(Backup)
    BY DEF IInv, TypeOK
  <2>3. backups[b].db \in Db /\ backups[b].db.is = "sound" /\ b \in Nat
    BY <2>2, BackupFields DEF IInv, BackupsSound
  <2> QED BY <1>2, <2>1, <2>3, StagedInv DEF StageRestore
<1>3. CASE StageMigration(p)
  <2>1. CASE Sound /\ main.schema < Supported
    <3> DEFINE db == [Contents(main, wal) EXCEPT !.schema = Supported]
    <3>1. main \in Db /\ wal \in SUBSET Rows /\ main.is = "sound"
      BY <2>1 DEF IInv, TypeOK, Sound
    <3>2. Contents(main, wal) \in Db /\ Contents(main, wal).is = "sound"
      BY <3>1, ContentsIs
    <3>3. db \in Db /\ db.is = "sound"
      BY <3>2, IndexAssumption DEF Db, Schemas
    <3>4. At(p, "stage") /\ Staged(p, db, 0)
      BY <1>3, <2>1 DEF StageMigration
    <3> QED BY <3>3, <3>4, StagedInv
  <2>2. CASE ~(Sound /\ main.schema < Supported)
    BY <1>3, <2>2, EndsOnly, CountersTyped DEF StageMigration, disk
  <2> QED BY <2>1, <2>2
<1> QED BY <1>1, <1>2, <1>3 DEF Stage

-----------------------------------------------------------------------------
(* A command that uses the index, and damage from outside.                  *)

LEMMA UseFine ==
  ASSUME IInv, NEW q \in Procs, proc'[q] = proc[q], row' = row + 1, ~Harmed(main'),
         UNCHANGED <<aside, backups, swaps, displaced>>
  PROVE  Fine(q)'
<1>1. Fine(q) /\ proc[q].at \in Nat /\ row \in Nat
  BY RecordTyped, CountersTyped
<1>2. Owns(proc[q])'
  BY <1>1 DEF Fine, Owns
<1>3. Listing(proc[q])'
  BY <1>1 DEF Fine, Listing
<1>4. Spares(proc[q])'
  BY <1>1 DEF Fine, Spares, Harmed
<1>5. proc[q].at # row'
  BY <1>1 DEF Fine, Owns
<1>6. Undisturbed(proc[q])'
  BY <1>5 DEF Undisturbed
<1> QED BY <1>2, <1>3, <1>4, <1>6 DEF Fine

LEMMA UseInv == ASSUME IInv, NEW p \in Procs, Use(p) PROVE IInv'
<1>1. /\ proc[p].step = "open" /\ row < MaxRows /\ row' = row + 1 /\ Ends(p)
      /\ main = NoDb \/ (main # NoDb /\ main.is = "sound")
      /\ UNCHANGED <<aside, evidence, backups, journal, swaps, faults, harmed, displaced>>
  BY DEF Use, At, Sound
<1>2. main \in Db \cup {NoDb} /\ wal \in SUBSET Rows
  BY DEF IInv, TypeOK
<1>3. row' \in 0..MaxRows /\ {row'} \in SUBSET Rows
  BY <1>1, CountersTyped, IndexAssumption DEF Rows
<1>4. main' \in Db /\ main'.is = "sound" /\ wal' \in SUBSET Rows
  <2> DEFINE db == IF main = NoDb THEN Fresh ELSE Contents(main, wal)
  <2>1. db \in Db /\ db.is = "sound"
    BY <1>1, <1>2, FreshIs, ContentsIs
  <2>2. \/ main' = Contents(db, {row'}) /\ wal' = {}
        \/ main' = db /\ wal' = {row'}
    BY DEF Use
  <2> HIDE DEF db
  <2> QED BY <2>1, <2>2, <1>3, ContentsIs
<1>5. Becomes(p, Idle)
  BY <1>1, EndsBecomes
<1>6. /\ proc' \in [Procs -> Process] /\ lease' \in Procs \cup {Nobody}
      /\ \A q \in Procs :
           proc'[q].step \notin {"idle", "open", "queue"} <=> lease' = q
      /\ proc'[p] = Idle /\ \A q \in Procs \ {p} : proc'[q] = proc[q]
  BY <1>5, IdleIs, BecomesTyped DEF IInv
<1>7. TypeOK'
  BY <1>1, <1>3, <1>4, <1>6 DEF IInv, TypeOK
<1>8. PathsClear'
  BY <1>1, <1>6, IdleIs DEF IInv, PathsClear, At
<1>9. BackupsSound' /\ LatestKnown'
  BY <1>1, SameBackups
<1>10. DamagedIsKept'
  BY <1>1 DEF IInv, DamagedIsKept
<1>11. ~Harmed(main')
  BY <1>4 DEF Harmed
<1>12. Fine(p)'
  BY <1>1, <1>3, <1>6, IdleFine, CountersTyped
<1>13. \A q \in Procs \ {p} : Fine(q)'
  BY <1>1, <1>6, <1>11, UseFine
<1> QED BY <1>7, <1>8, <1>9, <1>10, <1>12, <1>13 DEF IInv, Fine

LEMMA DamageInv == ASSUME IInv, Damage PROVE IInv'
<1>1. /\ main # NoDb /\ lease = Nobody /\ harmed' = TRUE /\ wal' = {}
      /\ main' = [Contents(main, wal) EXCEPT !.is = "damaged"]
      /\ UNCHANGED <<aside, evidence, backups, journal, lease, proc, swaps, row, faults,
                     displaced>>
  BY DEF Damage, Sound
<1>2. main' \in Db /\ main'.is = "damaged"
  <2>1. main \in Db /\ wal \in SUBSET Rows
    BY <1>1 DEF IInv, TypeOK
  <2>2. Contents(main, wal) \in Db
    BY <2>1, ContentsIs
  <2> QED BY <1>1, <2>2 DEF Db
<1>3. TypeOK'
  BY <1>1, <1>2 DEF IInv, TypeOK
<1>4. PathsClear'
  BY <1>1 DEF IInv, PathsClear, At
<1>5. BackupsSound' /\ LatestKnown'
  BY <1>1, SameBackups
<1>6. DamagedIsKept'
  BY <1>2, NoDbAssumption DEF DamagedIsKept
<1>7. \A q \in Procs : Fine(q)'
  <2>1. \A q \in Procs : proc[q].step \in Waiting
    BY <1>1, RecordTyped, IndexAssumption
  <2> QED BY <1>1, <2>1, WaitingFine, CountersTyped
<1> QED BY <1>3, <1>4, <1>5, <1>6, <1>7 DEF IInv, Fine

-----------------------------------------------------------------------------
(* The backup of the active index. *)

LEMMA BackupsTyped ==
  ASSUME IInv
  PROVE  /\ backups \in Seq(Backup) /\ Len(backups) \in Nat
         /\ DOMAIN backups = 1..Len(backups)
         /\ \A b \in 1..Len(backups) : backups[b] \in Backup /\ backups[b].db.is = "sound"
         /\ displaced \in [Schemas -> [at : Nat, rows : SUBSET Rows]]
         /\ \A s \in Schemas : displaced[s].at \in 0..Len(backups)
<1>1. backups \in Seq(Backup) /\ displaced \in [Schemas -> [at : Nat, rows : SUBSET Rows]]
  BY DEF IInv, TypeOK
<1>2. DOMAIN backups = 1..Len(backups) /\ Len(backups) \in Nat
  BY <1>1
<1>3. \A b \in 1..Len(backups) : backups[b] \in Backup /\ backups[b].db.is = "sound"
  BY <1>1, <1>2 DEF IInv, BackupsSound
<1>4. \A s \in Schemas : displaced[s].at \in 0..Len(backups)
  <2> SUFFICES ASSUME NEW s \in Schemas PROVE displaced[s].at \in 0..Len(backups)
    OBVIOUS
  <2>1. displaced[s].at \in Nat
    BY <1>1
  <2>2. displaced[s].at # 0 => displaced[s].at \in DOMAIN backups
    BY DEF IInv, LatestKnown
  <2> QED BY <2>1, <2>2, <1>2
<1> QED BY <1>1, <1>2, <1>3, <1>4

(* A change of one backup that pruning sees neither before nor after.       *)
LEMMA SameCandidates ==
  ASSUME IInv, backups' \in Seq(Backup), Len(backups') >= Len(backups),
         NEW m \in DOMAIN backups', m \notin Candidates,
         ~(/\ backups'[m].kind = "automatic" /\ backups'[m].listed /\ backups'[m].there),
         backups'[m].db.is = "sound",
         \A b \in DOMAIN backups' : b # m => b \in DOMAIN backups /\ backups'[b] = backups[b],
         \A s \in Schemas : displaced[s].at # m,
         displaced' = displaced
  PROVE  BackupsSound' /\ LatestKnown'
<1>1. /\ Len(backups) \in Nat /\ DOMAIN backups = 1..Len(backups)
      /\ Len(backups') \in Nat /\ DOMAIN backups' = 1..Len(backups')
  BY BackupsTyped
<1>2. DOMAIN backups \subseteq DOMAIN backups'
  BY <1>1
<1>3. BackupsSound'
  BY DEF IInv, BackupsSound
<1>4. Candidates' = Candidates
  BY <1>2 DEF Candidates
<1>5. \A b \in Candidates : b # m /\ b \in DOMAIN backups /\ backups'[b] = backups[b]
  BY <1>2 DEF Candidates
<1>6. \A s \in Schemas : Newer(s)' = Newer(s)
  BY DEF Newer
<1>7. LatestKnown
  BY DEF IInv
<1>8. \A b \in Candidates' : b <= displaced'[backups'[b].db.schema].at
  BY <1>4, <1>5, <1>7 DEF LatestKnown
<1>9. ASSUME NEW s \in Schemas, displaced'[s].at # 0
      PROVE  /\ displaced'[s].at \in DOMAIN backups'
             /\ \/ Cardinality(Newer(s)') >= KeptSchemas
                \/ /\ displaced'[s].at \in Candidates'
                   /\ backups'[displaced'[s].at].db.schema = s
                   /\ displaced'[s].rows \subseteq backups'[displaced'[s].at].db.rows
  <2>1. displaced[s].at \in DOMAIN backups
    BY <1>7, <1>9 DEF LatestKnown
  <2>2. \/ Cardinality(Newer(s)) >= KeptSchemas
        \/ /\ displaced[s].at \in Candidates
           /\ backups[displaced[s].at].db.schema = s
           /\ displaced[s].rows \subseteq backups[displaced[s].at].db.rows
    BY <1>7, <1>9 DEF LatestKnown
  <2> QED BY <2>1, <2>2, <1>2, <1>4, <1>5, <1>6
<1>10. LatestKnown'
  BY <1>8, <1>9 DEF LatestKnown
<1> QED BY <1>3, <1>10

LEMMA PreserveInv == ASSUME IInv, NEW p \in Procs, Preserve(p) PROVE IInv'
<1> DEFINE r == proc[p]
<1>1. /\ r \in Process /\ Fine(p) /\ r.step = "preserve" /\ proc \in [Procs -> Process]
      /\ lease = p /\ r.mine = 0 /\ r.swap = 0
  BY RecordTyped DEF Preserve, At, IInv, TypeOK, Waiting, Fine, Owns, Swapping
<1>2. /\ UNCHANGED <<main, wal, aside, evidence, journal, lease, swaps, row, faults, harmed,
                     displaced>>
  BY DEF Preserve
<1>3. CASE Sound
  <2> DEFINE b == [db |-> Snapshot, listed |-> FALSE, there |-> TRUE,
                   kind |-> IF r.reason = "backup" THEN "manual" ELSE "automatic"]
             k == Len(backups')
             n == [r EXCEPT !.step = "list", !.mine = k, !.saw = main.rows \cup wal,
                            !.at = row]
  <2>1. /\ main \in Db /\ wal \in SUBSET Rows /\ main.is = "sound" /\ main # NoDb
    BY <1>3 DEF IInv, TypeOK, Sound
  <2>2. /\ Snapshot \in Db /\ Snapshot.schema = main.schema /\ Snapshot.is = "sound"
        /\ Snapshot.rows = main.rows \cup wal
    BY <2>1, ContentsIs DEF Snapshot
  <2>3. /\ b \in Backup /\ b.db = Snapshot /\ ~b.listed /\ b.there
        /\ b.kind = IF r.reason = "backup" THEN "manual" ELSE "automatic"
    BY <2>2 DEF Backup
  <2>4. backups' = Append(backups, b) /\ proc' = [proc EXCEPT ![p] = n]
    BY <1>1, <1>3 DEF Preserve
  <2> HIDE DEF b
  <2>5. /\ backups' \in Seq(Backup) /\ k = Len(backups) + 1 /\ k \in Nat /\ backups'[k] = b
        /\ DOMAIN backups' = 1..k
        /\ \A i \in 1..Len(backups) : backups'[i] = backups[i]
    BY <2>3, <2>4, BackupsTyped
  <2> HIDE DEF k
  <2>6. /\ n \in Process /\ n.step = "list" /\ n.mine = k /\ n.saw = main.rows \cup wal
        /\ n.at = row /\ n.reason = r.reason /\ n.stage = r.stage /\ n.swap = r.swap
        /\ n.keep = r.keep
    <3>1. main.rows \cup wal \in SUBSET Rows
      BY <2>1 DEF Db
    <3> QED BY <1>1, <2>5, <3>1, CountersTyped DEF Process, Steps
  <2> HIDE DEF n
  <2>7. Becomes(p, n)
    BY <1>1, <1>2, <2>4, <2>6 DEF Becomes, Waiting
  <2>8. /\ proc' \in [Procs -> Process] /\ lease' \in Procs \cup {Nobody}
        /\ \A q \in Procs :
             proc'[q].step \notin {"idle", "open", "queue"} <=> lease' = q
        /\ proc'[p] = n /\ \A q \in Procs \ {p} : proc'[q] = proc[q]
    BY <2>6, <2>7, BecomesTyped DEF IInv
  <2>9. TypeOK'
    BY <1>2, <2>5, <2>8 DEF IInv, TypeOK
  <2>10. PathsClear'
    BY <1>2, <2>6, <2>8 DEF IInv, PathsClear, At
  <2>11. BackupsSound' /\ LatestKnown'
    <3>1. k \notin Candidates /\ \A s \in Schemas : displaced[s].at # k
      BY <2>5, BackupsTyped DEF Candidates
    <3>2. k \in DOMAIN backups' /\ Len(backups') >= Len(backups)
      BY <2>5, BackupsTyped DEF k
    <3>3. \A i \in DOMAIN backups' : i # k => i \in DOMAIN backups /\ backups'[i] = backups[i]
      BY <2>5, BackupsTyped
    <3> QED BY <1>2, <2>2, <2>3, <2>5, <3>1, <3>2, <3>3, SameCandidates
  <2>12. DamagedIsKept'
    BY <1>2 DEF IInv, DamagedIsKept
  <2>13. Fine(p)'
    <3>1. Len(backups') = k
      BY DEF k
    <3>2. Owns(proc[p])'
      BY <1>1, <1>2, <2>5, <2>6, <2>8, <3>1, CountersTyped DEF Fine, Owns, Swapping, Staging
    <3>3. Listing(proc[p])'
      <4>1. k # 0 /\ \A s \in Schemas : displaced[s].at < k
        BY <2>5, BackupsTyped
      <4> QED BY <1>2, <2>2, <2>3, <2>5, <2>6, <2>8, <3>1, <4>1 DEF Listing
    <3>4. Spares(proc[p])'
      BY <1>2, <2>1, <2>6, <2>8 DEF Spares, Harmed, Displacing
    <3>5. Undisturbed(proc[p])'
      BY <1>2, <2>1, <2>2, <2>3, <2>5, <2>6, <2>8 DEF Undisturbed, Whole, Displacing
    <3> QED BY <3>2, <3>3, <3>4, <3>5 DEF Fine
  <2>14. \A q \in Procs \ {p} : Fine(q)'
    <3>1. Len(backups') \in Nat /\ Len(backups') >= Len(backups)
      BY <2>5, BackupsTyped DEF k
    <3> QED BY <1>1, <1>2, <2>8, <3>1, OthersFine, CountersTyped
  <2> QED BY <2>9, <2>10, <2>11, <2>12, <2>13, <2>14 DEF IInv, Fine
<1>4. CASE ~Sound
  <2> DEFINE n == [r EXCEPT !.step = "journal", !.keep = main # NoDb]
  <2>1. /\ proc' = [proc EXCEPT ![p] = n] /\ backups' = backups /\ r.reason # "backup"
    BY <1>1, <1>4 DEF Preserve
  <2>2. /\ n \in Process /\ n.step = "journal" /\ n.reason = r.reason /\ n.stage = r.stage
        /\ n.mine = r.mine /\ n.at = r.at /\ n.swap = r.swap /\ n.keep = (main # NoDb)
    BY <1>1 DEF Process, Steps
  <2> HIDE DEF n
  <2>3. Becomes(p, n)
    BY <1>1, <1>2, <2>1, <2>2 DEF Becomes, Waiting
  <2>4. proc'[p] = n
    BY <2>2, <2>3, BecomesTyped DEF IInv
  <2>5. Fine(p)'
    BY <1>1, <1>2, <2>1, <2>2, <2>4, CountersTyped
    DEF Fine, Owns, Listing, Spares, Harmed, Undisturbed, Swapping, Displacing, Staging
  <2> QED BY <1>2, <2>1, <2>2, <2>3, <2>5, StepOnly, CountersTyped
<1> QED BY <1>3, <1>4

(* More schemas are newer when one of them becomes the newest.              *)
LEMMA NewerGrows ==
  ASSUME NEW s \in Schemas, NEW S, NEW T, S \subseteq T, T \subseteq Schemas,
         Cardinality(S) >= KeptSchemas
  PROVE  Cardinality(T) >= KeptSchemas
<1>1. IsFiniteSet(Schemas)
  BY IndexAssumption, FS_Interval DEF Schemas
<1>2. IsFiniteSet(T)
  BY <1>1, FS_Subset
<1>3. Cardinality(S) <= Cardinality(T) /\ IsFiniteSet(S)
  BY <1>2, FS_Subset
<1>4. Cardinality(S) \in Nat /\ Cardinality(T) \in Nat
  BY <1>2, <1>3, FS_CardinalityType
<1> QED BY <1>3, <1>4, IndexAssumption

LEMMA ListBackupInv == ASSUME IInv, NEW p \in Procs, ListBackup(p) PROVE IInv'
<1> DEFINE r == proc[p]
           b == r.mine
           s == backups[b].db.schema
           e == [backups[b] EXCEPT !.listed = TRUE]
<1>1. /\ r \in Process /\ Fine(p) /\ r.step = "list" /\ proc \in [Procs -> Process]
      /\ lease = p
  BY RecordTyped DEF ListBackup, At, IInv, TypeOK, Waiting
<1>2. /\ UNCHANGED <<main, wal, aside, evidence, journal, swaps, row, faults, harmed>>
      /\ backups' = [backups EXCEPT ![b].listed = TRUE]
  BY DEF ListBackup
<1>3. /\ b = Len(backups) /\ b # 0 /\ backups[b].there /\ backups[b].db.rows = r.saw
      /\ backups[b].kind = (IF r.reason = "backup" THEN "manual" ELSE "automatic")
      /\ \A t \in Schemas : displaced[t].at < b
  BY <1>1 DEF Fine, Listing
<1>4. b \in 1..Len(backups) /\ b \in Nat /\ backups[b] \in Backup
  BY <1>3, BackupsTyped
<1>5. /\ e \in Backup /\ e.db = backups[b].db /\ e.kind = backups[b].kind
      /\ e.listed = TRUE /\ e.there = backups[b].there
  BY <1>4 DEF Backup
<1>6. /\ backups' = [backups EXCEPT ![b] = e]
  BY <1>2, <1>4, BackupsTyped
<1> HIDE DEF e
<1>7. /\ backups' \in Seq(Backup) /\ Len(backups') = Len(backups)
      /\ DOMAIN backups' = 1..Len(backups) /\ backups'[b] = e
      /\ \A i \in 1..Len(backups) : i # b => backups'[i] = backups[i]
  BY <1>4, <1>5, <1>6, BackupsTyped
<1>8. /\ s \in Schemas /\ backups[b].db.is = "sound"
  BY <1>4, BackupsTyped, BackupFields DEF Db
<1>9. b \notin Candidates
  BY <1>3, <1>8, BackupsTyped DEF IInv, LatestKnown
<1>10. \A i \in DOMAIN backups' : i # b => i \in DOMAIN backups /\ backups'[i] = backups[i]
  BY <1>7, BackupsTyped
<1>11. DamagedIsKept'
  BY <1>2 DEF IInv, DamagedIsKept
<1>12. CASE backups[b].kind = "manual"
  <2>1. Ends(p) /\ UNCHANGED displaced
    BY <1>12 DEF ListBackup
  <2>2. Becomes(p, Idle)
    BY <2>1, EndsBecomes
  <2>3. /\ proc' \in [Procs -> Process] /\ lease' \in Procs \cup {Nobody}
        /\ \A q \in Procs :
             proc'[q].step \notin {"idle", "open", "queue"} <=> lease' = q
        /\ proc'[p] = Idle /\ \A q \in Procs \ {p} : proc'[q] = proc[q]
    BY <2>2, IdleIs, BecomesTyped DEF IInv
  <2>4. TypeOK'
    BY <1>2, <1>7, <2>1, <2>3 DEF IInv, TypeOK
  <2>5. PathsClear'
    BY <1>2, <2>3, IdleIs DEF IInv, PathsClear, At
  <2>6. BackupsSound' /\ LatestKnown'
    <3>1. /\ b \in DOMAIN backups' /\ Len(backups') >= Len(backups)
          /\ \A t \in Schemas : displaced[t].at # b
      <4>1. \A t \in Schemas : displaced[t].at \in Nat /\ displaced[t].at < b
        BY <1>3, BackupsTyped
      <4> QED BY <1>4, <1>7, <4>1, BackupsTyped
    <3>2. /\ backups'[b].kind # "automatic" /\ backups'[b].db.is = "sound"
      BY <1>5, <1>7, <1>8, <1>12
    <3> HIDE DEF b
    <3> QED BY <1>7, <1>9, <1>10, <2>1, <3>1, <3>2, SameCandidates
  <2>7. Fine(p)'
    BY <1>2, <1>7, <2>3, IdleFine, CountersTyped
  <2>8. \A q \in Procs \ {p} : Fine(q)'
    BY <1>1, <1>2, <1>7, <2>3, OthersFine, CountersTyped
  <2> QED BY <1>11, <2>4, <2>5, <2>6, <2>7, <2>8 DEF IInv, Fine
<1>13. CASE backups[b].kind # "manual"
  <2> DEFINE n == [r EXCEPT !.step = "journal"]
             d == [at |-> b, rows |-> r.saw]
  <2>1. /\ Goto(p, "journal") /\ lease' = lease
        /\ displaced' = [displaced EXCEPT ![s] = d]
    BY <1>13 DEF ListBackup
  <2>2. /\ n \in Process /\ n.step = "journal" /\ n.reason = r.reason /\ n.stage = r.stage
        /\ n.mine = r.mine /\ n.saw = r.saw /\ n.at = r.at /\ n.keep = r.keep
        /\ n.swap = r.swap
    BY <1>1 DEF Process, Steps
  <2>3. proc' = [proc EXCEPT ![p] = n]
    BY <2>1, GotoIs DEF IInv, Steps
  <2> HIDE DEF n
  <2>4. Becomes(p, n)
    BY <1>1, <2>1, <2>2, <2>3 DEF Becomes, Waiting
  <2>5. /\ proc' \in [Procs -> Process] /\ lease' \in Procs \cup {Nobody}
        /\ \A q \in Procs :
             proc'[q].step \notin {"idle", "open", "queue"} <=> lease' = q
        /\ proc'[p] = n /\ \A q \in Procs \ {p} : proc'[q] = proc[q]
    BY <2>2, <2>4, BecomesTyped DEF IInv
  <2>6. /\ displaced' \in [Schemas -> [at : Nat, rows : SUBSET Rows]]
        /\ displaced'[s] = d /\ d.at = b /\ d.rows = r.saw
        /\ \A t \in Schemas : t # s => displaced'[t] = displaced[t]
    <3>1. d \in [at : Nat, rows : SUBSET Rows] /\ d.at = b /\ d.rows = r.saw
      BY <1>4, RecordTyped
    <3> HIDE DEF d
    <3>2. displaced \in [Schemas -> [at : Nat, rows : SUBSET Rows]]
      BY BackupsTyped
    <3> QED BY <1>8, <2>1, <3>1, <3>2
  <2> HIDE DEF d
  <2>7. TypeOK'
    BY <1>2, <1>7, <2>5, <2>6 DEF IInv, TypeOK
  <2>8. PathsClear'
    BY <1>2, <2>2, <2>5 DEF IInv, PathsClear, At
  <2>9. BackupsSound'
    BY <1>5, <1>7, <1>8, BackupsTyped DEF BackupsSound
  <2>10. LatestKnown'
    <3>1. Candidates' = Candidates \cup {b}
      <4>1. backups[b].kind = "automatic"
        BY <1>4, <1>13, BackupFields
      <4> QED BY <1>3, <1>4, <1>5, <1>7, <4>1, BackupsTyped DEF Candidates
    <3>2. \A c \in Candidates : c # b /\ c \in 1..Len(backups) /\ backups'[c] = backups[c]
      BY <1>7, <1>9, BackupsTyped DEF Candidates
    <3>3. ASSUME NEW c \in Candidates' PROVE c <= displaced'[backups'[c].db.schema].at
      <4>1. CASE c = b
        BY <4>1, <1>4, <1>5, <1>7, <2>6
      <4>2. CASE c # b
        <5>1. c \in Candidates /\ c \in 1..Len(backups) /\ backups'[c] = backups[c]
          BY <3>1, <3>2, <4>2
        <5>2. c <= displaced[backups[c].db.schema].at
          BY <5>1 DEF IInv, LatestKnown
        <5>3. backups[c].db.schema \in Schemas
          BY <5>1, BackupsTyped, BackupFields DEF Db
        <5>4. c <= b
          BY <1>3, <5>1, BackupsTyped
        <5> QED BY <2>6, <5>1, <5>2, <5>3, <5>4
      <4> QED BY <4>1, <4>2
    <3>4. ASSUME NEW t \in Schemas, displaced'[t].at # 0
          PROVE  /\ displaced'[t].at \in DOMAIN backups'
                 /\ \/ Cardinality(Newer(t)') >= KeptSchemas
                    \/ /\ displaced'[t].at \in Candidates'
                       /\ backups'[displaced'[t].at].db.schema = t
                       /\ displaced'[t].rows \subseteq backups'[displaced'[t].at].db.rows
      <4>1. CASE t = s
        BY <4>1, <1>3, <1>4, <1>5, <1>7, <2>6, <3>1
      <4>2. CASE t # s
        <5>1. displaced'[t] = displaced[t] /\ displaced[t].at # 0
          BY <2>6, <3>4, <4>2
        <5>2. /\ displaced[t].at \in DOMAIN backups
              /\ \/ Cardinality(Newer(t)) >= KeptSchemas
                 \/ /\ displaced[t].at \in Candidates
                    /\ backups[displaced[t].at].db.schema = t
                    /\ displaced[t].rows \subseteq backups[displaced[t].at].db.rows
          BY <5>1 DEF IInv, LatestKnown
        <5>3. Newer(t) \subseteq Newer(t)' /\ Newer(t)' \subseteq Schemas
          <6>1. \A u \in Schemas : displaced'[u].at >= displaced[u].at
                  /\ displaced[u].at \in Nat /\ displaced'[u].at \in Nat
            BY <1>3, <1>4, <2>6, BackupsTyped
          <6> QED BY <5>1, <6>1 DEF Newer
        <5>4. Cardinality(Newer(t)) >= KeptSchemas => Cardinality(Newer(t)') >= KeptSchemas
          BY <5>3, NewerGrows
        <5> QED BY <5>1, <5>2, <5>4, <3>1, <3>2, <1>7, BackupsTyped
      <4> QED BY <4>1, <4>2
    <3> QED BY <3>3, <3>4 DEF LatestKnown
  <2>11. Fine(p)'
    <3>1. Owns(proc[p])'
      BY <1>1, <1>2, <1>3, <1>7, <1>13, <2>2, <2>5, CountersTyped
      DEF Fine, Owns, Swapping, Staging
    <3>2. Listing(proc[p])' /\ Spares(proc[p])'
      BY <1>1, <1>2, <2>2, <2>5 DEF Fine, Listing, Spares, Harmed, Displacing
    <3>3. Undisturbed(proc[p])'
      BY <1>1, <1>2, <1>5, <1>7, <2>2, <2>5 DEF Fine, Undisturbed, Whole, Displacing
    <3> QED BY <3>1, <3>2, <3>3 DEF Fine
  <2>12. \A q \in Procs \ {p} : Fine(q)'
    BY <1>1, <1>2, <1>7, <2>5, OthersFine, CountersTyped
  <2> QED BY <1>11, <2>7, <2>8, <2>9, <2>10, <2>11, <2>12 DEF IInv, Fine
<1> QED BY <1>12, <1>13

LEMMA GiveUpInv == ASSUME IInv, NEW p \in Procs, GiveUp(p) PROVE IInv'
<1> DEFINE m == proc[p].mine
<1>1. /\ Ends(p)
      /\ UNCHANGED <<main, wal, aside, evidence, journal, swaps, row, faults, harmed,
                     displaced>>
  BY DEF GiveUp
<1>2. CASE ~At(p, "list")
  BY <1>1, <1>2, EndsOnly, CountersTyped DEF GiveUp
<1>3. CASE At(p, "list")
  <2>1. backups' = [backups EXCEPT ![m] = Gone]
    BY <1>3 DEF GiveUp
  <2>2. /\ m = Len(backups) /\ m # 0 /\ \A s \in Schemas : displaced[s].at < m
        /\ lease = p
    BY <1>3, RecordTyped DEF Fine, Listing, At, Waiting
  <2> HIDE DEF m
  <2>3. /\ m \in 1..Len(backups) /\ m \in DOMAIN backups
    BY <2>2, BackupsTyped
  <2>4. /\ backups' \in Seq(Backup) /\ Len(backups') = Len(backups)
        /\ DOMAIN backups' = 1..Len(backups) /\ backups'[m] = Gone
        /\ \A i \in 1..Len(backups) : i # m => backups'[i] = backups[i]
    BY <2>1, <2>3, BackupsTyped, GoneIs
  <2>5. Becomes(p, Idle)
    BY <1>1, EndsBecomes
  <2>6. /\ proc' \in [Procs -> Process] /\ lease' \in Procs \cup {Nobody}
        /\ \A q \in Procs :
             proc'[q].step \notin {"idle", "open", "queue"} <=> lease' = q
        /\ proc'[p] = Idle /\ \A q \in Procs \ {p} : proc'[q] = proc[q]
    BY <2>5, IdleIs, BecomesTyped DEF IInv
  <2>7. TypeOK'
    BY <1>1, <2>4, <2>6 DEF IInv, TypeOK
  <2>8. PathsClear'
    BY <1>1, <2>6, IdleIs DEF IInv, PathsClear, At
  <2>9. BackupsSound' /\ LatestKnown'
    <3>1. \A s \in Schemas : displaced[s].at # m
      <4>1. \A s \in Schemas : displaced[s].at \in Nat /\ displaced[s].at < m
        BY <2>2, BackupsTyped
      <4> QED BY <2>3, <4>1, BackupsTyped
    <3>2. m \notin Candidates
      <4>1. backups[m].db.schema \in Schemas
        BY <2>3, BackupsTyped, BackupFields DEF Db
      <4>2. displaced[backups[m].db.schema].at \in Nat
            /\ displaced[backups[m].db.schema].at < m /\ m \in Nat
        BY <2>2, <2>3, <4>1, BackupsTyped
      <4>3. m \in Candidates => m <= displaced[backups[m].db.schema].at
        BY DEF IInv, LatestKnown
      <4> QED BY <4>2, <4>3
    <3>3. \A i \in DOMAIN backups' : i # m => i \in DOMAIN backups /\ backups'[i] = backups[i]
      BY <2>4, BackupsTyped
    <3>4. m \in DOMAIN backups' /\ Len(backups') >= Len(backups)
      BY <2>3, <2>4, BackupsTyped
    <3> QED BY <1>1, <2>4, <3>1, <3>2, <3>3, <3>4, GoneIs, SameCandidates
  <2>10. DamagedIsKept'
    BY <1>1 DEF IInv, DamagedIsKept
  <2>11. Fine(p)'
    BY <1>1, <2>4, <2>6, IdleFine, CountersTyped
  <2>12. \A q \in Procs \ {p} : Fine(q)'
    BY <1>1, <2>2, <2>4, <2>6, OthersFine, CountersTyped
  <2> QED BY <2>7, <2>8, <2>9, <2>10, <2>11, <2>12 DEF IInv, Fine
<1> QED BY <1>2, <1>3

-----------------------------------------------------------------------------
(* The swap. *)

(* In a swap the process has the lease and a rollback path that exists.     *)
LEMMA SwapTyped ==
  ASSUME IInv, NEW p \in Procs, proc[p].step \in Swapping
  PROVE  /\ lease = p /\ proc[p].swap \in 1..MaxSwaps /\ proc[p].swap <= swaps
         /\ aside \in [1..MaxSwaps -> Aside] /\ aside[proc[p].swap] \in Aside
         /\ aside[proc[p].swap].main \in Db \cup {NoDb}
         /\ aside[proc[p].swap].wal \in SUBSET Rows
<1>1. lease = p
  BY RecordTyped DEF Swapping, Waiting
<1>2. proc[p].swap \in Nat /\ proc[p].swap # 0 /\ proc[p].swap <= swaps
  BY RecordTyped DEF Fine, Owns
<1>3. proc[p].swap \in 1..MaxSwaps
  BY <1>2, CountersTyped, IndexAssumption
<1>4. aside \in [1..MaxSwaps -> Aside]
  BY DEF IInv, TypeOK
<1>5. aside[proc[p].swap] \in Aside
  BY <1>3, <1>4
<1> QED BY <1>1, <1>2, <1>3, <1>4, <1>5, AsideFields

LEMMA NothingIs == Nothing \in Aside /\ Nothing.main = NoDb /\ Nothing.wal = {}
  BY DEF Nothing, Aside

LEMMA WriteJournalInv == ASSUME IInv, NEW p \in Procs, WriteJournal(p) PROVE IInv'
<1> DEFINE r == proc[p]
           k == swaps + 1
           n == [r EXCEPT !.step = "move", !.swap = k]
<1>1. /\ r \in Process /\ Fine(p) /\ r.step = "journal" /\ proc \in [Procs -> Process]
      /\ lease = p /\ swaps < MaxSwaps /\ swaps' = k
      /\ UNCHANGED <<main, wal, aside, evidence, backups, lease, row, faults, harmed,
                     displaced>>
  BY RecordTyped DEF WriteJournal, At, IInv, TypeOK, Waiting
<1>2. k \in 1..MaxSwaps /\ k \in Nat /\ k > swaps
  BY <1>1, CountersTyped, IndexAssumption
<1>3. proc' = [proc EXCEPT ![p] = n] /\ journal' = [phase |-> "prepared", swap |-> k]
  BY <1>1 DEF WriteJournal
<1> HIDE DEF k
<1>4. /\ n \in Process /\ n.step = "move" /\ n.reason = r.reason /\ n.stage = r.stage
      /\ n.mine = r.mine /\ n.saw = r.saw /\ n.at = r.at /\ n.keep = r.keep /\ n.swap = k
  BY <1>1, <1>2 DEF Process, Steps
<1> HIDE DEF n
<1>5. Becomes(p, n)
  BY <1>1, <1>3, <1>4 DEF Becomes, Waiting
<1>6. /\ proc' \in [Procs -> Process] /\ lease' \in Procs \cup {Nobody}
      /\ \A q \in Procs :
           proc'[q].step \notin {"idle", "open", "queue"} <=> lease' = q
      /\ proc'[p] = n /\ \A q \in Procs \ {p} : proc'[q] = proc[q]
  BY <1>4, <1>5, BecomesTyped DEF IInv
<1>7. journal' \in [phase : Phases, swap : 1..MaxSwaps] \cup {NoJournal}
  BY <1>2, <1>3 DEF Phases
<1>8. swaps' \in 0..MaxSwaps
  BY <1>1, <1>2
<1>9. TypeOK'
  BY <1>1, <1>6, <1>7, <1>8 DEF IInv, TypeOK
<1>10. PathsClear'
  <2>1. \A s \in 1..MaxSwaps : s > swaps => aside[s] = Nothing
    BY DEF IInv, PathsClear
  <2>2. \A s \in 1..MaxSwaps : s > k => s > swaps
    BY <1>2, CountersTyped
  <2>3. \A q \in Procs \ {p} : ~At(q, "move")'
    BY <1>1, <1>6, IndexAssumption DEF At
  <2>4. \A s \in 1..MaxSwaps : s > k => aside[s] = Nothing
    BY <2>1, <2>2
  <2>5. aside[k] = Nothing
    BY <1>2, <2>1
  <2> QED BY <1>1, <1>4, <1>6, <2>3, <2>4, <2>5 DEF PathsClear
<1>11. BackupsSound' /\ LatestKnown'
  BY <1>1, SameBackups
<1>12. DamagedIsKept'
  BY <1>1 DEF IInv, DamagedIsKept
<1>13. Fine(p)'
  <2>1. Owns(proc[p])'
    BY <1>1, <1>2, <1>4, <1>6 DEF Fine, Owns, Swapping, Staging
  <2>2. Listing(proc[p])' /\ Spares(proc[p])'
    BY <1>1, <1>4, <1>6 DEF Fine, Listing, Spares, Harmed, Displacing
  <2>3. Undisturbed(proc[p])'
    BY <1>1, <1>4, <1>6 DEF Fine, Undisturbed, Whole, Displacing
  <2> QED BY <2>1, <2>2, <2>3 DEF Fine
<1>14. \A q \in Procs \ {p} : Fine(q)'
  BY <1>1, <1>2, <1>6, OthersFine, CountersTyped
<1> QED BY <1>9, <1>10, <1>11, <1>12, <1>13, <1>14 DEF IInv, Fine

(* A step of a swap that changes the files at the active path and at its    *)
(* own rollback path, and no others.                                        *)
LEMMA SwapStep ==
  ASSUME IInv, NEW p \in Procs, proc[p].step \in Swapping,
         NEW n \in Process, Becomes(p, n), n.step # "move",
         main' \in Db \cup {NoDb}, wal' \in SUBSET Rows, evidence' \in SUBSET Db,
         NEW a \in Aside, aside' = [aside EXCEPT ![proc[p].swap] = a],
         journal' \in [phase : Phases, swap : 1..MaxSwaps] \cup {NoJournal},
         faults' \in 0..MaxFaults,
         UNCHANGED <<backups, swaps, row, harmed, displaced>>,
         DamagedIsKept', aside'[proc[p].swap] = a /\ proc'[p] = n => Fine(p)'
  PROVE  IInv'
<1> DEFINE k == proc[p].swap
<1>1. /\ lease = p /\ k \in 1..MaxSwaps /\ k <= swaps /\ aside \in [1..MaxSwaps -> Aside]
      /\ k \in Nat
  BY SwapTyped
<1>2. /\ aside' \in [1..MaxSwaps -> Aside] /\ aside'[k] = a
      /\ \A s \in 1..MaxSwaps : s # k => aside'[s] = aside[s]
  BY <1>1
<1>3. /\ proc' \in [Procs -> Process] /\ lease' \in Procs \cup {Nobody}
      /\ \A q \in Procs :
           proc'[q].step \notin {"idle", "open", "queue"} <=> lease' = q
      /\ proc'[p] = n /\ \A q \in Procs \ {p} : proc'[q] = proc[q]
  BY BecomesTyped DEF IInv
<1>4. TypeOK'
  BY <1>2, <1>3 DEF IInv, TypeOK
<1>5. PathsClear'
  <2>1. \A q \in Procs : ~At(q, "move")'
    BY <1>1, <1>3, RecordTyped, IndexAssumption DEF At, Waiting
  <2>2. ASSUME NEW s \in 1..MaxSwaps, s > swaps PROVE aside'[s] = Nothing
    <3>1. s # k
      BY <1>1, <2>2, CountersTyped
    <3>2. aside[s] = Nothing
      BY <2>2 DEF IInv, PathsClear
    <3> QED BY <1>2, <3>1, <3>2
  <2> QED BY <2>1, <2>2 DEF PathsClear
<1>6. BackupsSound' /\ LatestKnown'
  BY SameBackups
<1>7. Fine(p)'
  BY <1>2, <1>3
<1>8. \A q \in Procs \ {p} : Fine(q)'
  BY <1>1, <1>3, OthersFine, CountersTyped
<1> QED BY <1>4, <1>5, <1>6, <1>7, <1>8 DEF IInv, Fine

(* Where the damaged file is. *)
Somewhere == \/ \E db \in evidence : Harmed(db)
             \/ Harmed(main)
             \/ \E s \in 1..MaxSwaps : Harmed(aside[s].main)

LEMMA SomewhereIs == IInv /\ harmed => Somewhere
<1> SUFFICES ASSUME IInv, harmed PROVE Somewhere
  OBVIOUS
<1>1. PICK db \in evidence \cup {main} \cup {aside[s].main : s \in 1..MaxSwaps} :
        db # NoDb /\ db.is = "damaged"
  BY DEF IInv, DamagedIsKept
<1> QED BY <1>1 DEF Somewhere, Harmed

LEMMA SomewhereKept ==
  ASSUME harmed' => Somewhere'
  PROVE  DamagedIsKept'
  BY DEF Somewhere, DamagedIsKept, Harmed

LEMMA GoneOn ==
  ASSUME IInv, NEW p \in Procs, NEW s \in Steps, Goto(p, s), lease' = lease,
         proc[p].step \notin Waiting, s \notin Waiting,
         NEW n, n = [proc[p] EXCEPT !.step = s]
  PROVE  /\ n \in Process /\ n.step = s /\ n.reason = proc[p].reason
         /\ n.stage = proc[p].stage /\ n.mine = proc[p].mine /\ n.saw = proc[p].saw
         /\ n.at = proc[p].at /\ n.keep = proc[p].keep /\ n.swap = proc[p].swap
         /\ Becomes(p, n)
<1>1. /\ n \in Process /\ n.step = s /\ n.reason = proc[p].reason
      /\ n.stage = proc[p].stage /\ n.mine = proc[p].mine /\ n.saw = proc[p].saw
      /\ n.at = proc[p].at /\ n.keep = proc[p].keep /\ n.swap = proc[p].swap
  BY RecordTyped, StepTo
<1>2. proc' = [proc EXCEPT ![p] = n]
  BY GotoIs DEF IInv
<1>3. Becomes(p, n)
  BY <1>1, <1>2, RecordTyped DEF Becomes
<1> QED BY <1>1, <1>3

LEMMA MoveMainInv == ASSUME IInv, NEW p \in Procs, MoveMain(p) PROVE IInv'
<1> DEFINE r == proc[p]
           k == r.swap
           a == [aside[k] EXCEPT !.main = main]
<1>1. PICK n : n = [r EXCEPT !.step = "movewal"]
  OBVIOUS
<1>2. /\ r.step = "move" /\ Goto(p, "movewal") /\ main' = NoDb
      /\ UNCHANGED <<wal, evidence, backups, journal, lease, swaps, row, faults, harmed,
                     displaced>>
      /\ r.step \in Swapping /\ r.step \notin Waiting
      /\ "movewal" \in Steps /\ "movewal" \notin Waiting
  BY DEF MoveMain, At, Swapping, Waiting, Steps
<1>3. /\ n \in Process /\ n.step = "movewal" /\ n.reason = r.reason /\ n.stage = r.stage
      /\ n.mine = r.mine /\ n.saw = r.saw /\ n.at = r.at /\ n.keep = r.keep /\ n.swap = k
      /\ Becomes(p, n)
  BY <1>1, <1>2, GoneOn
<1>4. /\ k \in 1..MaxSwaps /\ aside \in [1..MaxSwaps -> Aside] /\ aside[k] = Nothing
      /\ main \in Db \cup {NoDb} /\ wal \in SUBSET Rows /\ evidence \in SUBSET Db
  BY <1>2, SwapTyped DEF IInv, PathsClear, At, TypeOK
<1>5. a \in Aside /\ a.main = main /\ a.wal = {}
  BY <1>4, NothingIs DEF Aside
<1>6. aside' = [aside EXCEPT ![k] = a]
  BY <1>4 DEF MoveMain
<1> HIDE DEF a
<1>7. /\ aside'[k] = a /\ \A s \in 1..MaxSwaps : s # k => aside'[s] = aside[s]
  BY <1>4, <1>6
<1>8. DamagedIsKept'
  <2>1. ASSUME harmed PROVE Somewhere'
    <3>1. Somewhere
      BY <2>1, SomewhereIs
    <3>2. CASE \E db \in evidence : Harmed(db)
      BY <1>2, <3>2 DEF Somewhere, Harmed
    <3>3. CASE Harmed(main)
      BY <1>4, <1>5, <1>7, <3>3 DEF Somewhere, Harmed
    <3>4. CASE \E s \in 1..MaxSwaps : Harmed(aside[s].main)
      <4>1. PICK s \in 1..MaxSwaps : Harmed(aside[s].main)
        BY <3>4
      <4>2. s # k
        BY <1>4, <4>1, NothingIs DEF Harmed
      <4> QED BY <1>7, <4>1, <4>2 DEF Somewhere, Harmed
    <3> QED BY <3>1, <3>2, <3>3, <3>4 DEF Somewhere
  <2> QED BY <1>2, <2>1, SomewhereKept
<1>9. ASSUME aside'[k] = a, proc'[p] = n PROVE Fine(p)'
  <2>1. Fine(p)
    BY RecordTyped
  <2>2. Owns(proc[p])'
    BY <1>2, <1>3, <1>9, <2>1 DEF Fine, Owns, Swapping, Staging
  <2>3. Listing(proc[p])' /\ Spares(proc[p])'
    BY <1>2, <1>3, <1>5, <1>9, <2>1 DEF Fine, Listing, Spares, Harmed, Displacing
  <2>4. Undisturbed(proc[p])'
    BY <1>2, <1>3, <1>5, <1>9, <2>1 DEF Fine, Undisturbed, Whole, Displacing
  <2> QED BY <2>2, <2>3, <2>4 DEF Fine
<1> QED BY <1>2, <1>3, <1>4, <1>5, <1>6, <1>8, <1>9, CountersTyped, SwapStep

LEMMA MoveWalInv == ASSUME IInv, NEW p \in Procs, MoveWal(p) PROVE IInv'
<1> DEFINE r == proc[p]
           k == r.swap
           a == [aside[k] EXCEPT !.wal = wal]
<1>1. PICK n : n = [r EXCEPT !.step = "noted"]
  OBVIOUS
<1>2. /\ r.step = "movewal" /\ Goto(p, "noted") /\ wal' = {}
      /\ UNCHANGED <<main, evidence, backups, journal, lease, swaps, row, faults, harmed,
                     displaced>>
      /\ r.step \in Swapping /\ r.step \notin Waiting
      /\ "noted" \in Steps /\ "noted" \notin Waiting
  BY DEF MoveWal, At, Swapping, Waiting, Steps
<1>3. /\ n \in Process /\ n.step = "noted" /\ n.reason = r.reason /\ n.stage = r.stage
      /\ n.mine = r.mine /\ n.saw = r.saw /\ n.at = r.at /\ n.keep = r.keep /\ n.swap = k
      /\ Becomes(p, n)
  BY <1>1, <1>2, GoneOn
<1>4. /\ k \in 1..MaxSwaps /\ aside \in [1..MaxSwaps -> Aside] /\ aside[k] \in Aside
      /\ main \in Db \cup {NoDb} /\ wal \in SUBSET Rows /\ evidence \in SUBSET Db
  BY <1>2, SwapTyped DEF IInv, TypeOK
<1>5. a \in Aside /\ a.main = aside[k].main /\ a.wal = wal
  BY <1>4 DEF Aside
<1>6. aside' = [aside EXCEPT ![k] = a]
  BY <1>4 DEF MoveWal
<1> HIDE DEF a
<1>7. /\ aside'[k] = a /\ \A s \in 1..MaxSwaps : aside'[s].main = aside[s].main
  BY <1>4, <1>5, <1>6
<1>8. DamagedIsKept'
  BY <1>2, <1>7, SomewhereIs, SomewhereKept DEF Somewhere, Harmed
<1>9. ASSUME aside'[k] = a, proc'[p] = n PROVE Fine(p)'
  <2>1. Fine(p)
    BY RecordTyped
  <2>2. Owns(proc[p])'
    BY <1>2, <1>3, <1>9, <2>1 DEF Fine, Owns, Swapping, Staging
  <2>3. Listing(proc[p])' /\ Spares(proc[p])'
    BY <1>2, <1>3, <1>5, <1>9, <2>1 DEF Fine, Listing, Spares, Harmed, Displacing
  <2>4. Undisturbed(proc[p])'
    BY <1>2, <1>3, <1>5, <1>9, <2>1 DEF Fine, Undisturbed, Whole, Displacing
  <2> QED BY <2>2, <2>3, <2>4 DEF Fine
<1> QED BY <1>2, <1>3, <1>4, <1>5, <1>6, <1>8, <1>9, CountersTyped, SwapStep

(* The staged copy is at the active path, or something like it.             *)
LEMMA PublishedInv ==
  ASSUME IInv, NEW p \in Procs, At(p, "publish"), Published(p),
         main' \in Db \cup {NoDb}, ~Harmed(main'), faults' \in 0..MaxFaults,
         UNCHANGED <<wal, aside, evidence, backups, journal, lease, swaps, row, harmed,
                     displaced>>
  PROVE  IInv'
<1> DEFINE r == proc[p]
           k == r.swap
           n == [r EXCEPT !.step = "published", !.stage = NoDb]
<1>1. /\ r \in Process /\ r.step = "publish" /\ lease = p /\ proc \in [Procs -> Process]
      /\ r.step \in Swapping
  BY RecordTyped DEF At, Waiting, IInv, TypeOK, Swapping
<1>2. /\ n \in Process /\ n.step = "published" /\ n.reason = r.reason
      /\ n.mine = r.mine /\ n.saw = r.saw /\ n.at = r.at /\ n.keep = r.keep /\ n.swap = k
  BY <1>1 DEF Process, Steps
<1>3. proc' = [proc EXCEPT ![p] = n]
  BY <1>1 DEF Published
<1> HIDE DEF n
<1>4. Becomes(p, n)
  BY <1>1, <1>2, <1>3 DEF Becomes, Waiting
<1>5. /\ k \in 1..MaxSwaps /\ aside \in [1..MaxSwaps -> Aside] /\ aside[k] \in Aside
      /\ wal \in SUBSET Rows /\ evidence \in SUBSET Db
  BY <1>1, SwapTyped DEF IInv, TypeOK
<1>6. PICK a \in Aside : a = aside[k]
  BY <1>5
<1>7. aside' = [aside EXCEPT ![k] = a]
  BY <1>5, <1>6
<1>8. Fine(p)
  BY RecordTyped
<1>9. DamagedIsKept'
  <2>1. ~Harmed(main)
    BY <1>1, <1>8 DEF Fine, Spares, Displacing
  <2> QED BY <2>1, SomewhereIs, SomewhereKept DEF Somewhere, Harmed
<1>10. ASSUME proc'[p] = n PROVE Fine(p)'
  <2>1. Owns(proc[p])'
    BY <1>1, <1>2, <1>8, <1>10 DEF Fine, Owns, Swapping, Staging
  <2>2. Listing(proc[p])' /\ Spares(proc[p])'
    BY <1>1, <1>2, <1>8, <1>10 DEF Fine, Listing, Spares, Harmed, Displacing
  <2>3. Undisturbed(proc[p])'
    BY <1>1, <1>2, <1>8, <1>10 DEF Fine, Undisturbed, Whole, Displacing
  <2> QED BY <2>1, <2>2, <2>3 DEF Fine
<1>11. /\ journal' \in [phase : Phases, swap : 1..MaxSwaps] \cup {NoJournal}
       /\ wal' \in SUBSET Rows /\ evidence' \in SUBSET Db /\ n.step # "move"
  BY <1>2, <1>5, CountersTyped
<1>12. UNCHANGED <<backups, swaps, row, harmed, displaced>>
  OBVIOUS
<1> QED BY ONLY IInv, p \in Procs, main' \in Db \cup {NoDb}, faults' \in 0..MaxFaults,
                a \in Aside, <1>1, <1>2, <1>4, <1>7, <1>9, <1>10, <1>11, <1>12, SwapStep

LEMMA PublishInv ==
  ASSUME IInv, NEW p \in Procs, Publish(p) \/ PublishTears(p)
  PROVE  IInv'
<1>1. At(p, "publish")
  BY DEF Publish, PublishTears
<1>2. proc[p].stage \in Db /\ proc[p].stage.is = "sound"
  BY <1>1, RecordTyped DEF At, Fine, Owns, Staging
<1>3. CASE Publish(p)
  BY <1>1, <1>2, <1>3, PublishedInv, CountersTyped DEF Publish, Harmed
<1>4. CASE PublishTears(p)
  <2>1. faults' \in 0..MaxFaults
    BY <1>4, CountersTyped, IndexAssumption DEF PublishTears, Fault
  <2>2. main' \in Db /\ main'.is = "torn"
    BY <1>2, <1>4 DEF PublishTears, Db
  <2> QED BY <1>1, <1>4, <2>1, <2>2, PublishedInv DEF PublishTears, Harmed
<1> QED BY <1>3, <1>4

LEMMA ClearInv == ASSUME IInv, NEW p \in Procs, Clear(p) PROVE IInv'
<1> DEFINE r == proc[p]
           k == r.swap
<1>1. PICK n : n = [r EXCEPT !.step = "complete"]
  OBVIOUS
<1>2. /\ r.step = "validate" /\ Goto(p, "complete") /\ evidence' = evidence \cup Kept(p)
      /\ aside' = [aside EXCEPT ![k] = Nothing]
      /\ UNCHANGED <<main, wal, backups, journal, lease, swaps, row, faults, harmed,
                     displaced>>
      /\ r.step \in Swapping /\ r.step \notin Waiting
      /\ "complete" \in Steps /\ "complete" \notin Waiting
  BY DEF Clear, At, Swapping, Waiting, Steps
<1>3. /\ n \in Process /\ n.step = "complete" /\ n.reason = r.reason /\ n.stage = r.stage
      /\ n.mine = r.mine /\ n.saw = r.saw /\ n.at = r.at /\ n.keep = r.keep /\ n.swap = k
      /\ Becomes(p, n)
  BY <1>1, <1>2, GoneOn
<1>4. /\ k \in 1..MaxSwaps /\ aside \in [1..MaxSwaps -> Aside] /\ aside[k] \in Aside
      /\ aside[k].main \in Db \cup {NoDb} /\ aside[k].wal \in SUBSET Rows
      /\ main \in Db \cup {NoDb} /\ wal \in SUBSET Rows /\ evidence \in SUBSET Db
  BY <1>2, SwapTyped DEF IInv, TypeOK
<1>5. /\ Kept(p) \in SUBSET Db
      /\ Harmed(aside[k].main) => \E db \in Kept(p) : Harmed(db)
  <2>1. CASE r.keep /\ aside[k].main # NoDb
    <3>1. Kept(p) = {Contents(aside[k].main, aside[k].wal)}
      BY <2>1 DEF Kept
    <3>2. /\ Contents(aside[k].main, aside[k].wal) \in Db
          /\ Contents(aside[k].main, aside[k].wal).is = aside[k].main.is
      BY <1>4, <2>1, ContentsIs
    <3> QED BY <3>1, <3>2, NoDbAssumption DEF Harmed
  <2>2. CASE ~(r.keep /\ aside[k].main # NoDb)
    <3>1. Kept(p) = {}
      BY <2>2 DEF Kept
    <3>2. Harmed(aside[k].main) => r.keep
      BY <1>2, RecordTyped DEF Fine, Spares, Displacing
    <3> QED BY <2>2, <3>1, <3>2 DEF Harmed
  <2> QED BY <2>1, <2>2
<1>6. \A s \in 1..MaxSwaps : s # k => aside'[s] = aside[s]
  BY <1>2, <1>4
<1>7. DamagedIsKept'
  <2>1. ASSUME harmed PROVE Somewhere'
    <3>1. Somewhere
      BY <2>1, SomewhereIs
    <3>2. CASE \E db \in evidence : Harmed(db)
      BY <1>2, <3>2 DEF Somewhere, Harmed
    <3>3. CASE Harmed(main)
      BY <1>2, <3>3 DEF Somewhere, Harmed
    <3>4. CASE \E s \in 1..MaxSwaps : Harmed(aside[s].main)
      BY <1>2, <1>5, <1>6, <3>4 DEF Somewhere, Harmed
    <3> QED BY <3>1, <3>2, <3>3, <3>4 DEF Somewhere
  <2> QED BY <1>2, <2>1, SomewhereKept
<1>8. ASSUME proc'[p] = n PROVE Fine(p)'
  <2>1. Fine(p)
    BY RecordTyped
  <2>2. Owns(proc[p])'
    BY <1>2, <1>3, <1>8, <2>1 DEF Fine, Owns, Swapping, Staging
  <2>3. Listing(proc[p])' /\ Spares(proc[p])' /\ Undisturbed(proc[p])'
    BY <1>3, <1>8 DEF Listing, Spares, Undisturbed, Displacing
  <2> QED BY <2>2, <2>3 DEF Fine
<1> QED BY <1>2, <1>3, <1>4, <1>5, <1>7, <1>8, NothingIs, CountersTyped, SwapStep

(* A backup that pruning removes has enough newer schemas before it.        *)
LEMMA PrunedAreOld ==
  ASSUME IInv, NEW s \in Schemas, displaced[s].at # 0,
         displaced[s].at \in Candidates, backups[displaced[s].at].db.schema = s,
         ~Stays(displaced[s].at)
  PROVE  Cardinality(Newer(s)) >= KeptSchemas
<1> DEFINE b == displaced[s].at
           over == {t \in Schemas : \E c \in Latest(t) : c > b}
<1>1. b \in Nat /\ b \in Candidates
  BY BackupsTyped
<1>2. b \in Latest(backups[b].db.schema)
  BY <1>1 DEF IInv, LatestKnown, Latest
<1>3. ~(Cardinality(over) < KeptSchemas)
  BY <1>2 DEF Stays
<1>4. over \subseteq Newer(s)
  <2>1. ASSUME NEW t \in over PROVE displaced[t].at > b
    <3>1. PICK c \in Latest(t) : c > b
      BY <2>1
    <3>2. c \in Candidates /\ backups[c].db.schema = t /\ c \in Nat
      BY <3>1, BackupsTyped DEF Latest, Candidates
    <3>3. c <= displaced[t].at
      BY <3>2 DEF IInv, LatestKnown
    <3>4. displaced[t].at \in Nat
      BY <2>1, BackupsTyped
    <3> QED BY <1>1, <3>1, <3>2, <3>3, <3>4
  <2> QED BY <2>1 DEF Newer
<1>5. over \subseteq Schemas /\ Newer(s) \subseteq Schemas
  BY DEF Newer
<1> HIDE DEF over
<1>6. Cardinality(over) \in Nat
  <2>1. IsFiniteSet(Schemas)
    BY IndexAssumption, FS_Interval DEF Schemas
  <2> QED BY <1>5, <2>1, FS_Subset, FS_CardinalityType
<1>7. Cardinality(over) >= KeptSchemas
  BY <1>3, <1>6, IndexAssumption
<1> QED BY <1>4, <1>5, <1>7, NewerGrows

LEMMA PruneInv == ASSUME IInv, NEW p \in Procs, Prune(p) PROVE IInv'
<1> DEFINE m == proc[p].mine
           stay == {b \in DOMAIN backups : b \notin Candidates \/ b = m \/ Stays(b)}
<1>1. /\ Ends(p) /\ lease = p
      /\ UNCHANGED <<main, wal, aside, evidence, journal, swaps, row, faults, harmed,
                     displaced>>
  BY RecordTyped DEF Prune, At, Waiting
<1>2. CASE m = 0
  BY <1>1, <1>2, EndsOnly, CountersTyped DEF Prune
<1>3. CASE m # 0
  <2>1. backups' = [b \in DOMAIN backups |-> IF b \in stay THEN backups[b] ELSE Gone]
    BY <1>3 DEF Prune
  <2>2. \A b \in DOMAIN backups : b \notin stay => b \in Candidates /\ ~Stays(b)
    OBVIOUS
  <2> HIDE DEF stay, m
  <2>3. /\ backups' \in Seq(Backup) /\ Len(backups') = Len(backups)
        /\ DOMAIN backups' = 1..Len(backups) /\ DOMAIN backups = 1..Len(backups)
        /\ \A i \in 1..Len(backups) : backups'[i] = IF i \in stay THEN backups[i] ELSE Gone
    BY <2>1, BackupsTyped, GoneIs
  <2>4. Becomes(p, Idle)
    BY <1>1, EndsBecomes
  <2>5. /\ proc' \in [Procs -> Process] /\ lease' \in Procs \cup {Nobody}
        /\ \A q \in Procs :
             proc'[q].step \notin {"idle", "open", "queue"} <=> lease' = q
        /\ proc'[p] = Idle /\ \A q \in Procs \ {p} : proc'[q] = proc[q]
    BY <2>4, IdleIs, BecomesTyped DEF IInv
  <2>6. TypeOK'
    BY <1>1, <2>3, <2>5 DEF IInv, TypeOK
  <2>7. PathsClear'
    BY <1>1, <2>5, IdleIs DEF IInv, PathsClear, At
  <2>8. BackupsSound'
    BY <2>3, BackupsTyped, GoneIs DEF BackupsSound
  <2>9. Candidates' = Candidates \cap stay
    BY <2>3, GoneIs DEF Candidates
  <2>10. LatestKnown'
    <3>1. \A c \in Candidates' : backups'[c] = backups[c] /\ c \in Candidates
      BY <2>3, <2>9 DEF Candidates
    <3>2. ASSUME NEW c \in Candidates' PROVE c <= displaced'[backups'[c].db.schema].at
      BY <1>1, <3>1 DEF IInv, LatestKnown
    <3>3. ASSUME NEW s \in Schemas, displaced'[s].at # 0
          PROVE  /\ displaced'[s].at \in DOMAIN backups'
                 /\ \/ Cardinality(Newer(s)') >= KeptSchemas
                    \/ /\ displaced'[s].at \in Candidates'
                       /\ backups'[displaced'[s].at].db.schema = s
                       /\ displaced'[s].rows \subseteq backups'[displaced'[s].at].db.rows
      <4>1. displaced'[s] = displaced[s] /\ Newer(s)' = Newer(s) /\ displaced[s].at # 0
        BY <1>1, <3>3 DEF Newer
      <4>2. /\ displaced[s].at \in DOMAIN backups
            /\ \/ Cardinality(Newer(s)) >= KeptSchemas
               \/ /\ displaced[s].at \in Candidates
                  /\ backups[displaced[s].at].db.schema = s
                  /\ displaced[s].rows \subseteq backups[displaced[s].at].db.rows
        BY <4>1 DEF IInv, LatestKnown
      <4>3. CASE Cardinality(Newer(s)) >= KeptSchemas
        BY <2>3, <4>1, <4>2, <4>3
      <4>4. CASE displaced[s].at \in stay
        BY <2>3, <2>9, <4>1, <4>2, <4>4
      <4>5. CASE ~(Cardinality(Newer(s)) >= KeptSchemas) /\ displaced[s].at \notin stay
        <5>1. ~Stays(displaced[s].at)
          BY <2>2, <4>2, <4>5
        <5> QED BY <4>1, <4>2, <4>5, <5>1, PrunedAreOld
      <4> QED BY <4>3, <4>4, <4>5
    <3> QED BY <3>2, <3>3 DEF LatestKnown
  <2>11. DamagedIsKept'
    BY <1>1 DEF IInv, DamagedIsKept
  <2>12. Fine(p)'
    BY <1>1, <2>3, <2>5, IdleFine, CountersTyped
  <2>13. \A q \in Procs \ {p} : Fine(q)'
    BY <1>1, <2>3, <2>5, OthersFine, CountersTyped
  <2> QED BY <2>6, <2>7, <2>8, <2>10, <2>11, <2>12, <2>13 DEF IInv, Fine
<1> QED BY <1>2, <1>3

-----------------------------------------------------------------------------
(* Failures. *)

(* Renaming back: what is not stuck is at the active path again, what is    *)
(* stuck is at the rollback path still.                                     *)
LEMMA PutBackIs ==
  ASSUME IInv, NEW p \in Procs, proc[p].step \in Swapping,
         NEW here \in Db \cup {NoDb}, NEW stuck \in SUBSET Parts(p),
         PutBack(p, here, stuck)
  PROVE  LET k == proc[p].swap
             a == aside[k]
         IN  /\ main' \in Db \cup {NoDb} /\ wal' \in SUBSET Rows
             /\ \E b \in Aside :
                  /\ aside' = [aside EXCEPT ![k] = b]
                  /\ aside'[k] = b
                  /\ \/ main' = a.main /\ a.main # NoDb
                     \/ main' = here /\ b.main = a.main
                  /\ a = Nothing => main' = here /\ wal' = wal /\ b = Nothing
                  /\ stuck = {} /\ a.main # NoDb => main' = a.main
                  /\ stuck = {} => a.wal \subseteq wal'
                  /\ a.wal = {} => wal' = wal
<1> DEFINE k == proc[p].swap
           a == aside[k]
           back == Parts(p) \ stuck
           b == [main |-> IF "main" \in back THEN NoDb ELSE a.main,
                 wal |-> IF "wal" \in back THEN {} ELSE a.wal]
<1>1. /\ k \in 1..MaxSwaps /\ aside \in [1..MaxSwaps -> Aside] /\ a \in Aside
      /\ a.main \in Db \cup {NoDb} /\ a.wal \in SUBSET Rows /\ wal \in SUBSET Rows
  BY SwapTyped DEF IInv, TypeOK
<1>2. b \in Aside /\ b.main = (IF "main" \in back THEN NoDb ELSE a.main)
  BY <1>1 DEF Aside
<1>3. /\ main' = IF "main" \in back THEN a.main ELSE here
      /\ wal' = IF "wal" \in back THEN a.wal ELSE wal
      /\ aside' = [aside EXCEPT ![k] = b]
  BY DEF PutBack
<1>4. /\ "main" \in Parts(p) <=> a.main # NoDb
      /\ "wal" \in Parts(p) <=> a.wal # {}
  BY DEF Parts
<1>5. a = Nothing => b = Nothing
  BY <1>4, NothingIs DEF Nothing
<1>6. aside'[k] = b
  BY <1>1, <1>3
<1>7. stuck = {} => back = Parts(p)
  OBVIOUS
<1>8. "main" \in back => a.main # NoDb
  BY <1>4
<1>9. a = Nothing => "main" \notin back /\ "wal" \notin back
  BY <1>4, NothingIs
<1>10. stuck = {} => a.wal \subseteq wal'
  BY <1>3, <1>4, <1>7
<1>11. stuck = {} /\ a.main # NoDb => main' = a.main
  BY <1>3, <1>4, <1>7
<1>12. main' \in Db \cup {NoDb} /\ wal' \in SUBSET Rows
  BY <1>1, <1>3
<1>13. \/ main' = a.main /\ a.main # NoDb
       \/ main' = here /\ b.main = a.main
  BY <1>2, <1>3, <1>8
<1>14. a = Nothing => main' = here /\ wal' = wal /\ b = Nothing
  BY <1>3, <1>5, <1>9
<1>15. aside' = [aside EXCEPT ![k] = b]
  BY <1>3
<1>16. a.wal = {} => wal' = wal
  BY <1>3, <1>4
<1>17. PICK c \in Aside : c = b
  BY <1>2
<1> HIDE DEF b, back, a, k
<1>18. /\ aside' = [aside EXCEPT ![k] = c]
       /\ aside'[k] = c
       /\ \/ main' = a.main /\ a.main # NoDb
          \/ main' = here /\ c.main = a.main
       /\ a = Nothing => main' = here /\ wal' = wal /\ c = Nothing
       /\ stuck = {} /\ a.main # NoDb => main' = a.main
       /\ stuck = {} => a.wal \subseteq wal'
       /\ a.wal = {} => wal' = wal
  BY <1>6, <1>10, <1>11, <1>13, <1>14, <1>15, <1>17, <1>16
<1>19. \E e \in Aside :
         /\ aside' = [aside EXCEPT ![k] = e]
         /\ aside'[k] = e
         /\ \/ main' = a.main /\ a.main # NoDb
            \/ main' = here /\ e.main = a.main
         /\ a = Nothing => main' = here /\ wal' = wal /\ e = Nothing
         /\ stuck = {} /\ a.main # NoDb => main' = a.main
         /\ stuck = {} => a.wal \subseteq wal'
         /\ a.wal = {} => wal' = wal
  BY <1>18
<1> QED BY <1>12, <1>19 DEF a, k

LEMMA StuckTyped ==
  ASSUME IInv, NEW p \in Procs, NEW already \in Nat, NEW stuck \in Stuck(p, already)
  PROVE  /\ stuck \in SUBSET Parts(p) /\ Cardinality(stuck) \in Nat
         /\ faults + already + Cardinality(stuck) \in 0..MaxFaults
         /\ Cardinality(stuck) = 0 => stuck = {}
<1>1. stuck \in SUBSET Parts(p) /\ faults + already + Cardinality(stuck) <= MaxFaults
  BY DEF Stuck
<1>2. stuck \subseteq {"main", "wal"}
  BY <1>1 DEF Parts
<1>3. IsFiniteSet({"main", "wal"})
  <2>1. IsFiniteSet({"main"}) /\ IsFiniteSet({"wal"})
    BY FS_Singleton
  <2>2. {"main", "wal"} = {"main"} \cup {"wal"}
    OBVIOUS
  <2> QED BY <2>1, <2>2, FS_Union
<1>4. IsFiniteSet(stuck)
  BY <1>2, <1>3, FS_Subset
<1>5. Cardinality(stuck) \in Nat /\ (Cardinality(stuck) = 0 => stuck = {})
  BY <1>4, FS_CardinalityType, FS_EmptySet
<1> QED BY <1>1, <1>5, CountersTyped, IndexAssumption

LEMMA PutBackInv ==
  ASSUME IInv, NEW p \in Procs, proc[p].step \in {"move"} \cup Displacing,
         NEW here \in {main, NoDb}, here = main \/ proc[p].step = "validate",
         NEW stuck \in SUBSET Parts(p), PutBack(p, here, stuck), Ends(p),
         journal' \in [phase : Phases, swap : 1..MaxSwaps] \cup {NoJournal},
         faults' \in 0..MaxFaults,
         UNCHANGED <<evidence, backups, swaps, row, harmed, displaced>>
  PROVE  IInv'
<1> DEFINE k == proc[p].swap
           a == aside[k]
<1>1. proc[p].step \in Swapping
  BY DEF Displacing, Swapping
<1>2. main \in Db \cup {NoDb} /\ evidence \in SUBSET Db
  BY DEF IInv, TypeOK
<1>3. /\ main' \in Db \cup {NoDb} /\ wal' \in SUBSET Rows
      /\ \E b \in Aside :
           /\ aside' = [aside EXCEPT ![k] = b]
           /\ aside'[k] = b
           /\ \/ main' = a.main /\ a.main # NoDb
              \/ main' = here /\ b.main = a.main
           /\ a = Nothing => main' = here /\ wal' = wal /\ b = Nothing
  BY <1>1, <1>2, PutBackIs
<1>4. PICK b \in Aside :
           /\ aside' = [aside EXCEPT ![k] = b]
           /\ aside'[k] = b
           /\ \/ main' = a.main /\ a.main # NoDb
              \/ main' = here /\ b.main = a.main
           /\ a = Nothing => main' = here /\ wal' = wal /\ b = Nothing
  BY <1>3
<1>5. /\ k \in 1..MaxSwaps /\ aside \in [1..MaxSwaps -> Aside]
      /\ \A s \in 1..MaxSwaps : s # k => aside'[s] = aside[s]
  BY <1>1, <1>4, SwapTyped
<1>6. Harmed(main) => proc[p].step = "move" /\ a = Nothing /\ here = main
  BY RecordTyped DEF Fine, Spares, IInv, PathsClear, At
<1>7. DamagedIsKept'
  <2>1. ASSUME harmed PROVE Somewhere'
    <3>1. Somewhere
      BY <2>1, SomewhereIs
    <3>2. CASE \E db \in evidence : Harmed(db)
      BY <3>2 DEF Somewhere, Harmed
    <3>3. CASE Harmed(main)
      BY <1>4, <1>6, <3>3 DEF Somewhere, Harmed
    <3>4. CASE \E s \in 1..MaxSwaps : Harmed(aside[s].main)
      <4>1. PICK s \in 1..MaxSwaps : Harmed(aside[s].main)
        BY <3>4
      <4>2. CASE s # k
        BY <1>5, <4>1, <4>2 DEF Somewhere, Harmed
      <4>3. CASE s = k
        BY <1>4, <1>5, <4>1, <4>3 DEF Somewhere, Harmed
      <4> QED BY <4>2, <4>3
    <3> QED BY <3>1, <3>2, <3>3, <3>4 DEF Somewhere
  <2> QED BY <2>1, SomewhereKept
<1>8. Becomes(p, Idle) /\ Idle \in Process /\ Idle.step # "move"
  BY EndsBecomes, IdleIs
<1>9. ASSUME proc'[p] = Idle PROVE Fine(p)'
  BY <1>9, IdleFine, CountersTyped
<1>10. evidence' \in SUBSET Db
  BY <1>2
<1> QED BY <1>1, <1>3, <1>4, <1>7, <1>8, <1>9, <1>10, SwapStep

LEMMA FailsInv == ASSUME IInv, NEW p \in Procs, Fails(p) PROVE IInv'
<1>1. CASE MoveFails(p)
  <2>1. PICK stuck \in Stuck(p, 1) :
          PutBack(p, main, stuck) /\ faults' = faults + 1 + Cardinality(stuck)
    BY <1>1 DEF MoveFails
  <2>2. /\ Ends(p) /\ journal' = NoJournal /\ proc[p].step \in {"move"} \cup Displacing
        /\ UNCHANGED <<evidence, backups, swaps, row, harmed, displaced>>
    BY <1>1 DEF MoveFails, Displacing
  <2> QED BY <2>1, <2>2, StuckTyped, PutBackInv
<1>2. CASE PublishFails(p)
  <2>1. PICK stuck \in Stuck(p, 1) :
          /\ PutBack(p, main, stuck) /\ faults' = faults + 1 + Cardinality(stuck)
          /\ journal' = IF stuck = {} THEN NoJournal ELSE journal
    BY <1>2 DEF PublishFails
  <2>2. /\ Ends(p) /\ proc[p].step \in {"move"} \cup Displacing
        /\ UNCHANGED <<evidence, backups, swaps, row, harmed, displaced>>
    BY <1>2 DEF PublishFails, Displacing
  <2>3. journal' \in [phase : Phases, swap : 1..MaxSwaps] \cup {NoJournal}
    BY <2>1, CountersTyped
  <2> QED BY <2>1, <2>2, <2>3, StuckTyped, PutBackInv
<1>3. CASE ValidateFails(p)
  <2>1. PICK stuck \in Stuck(p, 0) :
          /\ PutBack(p, NoDb, stuck) /\ faults' = faults + Cardinality(stuck)
          /\ journal' = IF stuck = {} THEN NoJournal ELSE journal
    BY <1>3 DEF ValidateFails
  <2>2. /\ Ends(p) /\ proc[p].step = "validate" /\ "validate" \in Displacing
        /\ UNCHANGED <<evidence, backups, swaps, row, harmed, displaced>>
    BY <1>3 DEF ValidateFails, At, Displacing
  <2>3. journal' \in [phase : Phases, swap : 1..MaxSwaps] \cup {NoJournal}
    BY <2>1, CountersTyped
  <2>4. faults' \in 0..MaxFaults /\ stuck \in SUBSET Parts(p)
    BY <2>1, StuckTyped, CountersTyped
  <2> QED BY <2>1, <2>2, <2>3, <2>4, PutBackInv
<1> QED BY <1>1, <1>2, <1>3, GiveUpInv, PublishInv, StopsInv DEF Fails

-----------------------------------------------------------------------------
(* The invariant of the specification. *)

(* The backup that an earlier swap left is of the last index of its schema. *)
LEMMA InitBackups ==
  ASSUME Init
  PROVE  /\ displaced \in [Schemas -> [at : Nat, rows : SUBSET Rows]]
         /\ backups \in Seq(Backup) /\ Len(backups) \in Nat
         /\ BackupsSound /\ LatestKnown
<1>1. CASE backups = <<>> /\ displaced = NothingDisplaced
  <2>1. \A s \in Schemas : displaced[s] = NeverDisplaced
    BY <1>1 DEF NothingDisplaced
  <2>2. DOMAIN backups = {} /\ Len(backups) = 0 /\ backups \in Seq(Backup)
    BY <1>1
  <2>3. displaced \in [Schemas -> [at : Nat, rows : SUBSET Rows]]
    BY <1>1 DEF NothingDisplaced, NeverDisplaced
  <2> QED BY <2>1, <2>2, <2>3 DEF NeverDisplaced, BackupsSound, LatestKnown, Candidates
<1>2. ASSUME NEW s \in Schemas, backups = <<Earlier(s)>>,
             displaced = [NothingDisplaced EXCEPT ![s] = [at |-> 1, rows |-> {}]]
      PROVE  /\ displaced \in [Schemas -> [at : Nat, rows : SUBSET Rows]]
             /\ backups \in Seq(Backup) /\ Len(backups) \in Nat
             /\ BackupsSound /\ LatestKnown
  <2>1. /\ displaced[s] = [at |-> 1, rows |-> {}]
        /\ \A t \in Schemas \ {s} : displaced[t] = NeverDisplaced
    BY <1>2 DEF NothingDisplaced
  <2>2. displaced \in [Schemas -> [at : Nat, rows : SUBSET Rows]]
    BY <1>2 DEF NothingDisplaced, NeverDisplaced
  <2>3. [Fresh EXCEPT !.schema = s] \in Db /\ [Fresh EXCEPT !.schema = s].schema = s
        /\ [Fresh EXCEPT !.schema = s].is = "sound"
    BY FreshIs DEF Db
  <2>4. /\ Earlier(s) \in Backup /\ Earlier(s).db.schema = s /\ Earlier(s).db.is = "sound"
        /\ Earlier(s).kind = "automatic" /\ Earlier(s).listed /\ Earlier(s).there
    BY <2>3 DEF Earlier, Backup
  <2>5. DOMAIN backups = {1} /\ Len(backups) = 1 /\ backups[1] = Earlier(s)
        /\ backups \in Seq(Backup)
    BY <1>2, <2>4
  <2>6. Candidates = {1}
    BY <2>4, <2>5 DEF Candidates
  <2>7. BackupsSound
    BY <2>4, <2>5 DEF BackupsSound
  <2>8. LatestKnown
    BY <2>1, <2>4, <2>5, <2>6 DEF LatestKnown, NeverDisplaced
  <2> QED BY <2>2, <2>5, <2>7, <2>8
<1> QED BY <1>1, <1>2 DEF Init

LEMMA InitIInv == Init => IInv
<1> SUFFICES ASSUME Init PROVE IInv
  OBVIOUS
<1>1. /\ main \in Db \cup {NoDb} /\ (main # NoDb => main.is = "sound")
  <2>1. CASE main = NoDb
    BY <2>1
  <2>2. CASE main # NoDb
    <3>1. PICK s \in Schemas : main = [Fresh EXCEPT !.schema = s]
      BY <2>2 DEF Init
    <3>2. [Fresh EXCEPT !.schema = s] \in Db /\ [Fresh EXCEPT !.schema = s].is = "sound"
      BY FreshIs DEF Db
    <3> QED BY <3>1, <3>2
  <2> QED BY <2>1, <2>2
<1>2. aside \in [1..MaxSwaps -> Aside]
  BY NothingIs DEF Init
<1>3. proc \in [Procs -> Process] /\ \A p \in Procs : proc[p] = Idle
  BY IdleIs DEF Init
<1>4. /\ displaced \in [Schemas -> [at : Nat, rows : SUBSET Rows]]
      /\ backups \in Seq(Backup) /\ Len(backups) \in Nat /\ BackupsSound /\ LatestKnown
  BY InitBackups
<1>6. TypeOK
  <2>1. \A p \in Procs : proc[p].step \notin {"idle", "open", "queue"} <=> lease = p
    BY <1>3, IdleIs, IndexAssumption DEF Init
  <2>2. /\ wal \subseteq Rows /\ evidence \subseteq Db /\ lease \in Procs \cup {Nobody}
        /\ swaps \in 0..MaxSwaps /\ row \in 0..MaxRows /\ faults \in 0..MaxFaults
        /\ journal \in [phase : Phases, swap : 1..MaxSwaps] \cup {NoJournal}
    BY IndexAssumption DEF Init
  <2>3. harmed \in BOOLEAN
    BY DEF Init
  <2> QED BY <1>1, <1>2, <1>3, <1>4, <2>1, <2>2, <2>3 DEF TypeOK
<1>7. PathsClear
  BY <1>3, IdleIs DEF Init, PathsClear, At
<1>9. DamagedIsKept
  BY DEF Init, DamagedIsKept
<1>10. \A p \in Procs : Fine(p)
  BY <1>3, <1>4, IdleIs DEF Init, Fine, Owns, Listing, Spares, Undisturbed,
     Swapping, Staging, Displacing
<1> QED BY <1>4, <1>6, <1>7, <1>9, <1>10 DEF IInv, Fine

LEMMA OpenInv == ASSUME IInv, NEW p \in Procs, Open(p) PROVE IInv'
  BY CheckInv, UseInv, RefusedInv, OutdatedInv DEF Open

LEMMA ReplaceInv == ASSUME IInv, NEW p \in Procs, Replace(p) PROVE IInv'
  BY PreserveInv, ListBackupInv, WriteJournalInv, MoveMainInv, MoveWalInv,
     NotePreservedInv, PublishInv, NotePublishedInv, ClearInv, CompleteInv, ForgetInv,
     PruneInv
  DEF Replace

LEMMA StutterInv == IInv /\ UNCHANGED vars => IInv'
<1> SUFFICES ASSUME IInv, UNCHANGED vars PROVE IInv'
  OBVIOUS
<1>1. /\ UNCHANGED <<main, wal, aside, evidence, backups, journal, lease, proc, swaps, row>>
      /\ UNCHANGED <<faults, harmed, displaced>>
  BY DEF vars, disk
<1>2. TypeOK' /\ PathsClear' /\ DamagedIsKept'
  BY <1>1 DEF IInv, TypeOK, PathsClear, DamagedIsKept, At
<1>3. BackupsSound' /\ LatestKnown'
  BY <1>1, SameBackups
<1>4. \A q \in Procs : Fine(q)'
  BY <1>1, SameFine DEF IInv, Fine
<1> QED BY <1>2, <1>3, <1>4 DEF IInv, Fine

LEMMA NextIInv == IInv /\ [Next]_vars => IInv'
<1> SUFFICES ASSUME IInv, [Next]_vars PROVE IInv'
  OBVIOUS
<1>1. CASE UNCHANGED vars
  BY <1>1, StutterInv
<1>2. CASE Damage
  BY <1>2, DamageInv
<1>3. ASSUME NEW p \in Procs, Open(p) PROVE IInv'
  BY <1>3, OpenInv
<1>4. ASSUME NEW p \in Procs, Stage(p) PROVE IInv'
  BY <1>4, StageInv
<1>5. ASSUME NEW p \in Procs, Replace(p) PROVE IInv'
  BY <1>5, ReplaceInv
<1>6. ASSUME NEW p \in Procs, Fails(p) PROVE IInv'
  BY <1>6, FailsInv
<1>7. ASSUME NEW p \in Procs, NEW reason \in Reasons, Begin(p, reason) PROVE IInv'
  BY <1>7, BeginInv
<1> QED BY <1>1, <1>2, <1>3, <1>4, <1>5, <1>6, <1>7 DEF Next

LEMMA SpecIInv == Spec => []IInv
<1>1. Init => IInv
  BY InitIInv
<1>2. IInv /\ [Next]_vars => IInv'
  BY NextIInv
<1> QED BY <1>1, <1>2, PTL DEF Spec

-----------------------------------------------------------------------------
(* Every file, process and counter of the index keeps its type, and the     *)
(* writer lease is held by exactly the process that stages or publishes     *)
(* (indexlease.Acquire around the whole of a swap).                         *)
THEOREM TypeCorrect == Spec => []TypeOK
<1>1. IInv => TypeOK
  BY DEF IInv
<1> QED BY <1>1, SpecIInv, PTL

(* Rollback, for any number of swaps, crashes and faults: pruning never     *)
(* takes the backup of the last index displaced of one of the most recently *)
(* displaced schemas (pruneAutomaticIndexBackups), and that backup has      *)
(* every row the index had.                                                 *)
THEOREM RollbacksAlwaysStand == Spec => []RollbacksStand
<1>1. ASSUME IInv, NEW s \in Schemas, displaced[s].at # 0,
             Cardinality({t \in Schemas : displaced[t].at > displaced[s].at}) < KeptSchemas
      PROVE  /\ backups[displaced[s].at].there
             /\ backups[displaced[s].at].db.schema = s
             /\ displaced[s].rows \subseteq backups[displaced[s].at].db.rows
  <2>1. Cardinality(Newer(s)) < KeptSchemas
    BY <1>1 DEF Newer
  <2>2. Cardinality(Newer(s)) \in Nat
    <3>1. IsFiniteSet(Schemas) /\ Newer(s) \subseteq Schemas
      BY IndexAssumption, FS_Interval DEF Schemas, Newer
    <3> QED BY <3>1, FS_Subset, FS_CardinalityType
  <2>3. ~(Cardinality(Newer(s)) >= KeptSchemas)
    BY <2>1, <2>2, IndexAssumption
  <2>4. /\ displaced[s].at \in Candidates
        /\ backups[displaced[s].at].db.schema = s
        /\ displaced[s].rows \subseteq backups[displaced[s].at].db.rows
    BY <1>1, <2>3 DEF IInv, LatestKnown
  <2> QED BY <2>4 DEF Candidates
<1>2. IInv => RollbacksStand
  BY <1>1 DEF RollbacksStand
<1> QED BY <1>2, SpecIInv, PTL

(* Once the active file is damaged it stays somewhere: at the active path,  *)
(* at a rollback path, or as evidence beside the backups                    *)
(* (preserveMovedIndexEvidence), whatever is rebuilt, restored or killed.   *)
THEOREM DamagedStaysKept == Spec => []DamagedIsKept
<1>1. IInv => DamagedIsKept
  BY DEF IInv
<1> QED BY <1>1, SpecIInv, PTL

-----------------------------------------------------------------------------
(* Failures that restore. *)

(* Only the lease holder's failures and its Forget remove a journal.        *)
LEMMA JournalGoes ==
  ASSUME IInv, [Next]_vars, journal # NoJournal, journal' = NoJournal
  PROVE  \E q \in Procs : MoveFails(q) \/ PublishFails(q) \/ ValidateFails(q) \/ Forget(q)
<1>1. ~UNCHANGED vars
  BY DEF vars, disk
<1>2. ~Damage
  BY DEF Damage
<1>3. ASSUME NEW q \in Procs PROVE ~Open(q) /\ ~Stage(q)
  BY DEF Open, Stage, Check, Use, Refused, Outdated, StageRebuild, StageRestore,
     StageMigration, Staged, disk
<1>4. ASSUME NEW q \in Procs, NEW reason \in Reasons PROVE ~Begin(q, reason)
  BY DEF Begin, disk
<1>5. ASSUME NEW q \in Procs, Replace(q) PROVE Forget(q)
  <2>1. \A k : [phase |-> "prepared", swap |-> k] # NoJournal
               /\ [phase |-> "active_preserved", swap |-> k] # NoJournal
               /\ [phase |-> "stage_published", swap |-> k] # NoJournal
               /\ [phase |-> "complete", swap |-> k] # NoJournal
    BY DEF NoJournal
  <2> QED BY <1>5, <2>1 DEF Replace, Preserve, ListBackup, WriteJournal, MoveMain,
          MoveWal, NotePreserved, Publish, NotePublished, Clear, Complete, Prune, Phase
<1>6. ASSUME NEW q \in Procs, Fails(q)
      PROVE  MoveFails(q) \/ PublishFails(q) \/ ValidateFails(q)
  BY <1>6 DEF Fails, GiveUp, PublishTears, Stops, disk
<1> QED BY <1>1, <1>2, <1>3, <1>4, <1>5, <1>6 DEF Next

(* What FailureRestores says of a step of p. *)
Fallen(p) == /\ proc[p].swap # 0 /\ proc[p].mine # 0 /\ ~At(p, "forget")
             /\ proc[p].at = row
             /\ journal # NoJournal /\ journal' = NoJournal /\ At(p, "idle")'
Restored(p) == /\ main' # NoDb
               /\ main'.schema = backups[proc[p].mine].db.schema
               /\ proc[p].saw \subseteq main'.rows \cup wal'

LEMMA PutBackRestores ==
  ASSUME IInv, NEW p \in Procs, proc[p].step \in {"move"} \cup Displacing,
         proc[p].mine # 0, proc[p].at = row, NEW here \in {main, NoDb},
         here = main \/ proc[p].step = "validate", PutBack(p, here, {})
  PROVE  Restored(p)
<1> DEFINE r == proc[p]
           a == aside[r.swap]
<1>1. r.step \in Swapping /\ main \in Db \cup {NoDb} /\ {} \in SUBSET Parts(p)
  BY DEF Displacing, Swapping, IInv, TypeOK
<1>2. /\ a = Nothing => main' = here /\ wal' = wal
      /\ a.main # NoDb => main' = a.main
      /\ a.wal \subseteq wal'
      /\ a.wal = {} => wal' = wal
  BY <1>1, PutBackIs
<1>3. Undisturbed(r)
  BY RecordTyped DEF Fine
<1>4. CASE r.step = "move"
  <2>1. a = Nothing
    BY <1>4 DEF IInv, PathsClear, At
  <2>2. Whole(r, main, wal)
    BY <1>3, <1>4 DEF Undisturbed
  <2> QED BY <1>2, <1>4, <2>1, <2>2 DEF Whole, Restored
<1>5. CASE r.step = "movewal"
  BY <1>2, <1>3, <1>5 DEF Undisturbed, Whole, Restored
<1>6. CASE r.step \in Displacing \ {"movewal"}
  BY <1>2, <1>3, <1>6 DEF Undisturbed, Whole, Restored
<1> QED BY <1>4, <1>5, <1>6

LEMMA FallsRestored ==
  ASSUME IInv, [Next]_vars, NEW p \in Procs, Fallen(p), faults' <= faults + 1
  PROVE  Restored(p)
<1>1. PICK q \in Procs : MoveFails(q) \/ PublishFails(q) \/ ValidateFails(q) \/ Forget(q)
  BY JournalGoes DEF Fallen
<1>2. lease = p
  BY RecordTyped DEF Fallen, Fine, Owns, Swapping, Waiting
<1>3. lease = q
  BY <1>1, RecordTyped DEF MoveFails, PublishFails, ValidateFails, Forget, At, Waiting
<1>4. q = p
  BY <1>2, <1>3
<1>5. faults \in Nat
  BY CountersTyped, IndexAssumption
<1>6. CASE MoveFails(p)
  <2>1. PICK stuck \in Stuck(p, 1) :
          PutBack(p, main, stuck) /\ faults' = faults + 1 + Cardinality(stuck)
    BY <1>6 DEF MoveFails
  <2>2. stuck = {}
    BY <1>5, <2>1, StuckTyped
  <2>3. proc[p].step \in {"move"} \cup Displacing
    BY <1>6 DEF MoveFails, Displacing
  <2> QED BY <2>1, <2>2, <2>3, PutBackRestores DEF Fallen
<1>7. CASE PublishFails(p)
  <2>1. PICK stuck \in Stuck(p, 1) :
          /\ PutBack(p, main, stuck) /\ faults' = faults + 1 + Cardinality(stuck)
    BY <1>7 DEF PublishFails
  <2>2. stuck = {}
    BY <1>5, <2>1, StuckTyped
  <2>3. proc[p].step \in {"move"} \cup Displacing
    BY <1>7 DEF PublishFails, Displacing
  <2> QED BY <2>1, <2>2, <2>3, PutBackRestores DEF Fallen
<1>8. CASE ValidateFails(p)
  <2>1. PICK stuck \in Stuck(p, 0) :
          PutBack(p, NoDb, stuck) /\ journal' = IF stuck = {} THEN NoJournal ELSE journal
    BY <1>8 DEF ValidateFails
  <2>2. stuck = {}
    BY <2>1 DEF Fallen
  <2>3. proc[p].step = "validate" /\ "validate" \in Displacing
    BY <1>8 DEF ValidateFails, At, Displacing
  <2> QED BY <2>1, <2>2, <2>3, PutBackRestores DEF Fallen
<1>9. CASE Forget(p)
  BY <1>9 DEF Forget, Fallen
<1> QED BY <1>1, <1>4, <1>6, <1>7, <1>8, <1>9

(* For any number of faults: a step that drops the journal of a swap that   *)
(* did not end, and in which no rename back fails on top of the failure     *)
(* itself (restoreMovedIndex returns nil), restores the index.              *)
FailureRestoresUnlessStuck ==
  [][\A p \in Procs : faults' <= faults + 1 /\ Fallen(p) => Restored(p)]_vars

THEOREM UnstuckFailuresRestore == Spec => FailureRestoresUnlessStuck
<1>1. IInv /\ [Next]_vars
        => [\A p \in Procs : faults' <= faults + 1 /\ Fallen(p) => Restored(p)]_vars
  BY FallsRestored
<1> QED BY <1>1, SpecIInv, PTL DEF Spec, FailureRestoresUnlessStuck

(* A swap that fails and drops its journal leaves the index as it was, as   *)
(* long as at most one write or rename fails.  Two faults refute it: when   *)
(* moveActiveIndexAside fails and a rename back fails too, the journal goes *)
(* all the same (index_recovery.go).                                     *)
THEOREM FailuresRestore == MaxFaults <= 1 => (Spec => FailureRestores)
<1> SUFFICES ASSUME MaxFaults <= 1 PROVE Spec => FailureRestores
  OBVIOUS
<1>1. ASSUME IInv, [Next]_vars, NEW p \in Procs, Fallen(p) PROVE Restored(p)
  <2>1. faults \in Nat /\ faults' \in Nat /\ faults' <= MaxFaults
    <3>1. IInv'
      BY <1>1, NextIInv
    <3>2. faults' \in 0..MaxFaults /\ faults \in 0..MaxFaults
      BY <1>1, <3>1 DEF IInv, TypeOK
    <3> QED BY <3>2, IndexAssumption
  <2>2. faults' <= faults + 1
    BY <2>1, IndexAssumption
  <2> QED BY <1>1, <2>2, FallsRestored
<1>2. IInv /\ [Next]_vars
        => [\A p \in Procs :
              (/\ proc[p].swap # 0 /\ proc[p].mine # 0 /\ ~At(p, "forget")
               /\ proc[p].at = row
               /\ journal # NoJournal /\ journal' = NoJournal /\ At(p, "idle")')
              => /\ main' # NoDb
                 /\ main'.schema = backups[proc[p].mine].db.schema
                 /\ proc[p].saw \subseteq main'.rows \cup wal']_vars
  BY <1>1 DEF Fallen, Restored
<1> QED BY <1>2, SpecIInv, PTL DEF Spec, FailureRestores
=============================================================================
