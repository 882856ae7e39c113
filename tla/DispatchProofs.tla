--------------------------- MODULE DispatchProofs ---------------------------
(* Proofs about Dispatch, for any number of processes that resume and die.  *)
EXTENDS Dispatch, TLAPS

(* While the dispatch is being started nobody else is at it: the request is *)
(* written once, and nobody can resume before the handle is.                *)
Starting ==
    /\ \A c \in Clients : pc[c] \in {"spawn", "handle"} =>
         /\ request /\ ~handle
         /\ \A d \in Clients \ {c} : pc[d] = "idle"
    /\ \A c \in Clients : pc[c] = "spawn" => lane = "none"
    /\ \A c \in Clients : pc[c] = "handle" => lane # "none"
    /\ handle => request /\ lane # "none"
    /\ lane # "none" => request
    /\ \A c \in Clients :
         pc[c] \in {"wait", "report", "verify", "inspect", "copy", "reap", "write"}
           => handle

(* The lane is over from the wait on, and its native receipt with the reap. *)
LaneOver ==
    /\ \A c \in Clients :
         pc[c] \in {"report", "verify", "inspect", "copy", "reap", "write"}
           => lane \in {"exited", "reaped"}
    /\ \A c \in Clients : pc[c] = "write" => lane = "reaped"
    /\ lane = "reaped" => native \in Verdicts \union {NoVerdict}

(* What a process has collected is what there is, and is in the store.      *)
Collected ==
    \A c \in Clients :
      /\ need.report /\ pc[c] \in {"verify", "inspect", "copy", "reap", "write"} =>
           report # 0 /\ kept.report = report /\ seen[c].report = report
      /\ need.verify /\ pc[c] \in {"inspect", "copy", "reap", "write"} =>
           verdict # NoVerdict
      /\ pc[c] \in {"copy", "reap", "write"} => seen[c].work = work
      /\ need.verify /\ pc[c] \in {"reap", "write"} => kept.verify # NoVerdict

DispatchInv ==
    /\ TypeOK /\ Starting /\ LaneOver /\ Collected
    /\ EvidenceOutlivesLane /\ ReceiptTellsTheReap

-----------------------------------------------------------------------------
LEMMA InitInv == Init => DispatchInv
<1> SUFFICES ASSUME Init PROVE DispatchInv
  OBVIOUS
<1>1. TypeOK
  <2>1. Nothing \in [work : 0..MaxWork, report : 0..MaxWork,
                     verify : Verdicts \union {NoVerdict}]
    BY DispatchAssumption DEF Nothing
  <2>2. kept \in [report : 0..MaxWork, verify : Verdicts \union {NoVerdict}]
    BY DispatchAssumption DEF Init
  <2>3. pc \in [Clients -> Steps]
    BY DEF Init, Steps
  <2>4. need \in [report : BOOLEAN, verify : BOOLEAN]
    BY DEF Init
  <2>5. work \in 0..MaxWork /\ report \in 0..MaxWork
    BY DispatchAssumption DEF Init
  <2> HIDE DEF Nothing
  <2> QED BY <2>1, <2>2, <2>3, <2>4, <2>5 DEF Init, TypeOK
<1>2. Starting
  BY DEF Init, Starting
<1>3. LaneOver /\ Collected
  BY DEF Init, LaneOver, Collected
<1>4. EvidenceOutlivesLane /\ ReceiptTellsTheReap
  BY DEF Init, EvidenceOutlivesLane, ReceiptTellsTheReap
<1> QED BY <1>1, <1>2, <1>3, <1>4 DEF DispatchInv

(* A command that ends leaves everything but itself alone. *)
LEMMA EndsInv ==
  ASSUME DispatchInv, NEW c \in Clients, Ends(c), UNCHANGED <<store, provider>>,
         lost' \in BOOLEAN
  PROVE  DispatchInv'
<1> USE DispatchAssumption DEF Ends, Goes, DispatchInv, store, provider
<1>1. TypeOK'
  BY DEF TypeOK, Nothing, Steps
<1>2. Starting'
  BY DEF Starting, TypeOK
<1>3. LaneOver' /\ Collected'
  BY DEF LaneOver, Collected, TypeOK
<1>4. EvidenceOutlivesLane' /\ ReceiptTellsTheReap'
  BY DEF EvidenceOutlivesLane, ReceiptTellsTheReap
<1> QED BY <1>1, <1>2, <1>3, <1>4

-----------------------------------------------------------------------------
LEMMA RequestInv ==
  ASSUME DispatchInv, NEW c \in Clients, WriteRequest(c)
  PROVE  DispatchInv'
<1>1. /\ pc' = [pc EXCEPT ![c] = "spawn"] /\ pc[c] = "idle" /\ ~request
      /\ request' = TRUE
      /\ UNCHANGED <<need, handle, receipt, kept, lane, work, report, verdict,
                     native, seen, lost>>
  BY DEF WriteRequest, Goes, At, provider
<1>2. TypeOK'
  <2>1. pc' \in [Clients -> Steps]
    BY <1>1 DEF DispatchInv, TypeOK, Steps
  <2>2. \A d \in Clients : pc'[d] = "idle" => seen'[d] = Nothing
    BY <1>1 DEF DispatchInv, TypeOK
  <2>3. request' \in BOOLEAN
    BY <1>1
  <2> QED BY <1>1, <2>1, <2>2, <2>3 DEF DispatchInv, TypeOK
<1>3. Starting'
  <2>1. \A d \in Clients : pc[d] = "idle"
    <3>1. ~request /\ ~handle
      BY <1>1 DEF DispatchInv, Starting
    <3> SUFFICES ASSUME NEW d \in Clients PROVE pc[d] = "idle"
      OBVIOUS
    <3>2. pc[d] \in Steps
      BY DEF DispatchInv, TypeOK
    <3>3. pc[d] \notin {"spawn", "handle"}
      BY <3>1 DEF DispatchInv, Starting
    <3>4. pc[d] \notin {"wait", "report", "verify", "inspect", "copy", "reap", "write"}
      BY <3>1 DEF DispatchInv, Starting
    <3> QED BY <3>2, <3>3, <3>4 DEF Steps
  <2>2. ~request /\ ~handle /\ lane = "none"
    BY <1>1 DEF DispatchInv, Starting
  <2>3. pc \in [Clients -> Steps]
    BY DEF DispatchInv, TypeOK
  <2> QED BY <1>1, <2>1, <2>2, <2>3 DEF Starting
<1>4. LaneOver' /\ Collected'
  BY <1>1 DEF DispatchInv, TypeOK, LaneOver, Collected
<1>5. EvidenceOutlivesLane' /\ ReceiptTellsTheReap'
  BY <1>1 DEF DispatchInv, EvidenceOutlivesLane, ReceiptTellsTheReap
<1> QED BY <1>2, <1>3, <1>4, <1>5 DEF DispatchInv

LEMMA StepInv ==
  ASSUME DispatchInv, NEW c \in Clients, Step(c)
  PROVE  DispatchInv'
<1> USE DispatchAssumption
    DEF DispatchInv, TypeOK, Starting, LaneOver, Collected, EvidenceOutlivesLane,
        ReceiptTellsTheReap, Ends, Goes, At, Steps, Nothing, store, provider
<1>1. CASE WriteRequest(c) BY <1>1, RequestInv
<1>2. CASE Spawn(c) BY <1>2 DEF Spawn
<1>3. CASE WriteHandle(c)
  <2>1. TypeOK'
    <3>1. pc' \in [Clients -> Steps] BY <1>3 DEF WriteHandle
    <3>2. seen' \in [Clients -> [work : 0..MaxWork, report : 0..MaxWork,
                                  verify : Verdicts \union {NoVerdict}]]
      BY <1>3 DEF WriteHandle
    <3>3. \A d \in Clients : pc'[d] = "idle" => seen'[d] = Nothing
      BY <1>3 DEF WriteHandle
    <3> QED BY <1>3, <3>1, <3>2, <3>3 DEF WriteHandle
  <2>2. Starting' BY <1>3 DEF WriteHandle
  <2>3. LaneOver' /\ Collected' BY <1>3 DEF WriteHandle
  <2>4. EvidenceOutlivesLane' /\ ReceiptTellsTheReap' BY <1>3 DEF WriteHandle
  <2> QED BY <2>1, <2>2, <2>3, <2>4
<1>4. CASE Resume(c) BY <1>4 DEF Resume
<1>5. CASE Wait(c) BY <1>5 DEF Wait, Waited
<1>6. CASE CopyReport(c) BY <1>6 DEF CopyReport, Reportable
<1>7. CASE Verify(c) BY <1>7 DEF Verify
<1>8. CASE Inspect(c) BY <1>8 DEF Inspect
<1>9. CASE CopyVerification(c) BY <1>9 DEF CopyVerification
<1>10. CASE Reap(c)
  <2>1. TypeOK' BY <1>10 DEF Reap, AfterReap
  <2>2. Starting' BY <1>10 DEF Reap, AfterReap
  <2>3. LaneOver' /\ Collected' BY <1>10 DEF Reap, AfterReap
  <2>4. EvidenceOutlivesLane' /\ ReceiptTellsTheReap' BY <1>10 DEF Reap, AfterReap
  <2> QED BY <2>1, <2>2, <2>3, <2>4
<1>11. CASE WriteReceipt(c)
  <2>1. TypeOK'
    <3>1. pc' \in [Clients -> Steps] BY <1>11 DEF WriteReceipt
    <3>2. seen' \in [Clients -> [work : 0..MaxWork, report : 0..MaxWork,
                                  verify : Verdicts \union {NoVerdict}]]
      BY <1>11 DEF WriteReceipt
    <3>3. \A d \in Clients : pc'[d] = "idle" => seen'[d] = Nothing
      BY <1>11 DEF WriteReceipt
    <3>4. lost' \in BOOLEAN BY <1>11 DEF WriteReceipt
    <3>5. Told(c) \in [work : 0..MaxWork, report : 0..MaxWork,
                       artifact : Verdicts \union {NoVerdict},
                       told : Verdicts \union {NoVerdict}]
      BY <1>11 DEF WriteReceipt, Told
    <3>6. receipt' \in {receipt, Told(c)} BY <1>11 DEF WriteReceipt
    <3>7. UNCHANGED <<need, request, handle, kept, provider>>
      BY <1>11 DEF WriteReceipt
    <3> HIDE DEF Nothing, Steps
    <3> QED BY <3>1, <3>2, <3>3, <3>4, <3>5, <3>6, <3>7
  <2>2. Starting' BY <1>11 DEF WriteReceipt
  <2>3. LaneOver' /\ Collected' BY <1>11 DEF WriteReceipt
  <2>4. EvidenceOutlivesLane' /\ ReceiptTellsTheReap'
    BY <1>11 DEF WriteReceipt, Told
  <2> QED BY <2>1, <2>2, <2>3, <2>4
<1> QED BY <1>1, <1>2, <1>3, <1>4, <1>5, <1>6, <1>7, <1>8, <1>9, <1>10, <1>11 DEF Step

LEMMA LaneInv ==
  ASSUME DispatchInv, LaneEdits \/ LaneReports \/ LaneExits
  PROVE  DispatchInv'
  BY DispatchAssumption
  DEF LaneEdits, LaneReports, LaneExits, DispatchInv, TypeOK, Starting, LaneOver,
      Collected, EvidenceOutlivesLane, ReceiptTellsTheReap, store, provider

LEMMA NextInv == DispatchInv /\ [Next]_vars => DispatchInv'
<1> SUFFICES ASSUME DispatchInv, [Next]_vars PROVE DispatchInv'
  OBVIOUS
<1>1. ASSUME NEW c \in Clients, Kill(c) PROVE DispatchInv'
  <2>1. lost' \in BOOLEAN
    BY <1>1 DEF Kill, DispatchInv, TypeOK, At
  <2> QED BY <1>1, <2>1, EndsInv DEF Kill
<1>2. CASE UNCHANGED vars
  BY <1>2 DEF vars, DispatchInv, TypeOK, Starting, LaneOver, Collected,
              EvidenceOutlivesLane, ReceiptTellsTheReap
<1> QED BY <1>1, <1>2, StepInv, LaneInv DEF Next

LEMMA Invariance == Spec => []DispatchInv
  BY InitInv, NextInv, PTL DEF Spec

(* Files and processes keep their shapes, however many processes resume.    *)
THEOREM TypeCorrect == Spec => []TypeOK
  BY Invariance, PTL DEF DispatchInv

(* No lane is reaped before its evidence is kept (waspflow.go, Finalize).   *)
THEOREM EvidenceIsKeptFirst == Spec => []EvidenceOutlivesLane
  BY Invariance, PTL DEF DispatchInv

(* Every receipt, also one that replaces another, tells the run that was    *)
(* reaped (service.go, Finalize).                                           *)
THEOREM ReceiptsTellTheReap == Spec => []ReceiptTellsTheReap
  BY Invariance, PTL DEF DispatchInv
=============================================================================
