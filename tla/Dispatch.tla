------------------------------ MODULE Dispatch ------------------------------
(* One dispatch of src/internal/orchestration: the request is recorded, a    *)
(* provider lane is started, the handle is recorded, and any number of ds    *)
(* processes then wait for the lane, collect its evidence, reap it and       *)
(* record the receipt.  Each file is replaced atomically, each step between  *)
(* two files or two provider commands is an action of its own, and every     *)
(* process may be killed between any two.  A dispatch has an id and, unless  *)
(* the user names one, a lane of its own, so dispatches do not interact.     *)
(*                                                                           *)
(* The provider (Waspflow) is not part of the repository.  It is modelled as *)
(* the driver uses it: wait succeeds only for a lane that is not live, a     *)
(* verification rewrites verify-result.json, a reap either refuses or writes *)
(* the native receipt and removes the workspace, and the lane's directory    *)
(* with both files outlives the reap.                                        *)
EXTENDS Naturals

CONSTANTS
    Clients,      \* ds processes
    Verdicts,     \* what a verification can find
    NoVerdict,
    NoReceipt,
    MaxWork       \* bound: edits the agent makes in its workspace

ASSUME DispatchAssumption ==
    /\ NoVerdict \notin Verdicts
    /\ MaxWork \in Nat

VARIABLES
    need,         \* the request's requirements: [report, verify]
    request,      \* request.json is written
    handle,       \* handle.json is written
    receipt,      \* receipt.json
    kept,         \* provider-report and verify-result.json copied beside them
    lane,         \* "none", "live", "exited" or "reaped"
    work,         \* state of the lane's workspace
    report,       \* edit at which the agent last wrote its report, 0 for none
    verdict,      \* the lane's verify-result.json
    native,       \* the lane's native receipt: NoReceipt or the verdict it tells
    pc,           \* where each process stands
    seen,         \* what each process has collected: [work, report, verify]
    lost          \* history: a process that had reaped recorded no receipt

store == <<need, request, handle, receipt, kept>>
provider == <<lane, work, report, verdict, native>>
vars == <<need, request, handle, receipt, kept,
          lane, work, report, verdict, native, pc, seen, lost>>

Nothing == [work |-> 0, report |-> 0, verify |-> NoVerdict]
Steps == {"idle", "spawn", "handle", "wait", "report", "verify",
          "inspect", "copy", "reap", "write"}

Init ==
    /\ need \in [report : BOOLEAN, verify : BOOLEAN]
    /\ request = FALSE
    /\ handle = FALSE
    /\ receipt = NoReceipt
    /\ kept = [report |-> 0, verify |-> NoVerdict]
    /\ lane = "none"
    /\ work = 0
    /\ report = 0
    /\ verdict = NoVerdict
    /\ native = NoReceipt
    /\ pc = [c \in Clients |-> "idle"]
    /\ seen = [c \in Clients |-> Nothing]
    /\ lost = FALSE

-----------------------------------------------------------------------------
At(c, step) == pc[c] = step

Goes(c, step) == pc' = [pc EXCEPT ![c] = step]

\* The command returns, with a result or an error, and its memory is gone.
Ends(c) == Goes(c, "idle") /\ seen' = [seen EXCEPT ![c] = Nothing]

-----------------------------------------------------------------------------
(* ds dispatch *)

\* Everything checked before (options, driver, isolation, a clean repository,
\* the frozen apply payload) is read only; WriteRequest is the first effect.
WriteRequest(c) ==
    /\ At(c, "idle")
    /\ ~request
    /\ request' = TRUE
    /\ Goes(c, "spawn")
    /\ UNCHANGED <<need, handle, receipt, kept, provider, seen, lost>>

\* The driver spawns the lane and asks for its status.  Either may fail; when
\* only the second does the lane runs and the caller is told to inspect it.
Spawn(c) ==
    /\ At(c, "spawn")
    /\ \/ lane' = "live" /\ Goes(c, "handle") /\ UNCHANGED seen
       \/ lane' \in {"none", "live"} /\ Ends(c)
    /\ UNCHANGED <<store, work, report, verdict, native, lost>>

\* A detached command returns here, any other goes on to Resume.  When the
\* handle cannot be written the lane runs on and no command finds it.
WriteHandle(c) ==
    /\ At(c, "handle")
    /\ \/ handle' = TRUE /\ Goes(c, "wait") /\ UNCHANGED seen
       \/ handle' \in BOOLEAN /\ Ends(c)
    /\ UNCHANGED <<need, request, receipt, kept, provider, lost>>

-----------------------------------------------------------------------------
(* ds dispatch resume *)

\* A receipt that is there is returned and nothing is done.
Resume(c) ==
    /\ At(c, "idle")
    /\ handle
    /\ receipt = NoReceipt
    /\ Goes(c, "wait")
    /\ UNCHANGED <<store, provider, seen, lost>>

Waited_Or_TimedOut == lane # "none"

Waited == lane \in {"exited", "reaped"}

\* A wait that ends before the lane does leaves it for the next resume.
Wait(c) ==
    /\ At(c, "wait")
    /\ \/ Waited /\ Goes(c, "report") /\ UNCHANGED seen
       \/ Ends(c)
    /\ UNCHANGED <<store, provider, lost>>

\* The report the agent wrote can be read while its workspace is there.
Reportable == lane # "reaped" /\ report # 0

\* A required report is copied beside the request, or nothing is done.
CopyReport(c) ==
    /\ At(c, "report")
    /\ IF need.report /\ Reportable
         THEN /\ kept' = [kept EXCEPT !.report = report]
              /\ seen' = [seen EXCEPT ![c].report = report]
              /\ Goes(c, "verify")
         ELSE /\ UNCHANGED kept
              /\ IF need.report THEN Ends(c) ELSE Goes(c, "verify") /\ UNCHANGED seen
    /\ UNCHANGED <<need, request, handle, receipt, provider, lost>>

\* A required verification runs in the lane, each time anew.
Verify(c) ==
    /\ At(c, "verify")
    /\ \/ /\ need.verify
          /\ lane = "exited"
          /\ verdict' \in Verdicts
          /\ Goes(c, "inspect")
          /\ UNCHANGED seen
       \/ /\ ~need.verify
          /\ Goes(c, "inspect")
          /\ UNCHANGED <<verdict, seen>>
       \/ need.verify /\ Ends(c) /\ UNCHANGED verdict
    /\ UNCHANGED <<store, lane, work, report, native, lost>>

\* The commit and the digest of the workspace, which git finds until the reap.
Inspect(c) ==
    /\ At(c, "inspect")
    /\ IF lane # "reaped"
         THEN Goes(c, "copy") /\ seen' = [seen EXCEPT ![c].work = work]
         ELSE Ends(c)
    /\ UNCHANGED <<store, provider, lost>>

CopyVerification(c) ==
    /\ At(c, "copy")
    /\ IF verdict # NoVerdict
         THEN /\ kept' = [kept EXCEPT !.verify = verdict]
              /\ seen' = [seen EXCEPT ![c].verify = verdict]
         ELSE UNCHANGED <<kept, seen>>
    /\ Goes(c, "reap")
    /\ UNCHANGED <<need, request, handle, receipt, provider, lost>>

\* What the process makes of a reap that wrote the native receipt: a nonzero
\* exit (a failed verification, a lane another process reaped) is no error.
AfterReap_OnlyOnZero(c, exit) ==
    IF exit = 0 THEN Goes(c, "write") /\ UNCHANGED seen ELSE Ends(c)

AfterReap(c, exit) == Goes(c, "write") /\ UNCHANGED seen

\* A lane is reaped once; reaping it again fails and finds its native receipt.
Reap(c) ==
    /\ At(c, "reap")
    /\ \/ /\ lane # "reaped"
          /\ lane' = "reaped"
          /\ native' = verdict
          /\ \E exit \in {0, 2} : AfterReap(c, exit)
       \/ /\ lane = "reaped"
          /\ AfterReap(c, 3)
          /\ UNCHANGED <<lane, native>>
       \/ /\ lane # "reaped"
          /\ Ends(c)
          /\ UNCHANGED <<lane, native>>
    /\ UNCHANGED <<store, work, report, verdict, lost>>

Told_FromCopy(c) ==
    [work |-> seen[c].work, report |-> seen[c].report,
     artifact |-> seen[c].verify, told |-> seen[c].verify]

\* The receipt: the workspace's digest, the digests of the two copies, and the
\* verification state the native receipt tells.
Told(c) ==
    [work |-> seen[c].work, report |-> seen[c].report,
     artifact |-> seen[c].verify, told |-> native]

\* The receipt replaces any other; one of more than 8 KiB is refused.
WriteReceipt(c) ==
    /\ At(c, "write")
    /\ \/ receipt' = Told(c) /\ UNCHANGED lost
       \/ lost' = TRUE /\ UNCHANGED receipt
    /\ Ends(c)
    /\ UNCHANGED <<need, request, handle, kept, provider>>

-----------------------------------------------------------------------------
(* The process and the lane it cannot see *)

Kill(c) ==
    /\ ~At(c, "idle")
    /\ Ends(c)
    /\ lost' = (lost \/ At(c, "write"))
    /\ UNCHANGED <<store, provider>>

LaneEdits ==
    /\ lane = "live"
    /\ work < MaxWork
    /\ work' = work + 1
    /\ UNCHANGED <<store, lane, report, verdict, native, pc, seen, lost>>

LaneReports ==
    /\ lane = "live"
    /\ report' = work
    /\ UNCHANGED <<store, lane, work, verdict, native, pc, seen, lost>>

LaneExits ==
    /\ lane = "live"
    /\ lane' = "exited"
    /\ UNCHANGED <<store, work, report, verdict, native, pc, seen, lost>>

-----------------------------------------------------------------------------
Step(c) ==
    \/ WriteRequest(c) \/ Spawn(c) \/ WriteHandle(c)
    \/ Resume(c) \/ Wait(c) \/ CopyReport(c) \/ Verify(c) \/ Inspect(c)
    \/ CopyVerification(c) \/ Reap(c) \/ WriteReceipt(c)

Next ==
    \/ \E c \in Clients : Step(c) \/ Kill(c)
    \/ LaneEdits \/ LaneReports \/ LaneExits

\* A process that is not killed goes on to its next step; nothing says that
\* anyone resumes, that a wait succeeds or that the agent ever ends.
Spec == Init /\ [][Next]_vars /\ \A c \in Clients : WF_vars(~At(c, "idle") /\ Step(c))

-----------------------------------------------------------------------------
TypeOK ==
    /\ need \in [report : BOOLEAN, verify : BOOLEAN]
    /\ request \in BOOLEAN
    /\ handle \in BOOLEAN
    /\ kept \in [report : 0..MaxWork, verify : Verdicts \union {NoVerdict}]
    /\ lane \in {"none", "live", "exited", "reaped"}
    /\ work \in 0..MaxWork
    /\ report \in 0..MaxWork
    /\ verdict \in Verdicts \union {NoVerdict}
    /\ native \in Verdicts \union {NoVerdict, NoReceipt}
    /\ pc \in [Clients -> Steps]
    /\ seen \in [Clients -> [work : 0..MaxWork, report : 0..MaxWork,
                             verify : Verdicts \union {NoVerdict}]]
    /\ lost \in BOOLEAN
    /\ receipt \in [work : 0..MaxWork, report : 0..MaxWork,
                    artifact : Verdicts \union {NoVerdict},
                    told : Verdicts \union {NoVerdict}] \union {NoReceipt}
    /\ \A c \in Clients : pc[c] = "idle" => seen[c] = Nothing

\* A lane is reaped, and its workspace gone, only when the dispatch can still
\* be accounted for without it: request and handle are recorded, and what the
\* request requires is copied, the report as the agent left it.  However many
\* processes resume and die between the copies and the reap.
EvidenceOutlivesLane ==
    lane = "reaped" =>
        /\ request /\ handle
        /\ need.report => kept.report = report /\ report # 0
        /\ need.verify => kept.verify # NoVerdict

\* A receipt is about the run that was reaped: its workspace as the agent left
\* it, its report, and the verification state its native receipt tells, even
\* when another process verified again after the receipt's artifact was copied.
ReceiptTellsTheReap ==
    receipt # NoReceipt =>
        /\ lane = "reaped"
        /\ receipt.told = native
        /\ receipt.work = work
        /\ need.report => receipt.report = report

\* A reaped lane gets its receipt, whatever the reap's exit status and whoever
\* else resumes, unless a process that had reaped was killed or refused.
ReapedIsReported == lane = "reaped" ~> (receipt # NoReceipt \/ lost)
=============================================================================
