--------------------------- MODULE MCTaskThreads ---------------------------
(* Three tasks, the first and the last of one repository, so that a link of *)
(* one replaces that of the other.  The lock of the change, 2, sorts        *)
(* between theirs.                                                          *)
EXTENDS TaskThreads, TLC

CONSTANTS p1, p2, api, web, a, b

ThreeTasks == {1, 3, 4}
AllLocks == {1, 2, 3, 4}
TwoProcs == {p1, p2}
FirstTask == {1}
OwnRepos == [t \in Tasks |-> IF t = 3 THEN web ELSE api]
TwoLanes == {a, b}
Alike == Permutations(TwoProcs)

(* Tracks of two tasks, with everything that can happen to them; ...        *)
Tracks ==
  /\ linkings <= 1 /\ 4 \notin links
  /\ \A e \in events : e.task # 4
  /\ \A p \in Procs : proc[p].step # "idle" => proc[p].task # 4
  /\ \A p \in Procs : proc[p].job = "link" => proc[p].task = 3

(* ... or links that replace and lose one another, next to graph edits and  *)
(* checkpoints of the first slices that leave them open.                    *)
Links ==
  /\ \A e \in events : ~e.merged /\ e.state = "open"
  /\ \A p \in Procs : /\ proc[p].job \notin {"add", "refresh"}
                       /\ proc[p].job = "checkpoint" => proc[p].state = "open"

TracksOrLinks == Tracks \/ Links
=============================================================================
