------------------------------ MODULE HubFeed ------------------------------
(***************************************************************************)
(* What the hub promises the readers of its publication stream, without    *)
(* saying how: each scope numbers its entries 1, 2, 3, ... in the order    *)
(* they are published, no number is ever used again, and an entry leaves   *)
(* the stream only into the record of what was pruned.                     *)
(***************************************************************************)
EXTENDS Integers

CONSTANT Scopes

VARIABLES
  issued,   \* the last position issued in each scope
  held,     \* the positions whose entry can be read
  gone      \* the positions recorded as pruned

vars == <<issued, held, gone>>

Init ==
  /\ issued = [s \in Scopes |-> 0]
  /\ held = [s \in Scopes |-> {}]
  /\ gone = [s \in Scopes |-> {}]

Publish(s) ==
  /\ issued' = [issued EXCEPT ![s] = @ + 1]
  /\ held' = [held EXCEPT ![s] = @ \cup {issued'[s]}]
  /\ UNCHANGED gone

(* A prune takes entries of any number of scopes at once. *)
Prune ==
  /\ UNCHANGED issued
  /\ held' = [s \in Scopes |-> held[s] \cap held'[s]]
  /\ gone' = [s \in Scopes |-> gone[s] \cup (held[s] \ held'[s])]

Next == Prune \/ \E s \in Scopes : Publish(s)

Spec == Init /\ [][Next]_vars
=============================================================================
