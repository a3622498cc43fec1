---------------------------- MODULE MCDashboard ----------------------------
(* Calls differ by name only. *)
EXTENDS Dashboard, TLC

Symmetry == Permutations(Calls)

(* At most two commits are on their way, and one while the dialog is open, which
   then finds a call free; the last write is for repointings that overtake each
   other. *)
Scenario ==
  /\ Len(feed) <= 2
  /\ dialog # 0 => Len(feed) <= 1 /\ \E k \in Calls : call[k] = Idle
  /\ writes = MaxWrites => dialog = 0 /\ \A k \in Calls : call[k].kind \in {"none", "put"}
=============================================================================
