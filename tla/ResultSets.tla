----------------------------- MODULE ResultSets -----------------------------
(***************************************************************************)
(* What AutorunEnum_Final/README.md promises of a workspace: "Before each  *)
(* run, the previous active result set is moved [...] under workspace/     *)
(* archive/run-* so stale critic files cannot be mistaken for the current  *)
(* run."  The pieces of a run's result set appear in the active workspace  *)
(* while nothing of another run is there, and go from there to the archive *)
(* and nowhere else.                                                       *)
(***************************************************************************)
CONSTANTS Runs, Pieces

VARIABLE place             \* per run and piece: absent, active or archived

Init == place = [r \in Runs |-> [p \in Pieces |-> "absent"]]

Active(r) == {p \in Pieces : place[r][p] = "active"}

Produce(r, p) ==
  /\ \A q \in Runs \ {r} : Active(q) = {}
  /\ place[r][p] = "absent"
  /\ place' = [place EXCEPT ![r][p] = "active"]

Retire(r, p) ==
  /\ place[r][p] = "active"
  /\ place' = [place EXCEPT ![r][p] = "archived"]

Next == \E r \in Runs, p \in Pieces : Produce(r, p) \/ Retire(r, p)

Spec == Init /\ [][Next]_place
=============================================================================
