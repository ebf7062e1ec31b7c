---------------------------- MODULE GatedRelease ----------------------------
(***************************************************************************)
(* What the tuning pipeline promises, without its loop: a job has a        *)
(* candidate text, which may be replaced; a gate holds at most one verdict *)
(* on a job, the text it last passed; a text is released only while every  *)
(* required gate's verdict is about exactly this text, and a released job  *)
(* changes no more.                                                        *)
(***************************************************************************)
EXTENDS Integers

CONSTANTS Jobs, Gates, Texts, None

VARIABLES
  required,            \* the gates this run requires
  candidate,           \* per job: its present text
  verdict,             \* per job and gate: the text the gate passed last
  released             \* per job: the text that was released

gateVars == <<required, candidate, verdict, released>>

Init ==
  /\ required \in SUBSET Gates
  /\ candidate = [j \in Jobs |-> None]
  /\ verdict = [j \in Jobs |-> [g \in Gates |-> None]]
  /\ released = [j \in Jobs |-> None]

Propose(j) ==
  /\ released[j] = None
  /\ candidate'[j] \in Texts
  /\ candidate' = [candidate EXCEPT ![j] = candidate'[j]]
  /\ UNCHANGED <<required, verdict, released>>

(* Gates pass the present text, withdraw, or stay silent.                  *)
Judge ==
  /\ verdict' \in [Jobs -> [Gates -> Texts \cup {None}]]
  /\ \A j \in Jobs, g \in Gates :
       IF released[j] = None
       THEN verdict'[j][g] \in {verdict[j][g], candidate[j], None}
       ELSE verdict'[j][g] = verdict[j][g]
  /\ UNCHANGED <<required, candidate, released>>

Cleared(j) == \A g \in required : verdict[j][g] = candidate[j]

Release(j) ==
  /\ candidate[j] # None /\ released[j] = None /\ Cleared(j)
  /\ released' = [released EXCEPT ![j] = candidate[j]]
  /\ UNCHANGED <<required, candidate, verdict>>

Next == (\E j \in Jobs : Propose(j) \/ Release(j)) \/ Judge

Spec == Init /\ [][Next]_gateVars
=============================================================================
