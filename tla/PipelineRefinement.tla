------------------------- MODULE PipelineRefinement -------------------------
(* The pipeline implements GatedRelease.  Every critic is a gate of its    *)
(* own, Oracle validation and the benchmark are two more; a run that       *)
(* requires critics but has none requires a gate nothing passes.           *)
EXTENDS PipelineInv

OracleGate == -1
SpeedGate  == -2
NoGate     == -3
AllGates   == Critics \cup {OracleGate, SpeedGate, NoGate}

RequiredGates ==
  (IF ~ cfg.require_critic_approval THEN {}
   ELSE IF cfg.critics = {} THEN {NoGate} ELSE cfg.critics)
  \cup (IF cfg.require_oracle_validation THEN {OracleGate} ELSE {})
  \cup (IF cfg.execute_benchmark THEN {SpeedGate} ELSE {})

CriticSays(j, c) == IF critiques[j][c].ok THEN critiques[j][c].on ELSE None
OracleSays(j) == IF benchmark[j].oracle_validation_passed = "pass"
                 THEN validated[j] ELSE None
SpeedSays(j) == IF benchmark[j].improved = "pass" THEN measured[j] ELSE None

Says(j, g) == IF g \in Critics THEN CriticSays(j, g)
              ELSE IF g = OracleGate THEN OracleSays(j)
              ELSE IF g = SpeedGate THEN SpeedSays(j)
              ELSE None

Verdicts == [j \in Jobs |-> [g \in AllGates |-> Says(j, g)]]

Promise == INSTANCE GatedRelease WITH
  Gates <- AllGates, Texts <- Nat, required <- RequiredGates,
  candidate <- tuned, verdict <- Verdicts, released <- accepted

(* Whatever the loop does, what it releases is released by the rules of    *)
(* GatedRelease: a rewrite, a stale verdict or a retry can neither slip    *)
(* past a required gate nor touch a job that was released.                 *)
ReleasesAsPromised == Promise!Spec
=============================================================================
