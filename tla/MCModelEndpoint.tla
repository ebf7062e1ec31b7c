-------------------------- MODULE MCModelEndpoint --------------------------
(* Runs and models for model-checking ModelEndpoint.                       *)
EXTENDS ModelEndpoint

WriterCriticWriter == [r \in Runs |-> IF r = 1 THEN <<1, 2, 1>> ELSE <<2>>]
SameWorkspace == [r \in Runs |-> "w"]

(* The lock does not keep these apart; see the README.                     *)
OwnWorkspaces == [r \in Runs |-> r]
=============================================================================
