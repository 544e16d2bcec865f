----------------------------- MODULE MCProcesses -----------------------------
(* Instances of Processes for TLC; the .cfg files give the constants.      *)
EXTENDS Processes, TLC

CONSTANTS w1, b1

\* docker-compose.prod.yml: the worker is given a role, the bot is not.
Deployed == (w1 :> "worker") @@ (b1 :> Unset)
DistinctPids == (w1 :> 8) @@ (b1 :> 7)
=============================================================================
