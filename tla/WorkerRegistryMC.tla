-------------------------- MODULE WorkerRegistryMC --------------------------
(* Two worker processes and a registration through the API, for TLC.       *)
EXTENDS WorkerRegistry

CONSTANTS w1, w2, r1

TwoProcesses == {w1, w2}
OneRemote == {r1}
=============================================================================
