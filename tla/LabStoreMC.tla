----------------------------- MODULE LabStoreMC -----------------------------
(* LabStore for TLC: model values for devices, clients and sessions, numbers *)
(* for request ids, because the ZSET orders them.                            *)
EXTENDS LabStore, TLC

Ids == Permutations(Devices) \cup Permutations(Clients) \cup Permutations(SessionIds)
=============================================================================
