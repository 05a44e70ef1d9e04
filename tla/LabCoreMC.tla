----------------------------- MODULE LabCoreMC ------------------------------
(* LabCore for TLC: model values are interchangeable, request ids are not.  *)
EXTENDS LabCore, TLC

Ids == Permutations(Devices) \cup Permutations(Clients) \cup Permutations(SessionIds)
         \cup Permutations(Workers)
=============================================================================
