--------------------------- MODULE LabCoreLiveMC ----------------------------
(* LabCore for TLC's liveness checking, which allows no symmetry.  The ids   *)
(* that are drawn at random are drawn in a fixed order instead: session ids  *)
(* upwards, and request id 1 by one client and every other id by the others. *)
EXTENDS LabCore

FirstClient == CHOOSE c \in Clients : TRUE
FirstSession == CHOOSE s \in SessionIds : TRUE

IdsInOrder ==
    /\ \A r \in RequestIds :
         qe'[r].state # "NONE" => (r = 1 <=> qe'[r].clientId = FirstClient)
    /\ \A s \in SessionIds :
         session'[s].state # "NONE" => session'[FirstSession].state # "NONE"

LiveSpec == CoreInit /\ [][CoreNext /\ IdsInOrder]_coreVars /\ Fairness
=============================================================================
