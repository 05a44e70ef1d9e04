---------------------------- MODULE ClientPlace ----------------------------
(***************************************************************************)
(* What the store promises each client, without devices and deadlines: it  *)
(* is at one place at a time, in the queue with its request or in its      *)
(* session, and moves between them only as the states of domain.ts say.  A *)
(* request is made once; a session comes out of the queue, belongs to one  *)
(* client, and does not go on once it has been ended.                      *)
(***************************************************************************)
CONSTANTS Clients, Requests, Sessions, None

VARIABLES
    place,   \* of each client: where it is, and the id of its request or session
    made     \* the requests made so far

placeVars == <<place, made>>

At(state, id) == [state |-> state, id |-> id]
Nowhere == At("NONE", None)

InSession(c) == place[c].state \in {"RESERVED", "ACTIVE", "DISCONNECTED"}

Init ==
    /\ place = [c \in Clients |-> Nowhere]
    /\ made = {}

Join(c, r) ==
    /\ place[c] = Nowhere
    /\ r \notin made
    /\ place' = [place EXCEPT ![c] = At("WAITING", r)]
    /\ made' = made \cup {r}

Cancel(c) ==
    /\ place[c].state = "WAITING"
    /\ place' = [place EXCEPT ![c] = Nowhere]
    /\ UNCHANGED made

Serve(c, s) ==
    /\ place[c].state = "WAITING"
    /\ \A other \in Clients : InSession(other) => place[other].id # s
    /\ place' = [place EXCEPT ![c] = At("RESERVED", s)]
    /\ UNCHANGED made

Moves(c, from, to) ==
    /\ place[c].state = from
    /\ place' = [place EXCEPT ![c].state = to]
    /\ UNCHANGED made

End(c) ==
    /\ InSession(c)
    /\ place' = [place EXCEPT ![c] = Nowhere]
    /\ UNCHANGED made

Next ==
    \E c \in Clients :
        \/ \E r \in Requests : Join(c, r)
        \/ \E s \in Sessions : Serve(c, s)
        \/ Cancel(c)
        \/ Moves(c, "RESERVED", "ACTIVE")
        \/ Moves(c, "ACTIVE", "DISCONNECTED")
        \/ Moves(c, "DISCONNECTED", "ACTIVE")
        \/ End(c)

Spec == Init /\ [][Next]_placeVars
=============================================================================
