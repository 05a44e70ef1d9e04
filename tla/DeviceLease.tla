---------------------------- MODULE DeviceLease ----------------------------
(***************************************************************************)
(* What the store promises about ownership, without queues, clients,       *)
(* device states or deadlines: a free device is granted to a session that  *)
(* never had a lease, under a strictly larger fencing token; a lease is    *)
(* revoked once and for good; only then does the device become free again. *)
(***************************************************************************)
EXTENDS Integers

CONSTANTS Devices, Sessions, None

VARIABLES
    holder,   \* the session a device is bound to, None when it is free
    token,    \* the last fencing token issued for a device
    lease     \* of each session: its device, its token and its status

leaseVars == <<holder, token, lease>>

Lease == [status : {"fresh", "valid", "revoked"}, device : Devices \cup {None}, token : Nat]

NoLease == [status |-> "fresh", device |-> None, token |-> 0]

Init ==
    /\ holder = [d \in Devices |-> None]
    /\ token = [d \in Devices |-> 0]
    /\ lease = [s \in Sessions |-> NoLease]

Grant(d, s) ==
    /\ holder[d] = None
    /\ lease[s].status = "fresh"
    /\ holder' = [holder EXCEPT ![d] = s]
    /\ token' = [token EXCEPT ![d] = token[d] + 1]
    /\ lease' = [lease EXCEPT ![s] =
                   [status |-> "valid", device |-> d, token |-> token[d] + 1]]

Revoke(s) ==
    /\ lease[s].status = "valid"
    /\ lease' = [lease EXCEPT ![s].status = "revoked"]
    /\ UNCHANGED <<holder, token>>

Release(d) ==
    /\ holder[d] # None
    /\ lease[holder[d]].status = "revoked"
    /\ holder' = [holder EXCEPT ![d] = None]
    /\ UNCHANGED <<token, lease>>

Next ==
    \/ \E d \in Devices, s \in Sessions : Grant(d, s)
    \/ \E s \in Sessions : Revoke(s)
    \/ \E d \in Devices : Release(d)

Spec == Init /\ [][Next]_leaseVars
=============================================================================
