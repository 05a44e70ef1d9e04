------------------------------ MODULE LabStore ------------------------------
(***************************************************************************)
(* The authoritative state of the device lab: what apps/server keeps in    *)
(* Redis, and the Lua scripts that change it (scheduler/store.ts).  Redis  *)
(* runs a script atomically, so each script is one action; a script that   *)
(* answers an error or "IGNORED" changes nothing and is a stuttering step. *)
(*                                                                         *)
(* Absolute times are abstracted to what the scripts and the reaper ask of *)
(* them: late[s] is the set of the deadlines of session s that have        *)
(* passed, "claim" for now > claimDeadline, "expires" for now > expiresAt, *)
(* "reconnect" for now > reconnectDeadline, "heartbeat" for a last         *)
(* heartbeat older than heartbeatTimeoutMs.  Queue scores keep their order *)
(* and their ties.                                                         *)
(***************************************************************************)
EXTENDS Integers, FiniteSets

CONSTANTS
    Devices,       \* device serials
    Clients,       \* client ids (hashes of client tokens)
    SessionIds,    \* random session ids, each drawn at most once
    RequestIds,    \* random request ids; their order is the ZSET's tie-break
    None,          \* an absent key or field
    MaxFailures    \* config.maxDeviceFailures

ASSUME NoneAssumption == None \notin Devices \cup Clients \cup SessionIds \cup RequestIds
ASSUME RequestIdsAssumption == RequestIds \subseteq Nat
ASSUME MaxFailuresAssumption == MaxFailures \in Nat \ {0}

VARIABLES
    device,         \* device:{id}, state "NONE" when the key is absent
    avail,          \* the set `avail' that the allocator pops
    session,        \* session:{id}, state "NONE" when never written
    late,           \* which deadlines of session:{id} have passed
    sessions,       \* the set `sessions' that the reaper and reconcile list
    fence,          \* fence:{deviceId}
    qe,             \* qe:{requestId}
    queue,          \* members of the ZSET `queue'; the score is enqueuedAt
    clock,          \* largest enqueuedAt so far
    clientSession,  \* client-session:{clientId}
    clientRequest   \* client-request:{clientId}

deviceVars == <<device, avail, fence>>
sessionVars == <<session, late, sessions>>
queueVars == <<qe, queue, clock>>
clientVars == <<clientSession, clientRequest>>
storeVars == <<device, avail, fence, session, late, sessions, qe, queue, clock,
               clientSession, clientRequest>>

-----------------------------------------------------------------------------
(* The values of the state. *)

DeviceStates == {"NONE", "AVAILABLE", "RESERVED", "IN_USE", "CLEANING", "OFFLINE"}
LiveStates == {"RESERVED", "ACTIVE", "DISCONNECTED"}
SessionStates == LiveStates \cup {"NONE", "ENDING", "EXPIRED", "CLEANING", "ENDED"}
QueueStates == {"NONE", "WAITING", "CLAIMED", "CANCELLED", "EXPIRED"}
Deadlines == {"claim", "expires", "reconnect", "heartbeat"}

Device == [state : DeviceStates, currentSessionId : SessionIds \cup {None},
           leaseFence : Nat, failureCount : 0 .. MaxFailures]
Session == [state : SessionStates, clientId : Clients \cup {None},
            deviceId : Devices \cup {None}, leaseFence : Nat]
QueueEntry == [state : QueueStates, clientId : Clients \cup {None}, enqueuedAt : Nat]

NoDevice == [state |-> "NONE", currentSessionId |-> None,
             leaseFence |-> 0, failureCount |-> 0]
NoSession == [state |-> "NONE", clientId |-> None, deviceId |-> None, leaseFence |-> 0]
NoEntry == [state |-> "NONE", clientId |-> None, enqueuedAt |-> 0]

\* `nonterminal' of the Lua helpers (and NONTERMINAL_SESSION_STATES).
nonterminal(state) == state \in {"RESERVED", "ACTIVE", "DISCONNECTED", "ENDING", "CLEANING"}

Live(s) == session[s].state \in LiveStates
Terminating(s) == session[s].state \in {"ENDING", "EXPIRED", "CLEANING", "ENDED"}
Waiting(r) == qe[r].state = "WAITING"

\* The order of the ZSET: by score, ties by member.
Before(r1, r2) ==
    \/ qe[r1].enqueuedAt < qe[r2].enqueuedAt
    \/ qe[r1].enqueuedAt = qe[r2].enqueuedAt /\ r1 < r2

\* Mutated form of IsHead: the order of the members without their scores.
IsHeadById(r) ==
    /\ r \in queue /\ Waiting(r)
    /\ \A other \in queue : Waiting(other) => r <= other

\* The first queue member whose entry is still WAITING.
IsHead(r) ==
    /\ r \in queue /\ Waiting(r)
    /\ \A other \in queue : Waiting(other) => other = r \/ Before(r, other)

\* The deadlines somebody compares with the clock while a session is in `state'.
DeadlinesRead(state) ==
    CASE state = "RESERVED" -> {"claim"}
      [] state = "ACTIVE" -> {"expires", "heartbeat"}
      [] state = "DISCONNECTED" -> {"expires", "reconnect"}
      [] OTHER -> {}

Init ==
    /\ device = [d \in Devices |-> NoDevice]
    /\ avail = {}
    /\ session = [s \in SessionIds |-> NoSession]
    /\ late = [s \in SessionIds |-> {}]
    /\ sessions = {}
    /\ fence = [d \in Devices |-> 0]
    /\ qe = [r \in RequestIds |-> NoEntry]
    /\ queue = {}
    /\ clock = 0
    /\ clientSession = [c \in Clients |-> None]
    /\ clientRequest = [c \in Clients |-> None]

-----------------------------------------------------------------------------
(* The device registry, written at bootstrap. *)

\* registerDevice: a configured serial Redis does not know yet.
RegisterDevice(d, online) ==
    /\ device[d].state = "NONE"
    /\ device' = [device EXCEPT ![d] =
                    [NoDevice EXCEPT !.state = IF online THEN "AVAILABLE" ELSE "OFFLINE"]]
    /\ avail' = IF online THEN avail \cup {d} ELSE avail \ {d}
    /\ UNCHANGED <<fence, sessionVars, queueVars, clientVars>>

\* unregisterDevice: a serial dropped from the configuration, never a bound one.
UnregisterDevice(d) ==
    /\ device[d].state # "NONE"
    /\ device[d].currentSessionId = None
    /\ device' = [device EXCEPT ![d] = NoDevice]
    /\ avail' = avail \ {d}
    /\ UNCHANGED <<fence, sessionVars, queueVars, clientVars>>

\* setDeviceAvailability: SADD or SREM, whatever the device's state by now.
SetDeviceAvailability(d, available) ==
    /\ avail' = IF available THEN avail \cup {d} ELSE avail \ {d}
    /\ UNCHANGED <<device, fence, sessionVars, queueVars, clientVars>>

-----------------------------------------------------------------------------
(* The queue. *)

\* Mutated form of HasSession: a reservation does not count.
HasClaimedSession(c) ==
    clientSession[c] # None /\ session[clientSession[c]].state \in {"ACTIVE", "DISCONNECTED"}

HasSession(c) ==
    clientSession[c] # None /\ nonterminal(session[clientSession[c]].state)
HasRequest(c) == clientRequest[c] # None /\ Waiting(clientRequest[c])

\* joinQueue with the fresh id r.  The score is the server's clock: the same
\* millisecond as the previous join, or a later one.
JoinQueue(c, r) ==
    /\ qe[r].state = "NONE"
    /\ ~HasSession(c)
    /\ clientSession' = [clientSession EXCEPT ![c] = None]
    /\ IF HasRequest(c)
         THEN UNCHANGED <<queueVars, clientRequest>>
         ELSE \E t \in {clock, clock + 1} :
                /\ clock' = t
                /\ qe' = [qe EXCEPT ![r] =
                            [state |-> "WAITING", clientId |-> c, enqueuedAt |-> t]]
                /\ queue' = queue \cup {r}
                /\ clientRequest' = [clientRequest EXCEPT ![c] = r]
    /\ UNCHANGED <<deviceVars, sessionVars>>

\* cancelRequest on behalf of client c.
CancelRequest(c, r) ==
    /\ Waiting(r)
    /\ qe[r].clientId = c
    /\ qe' = [qe EXCEPT ![r].state = "CANCELLED"]
    /\ queue' = queue \ {r}
    /\ clientRequest' = [clientRequest EXCEPT ![c] = None]
    /\ UNCHANGED <<clock, clientSession, deviceVars, sessionVars>>

-----------------------------------------------------------------------------
(* The allocator.  SPOP takes any member of avail: the four outcomes of the *)
(* script are that there is none (no step), that the popped entry was stale,*)
(* that nobody waits (the device is put back), and a reservation.           *)

AllocateStale(d) ==
    /\ d \in avail
    /\ device[d].state # "AVAILABLE"
    /\ avail' = avail \ {d}
    /\ UNCHANGED <<device, fence, sessionVars, queueVars, clientVars>>

AllocateIdle(d) ==
    /\ d \in avail
    /\ device[d].state = "AVAILABLE"
    /\ \A r \in queue : ~Waiting(r)
    /\ queue' = {}
    /\ UNCHANGED <<qe, clock, deviceVars, sessionVars, clientVars>>

\* Mutated form of NextFence: counts in the device record, not in fence:{id}.
NextFenceOfRecord(d) == device[d].leaseFence + 1

\* INCR fence:{deviceId}.
NextFence(d) == fence[d] + 1

AllocateTo(d, r, s) ==
    /\ d \in avail
    /\ device[d].state = "AVAILABLE"
    /\ IsHead(r)
    /\ session[s].state = "NONE"
    /\ fence' = [fence EXCEPT ![d] = NextFence(d)]
    /\ session' = [session EXCEPT ![s] =
                     [state |-> "RESERVED", clientId |-> qe[r].clientId, deviceId |-> d,
                      leaseFence |-> NextFence(d)]]
    /\ late' = [late EXCEPT ![s] = {}]
    /\ sessions' = sessions \cup {s}
    /\ device' = [device EXCEPT ![d] =
                    [state |-> "RESERVED", currentSessionId |-> s, leaseFence |-> NextFence(d),
                     failureCount |-> device[d].failureCount]]
    /\ avail' = avail \ {d}
    /\ queue' = {other \in queue : other # r /\ (Waiting(other) \/ Before(r, other))}
    /\ qe' = [qe EXCEPT ![r].state = "CLAIMED"]
    /\ clientSession' = [clientSession EXCEPT ![qe[r].clientId] = s]
    /\ clientRequest' = [clientRequest EXCEPT ![qe[r].clientId] = None]
    /\ UNCHANGED clock

-----------------------------------------------------------------------------
(* The life of a session. *)

\* claim: RESERVED to ACTIVE, restarting every deadline.
Claim(c, s) ==
    /\ session[s].state = "RESERVED"
    /\ session[s].clientId = c
    /\ "claim" \notin late[s]
    /\ session' = [session EXCEPT ![s].state = "ACTIVE"]
    /\ late' = [late EXCEPT ![s] = {}]
    /\ device' = [device EXCEPT ![session[s].deviceId].state = "IN_USE"]
    /\ UNCHANGED <<avail, fence, sessions, queueVars, clientVars>>

\* A heartbeat of the client itself; a renewal by the reaper only touches the
\* lease key, which no decision reads.
Heartbeat(c, s) ==
    /\ nonterminal(session[s].state)
    /\ session[s].clientId = c
    /\ late' = [late EXCEPT ![s] = @ \ {"heartbeat"}]
    /\ UNCHANGED <<session, sessions, deviceVars, queueVars, clientVars>>

MarkDisconnected(s) ==
    /\ session[s].state = "ACTIVE"
    /\ session' = [session EXCEPT ![s].state = "DISCONNECTED"]
    /\ late' = [late EXCEPT ![s] = @ \ {"reconnect"}]
    /\ UNCHANGED <<sessions, deviceVars, queueVars, clientVars>>

\* Mutated form of Reconnect: resumes a session the reaper has expired.
ReconnectExpired(c, s) ==
    /\ session[s].state \in {"DISCONNECTED", "EXPIRED"}
    /\ session[s].clientId = c
    /\ "reconnect" \notin late[s]
    /\ session' = [session EXCEPT ![s].state = "ACTIVE"]
    /\ late' = [late EXCEPT ![s] = @ \ {"reconnect", "heartbeat"}]
    /\ clientSession' = [clientSession EXCEPT ![c] = s]
    /\ UNCHANGED <<sessions, clientRequest, deviceVars, queueVars>>

Reconnect(c, s) ==
    /\ session[s].state = "DISCONNECTED"
    /\ session[s].clientId = c
    /\ "reconnect" \notin late[s]
    /\ session' = [session EXCEPT ![s].state = "ACTIVE"]
    /\ late' = [late EXCEPT ![s] = @ \ {"reconnect", "heartbeat"}]
    /\ clientSession' = [clientSession EXCEPT ![c] = s]
    /\ UNCHANGED <<sessions, clientRequest, deviceVars, queueVars>>

\* beginTermination.  No caller passes expectedFence.
BeginTermination(s, terminalState) ==
    LET d == session[s].deviceId IN
    /\ Live(s)
    /\ session' = [session EXCEPT ![s].state = terminalState]
    /\ clientSession' = [clientSession EXCEPT ![session[s].clientId] = None]
    /\ device' = IF device[d].currentSessionId = s
                   THEN [device EXCEPT ![d].state = "CLEANING"] ELSE device
    /\ UNCHANGED <<avail, fence, late, sessions, clientRequest, queueVars>>

\* The record of a device no session owns any more.
Unbound(dev, state, failures) ==
    [state |-> state, currentSessionId |-> None, leaseFence |-> dev.leaseFence,
     failureCount |-> failures]

\* Mutated form of Cleaned: one failed attempt too many.
CleanedLate(dev, ok) ==
    IF ok THEN Unbound(dev, "AVAILABLE", 0)
    ELSE IF dev.failureCount + 1 > MaxFailures
      THEN Unbound(dev, "OFFLINE", dev.failureCount + 1)
      ELSE [dev EXCEPT !.failureCount = @ + 1]

\* What finishCleanup makes of the device.
Cleaned(dev, ok) ==
    IF ok THEN Unbound(dev, "AVAILABLE", 0)
    ELSE IF dev.failureCount + 1 >= MaxFailures
      THEN Unbound(dev, "OFFLINE", dev.failureCount + 1)
      ELSE [dev EXCEPT !.failureCount = @ + 1]

\* Mutated form of BoundTo: trusts the worker's device id.
BoundToAny(d, s) == device[d].currentSessionId # None

BoundTo(d, s) == device[d].currentSessionId = s

\* finishCleanup.  With another session on the device (STALE) or no device
\* only the session is closed.
FinishCleanup(s, d, ok) ==
    /\ session' = [session EXCEPT ![s].state = "ENDED"]
    /\ sessions' = sessions \ {s}
    /\ IF BoundTo(d, s)
         THEN /\ device' = [device EXCEPT ![d] = Cleaned(device[d], ok)]
              /\ avail' = IF ok THEN avail \cup {d} ELSE avail
         ELSE UNCHANGED <<device, avail>>
    /\ UNCHANGED <<fence, late, queueVars, clientVars>>

-----------------------------------------------------------------------------
(* healthUpdate, one action per branch that changes something. *)

HealthOffline(d) ==
    /\ device[d].state = "AVAILABLE"
    /\ device' = [device EXCEPT ![d].state = "OFFLINE"]
    /\ avail' = avail \ {d}
    /\ UNCHANGED <<fence, sessionVars, queueVars, clientVars>>

HealthRecovered(d) ==
    /\ device[d].state = "OFFLINE"
    /\ device[d].currentSessionId = None
    /\ device' = [device EXCEPT ![d] = Unbound(device[d], "AVAILABLE", 0)]
    /\ avail' = avail \cup {d}
    /\ UNCHANGED <<fence, sessionVars, queueVars, clientVars>>

HealthSelfHeal(d) ==
    /\ device[d].state = "AVAILABLE"
    /\ avail' = avail \cup {d}
    /\ UNCHANGED <<device, fence, sessionVars, queueVars, clientVars>>

-----------------------------------------------------------------------------
\* External: a deadline that is being watched passes.
DeadlinePasses(s, x) ==
    /\ x \in DeadlinesRead(session[s].state) \ late[s]
    /\ late' = [late EXCEPT ![s] = @ \cup {x}]
    /\ UNCHANGED <<session, sessions, deviceVars, queueVars, clientVars>>

-----------------------------------------------------------------------------
(* The store as its callers use it.  Ids are fresh when they are drawn; a   *)
(* cleanup worker exists only for a session that has left its live states   *)
(* and cleans the device of that session.                                   *)

DeviceNext(d) ==
    \/ \E online \in BOOLEAN : RegisterDevice(d, online)
    \/ UnregisterDevice(d)
    \/ \E available \in BOOLEAN : SetDeviceAvailability(d, available)
    \/ AllocateStale(d)
    \/ AllocateIdle(d)
    \/ \E r \in RequestIds, s \in SessionIds : AllocateTo(d, r, s)
    \/ HealthOffline(d)
    \/ HealthRecovered(d)
    \/ HealthSelfHeal(d)

ClientNext(c) ==
    \/ \E r \in RequestIds : JoinQueue(c, r) \/ CancelRequest(c, r)
    \/ \E s \in SessionIds : Claim(c, s) \/ Heartbeat(c, s) \/ Reconnect(c, s)

SessionNext(s) ==
    \/ MarkDisconnected(s)
    \/ \E terminalState \in {"ENDING", "EXPIRED"} : BeginTermination(s, terminalState)
    \/ \E ok \in BOOLEAN : Terminating(s) /\ FinishCleanup(s, session[s].deviceId, ok)
    \/ \E x \in Deadlines : DeadlinePasses(s, x)

Next ==
    \/ \E d \in Devices : DeviceNext(d)
    \/ \E c \in Clients : ClientNext(c)
    \/ \E s \in SessionIds : SessionNext(s)

Spec == Init /\ [][Next]_storeVars

-----------------------------------------------------------------------------
(* Properties. *)

\* Every key holds a value of its type; in particular a device is taken
\* OFFLINE before its failureCount exceeds maxDeviceFailures.
TypeOK ==
    /\ device \in [Devices -> Device]
    /\ avail \in SUBSET Devices
    /\ session \in [SessionIds -> Session]
    /\ late \in [SessionIds -> SUBSET Deadlines]
    /\ sessions \in SUBSET SessionIds
    /\ fence \in [Devices -> Nat]
    /\ qe \in [RequestIds -> QueueEntry]
    /\ queue \in SUBSET RequestIds
    /\ clock \in Nat
    /\ clientSession \in [Clients -> SessionIds \cup {None}]
    /\ clientRequest \in [Clients -> RequestIds \cup {None}]

\* A live session is the one its device is bound to, under the device's
\* current fence, and the device's state follows the session's.
OwnsItsDevice(s) ==
    Live(s) => LET d == session[s].deviceId IN
        /\ d \in Devices
        /\ device[d].currentSessionId = s
        /\ device[d].leaseFence = session[s].leaseFence
        /\ session[s].leaseFence = fence[d]
        /\ device[d].state = IF session[s].state = "RESERVED" THEN "RESERVED" ELSE "IN_USE"

\* A device is bound exactly while it is RESERVED, IN_USE or CLEANING, to a
\* session that was granted this device, and CLEANING once that session ended.
\* Until it is freed it has cleanup attempts left.
BindingOf(d) ==
    LET s == device[d].currentSessionId IN
    IF s = None
      THEN /\ device[d].state \in {"NONE", "AVAILABLE", "OFFLINE"}
           /\ device[d].state = "AVAILABLE" => device[d].failureCount = 0
      ELSE /\ session[s].deviceId = d
           /\ session[s].state # "NONE"
           /\ device[d].state \in {"RESERVED", "IN_USE", "CLEANING"}
           /\ Live(s) <=> device[d].state # "CLEANING"
           /\ device[d].failureCount < MaxFailures

\* The keys of devices and sessions agree after every script: an externally
\* visible state never shows a device and a session that disagree about who
\* owns whom (store.ts, "no externally visible state can ever show one device
\* assigned to two sessions").
OwnershipAgrees ==
    /\ \A s \in SessionIds : OwnsItsDevice(s)
    /\ \A d \in Devices : BindingOf(d)

\* A device never serves two sessions under the same fence, not even after it
\* was unregistered and registered again ("fencing tokens only move forward").
FencesNeverReused ==
    \A s \in SessionIds : session[s].state # "NONE" =>
        /\ session[s].deviceId \in Devices
        /\ session[s].leaseFence \in 1 .. fence[session[s].deviceId]
        /\ \A t \in SessionIds :
             session[t].state # "NONE" /\ t # s /\ session[t].deviceId = session[s].deviceId
               => session[t].leaseFence # session[s].leaseFence

\* The two indexes name exactly what is current: ...
SessionIndexed(s) ==
    Live(s) =>
        /\ session[s].clientId \in Clients
        /\ clientSession[session[s].clientId] = s
        /\ clientRequest[session[s].clientId] = None

RequestIndexed(r) ==
    /\ r \in queue <=> Waiting(r)
    /\ Waiting(r) => qe[r].clientId \in Clients /\ clientRequest[qe[r].clientId] = r

IndexesOf(c) ==
    LET s == clientSession[c]
        r == clientRequest[c] IN
    /\ s # None => Live(s) /\ session[s].clientId = c
    /\ r # None => Waiting(r) /\ qe[r].clientId = c

\* ... a client has at most one place in the lab, a waiting request in the queue
\* or a live session, and client-request and client-session name it, whatever
\* joins, cancellations, allocations and terminations were interleaved.
OnePlacePerClient ==
    /\ \A s \in SessionIds : SessionIndexed(s)
    /\ \A r \in RequestIds : RequestIndexed(r)
    /\ \A c \in Clients : IndexesOf(c)

\* Nobody is served before a request that joined in an earlier millisecond and
\* is still waiting (ANSWERS.md, "a fair queue that new arrivals cannot jump").
NoOvertaking ==
    \A r1, r2 \in RequestIds :
        Waiting(r1) /\ qe[r2].state = "CLAIMED" => qe[r2].enqueuedAt <= qe[r1].enqueuedAt

\* Scores are readings of the server's clock.
EnqueuedByClock == \A r \in RequestIds : qe[r].enqueuedAt <= clock

-----------------------------------------------------------------------------
(* The store implements the lease specification. *)

LeaseStatus(s) ==
    IF session[s].state = "NONE" THEN "fresh" ELSE IF Live(s) THEN "valid" ELSE "revoked"

Leases == INSTANCE DeviceLease WITH
    Sessions <- SessionIds,
    holder <- [d \in Devices |-> device[d].currentSessionId],
    token <- fence,
    lease <- [s \in SessionIds |-> [status |-> LeaseStatus(s), device |-> session[s].deviceId,
                                    token |-> session[s].leaseFence]]

\* Scripts step, or stutter, as DeviceLease allows: a lease is granted only on
\* a free device under a larger token, and a device is freed only after the
\* lease of its session was revoked.
ImplementsLeases == Leases!Spec

-----------------------------------------------------------------------------
(* The store implements the specification of a client's place. *)

\* Where the two indexes say a client is.
Place(c) ==
    IF clientRequest[c] # None THEN [state |-> "WAITING", id |-> clientRequest[c]]
    ELSE IF clientSession[c] # None
      THEN [state |-> session[clientSession[c]].state, id |-> clientSession[c]]
      ELSE [state |-> "NONE", id |-> None]

ClientPlaces == INSTANCE ClientPlace WITH
    Requests <- RequestIds,
    Sessions <- SessionIds,
    place <- [c \in Clients |-> Place(c)],
    made <- {r \in RequestIds : qe[r].state # "NONE"}

\* Scripts move a client as ClientPlace allows, whatever was read before they ran: a
\* request is made by a client that is nowhere, a session goes to a client that waits,
\* and one that has been ended, by whomever, is not resumed by a late claim, reconnect,
\* disconnect or cleanup.
ImplementsPlaces == ClientPlaces!Spec
=============================================================================
