--------------------------- MODULE LabStoreProofs ---------------------------
(* Theorems about LabStore, for every set of devices, clients and ids.      *)
EXTENDS LabStore, TLAPS

-----------------------------------------------------------------------------
(* Type correctness.  It rests on OwnershipAgrees: only a device that is     *)
(* bound has its failureCount raised, and then it has attempts left.         *)

\* A cleanup attempt leaves a well-formed device record, provided the device
\* had attempts left.
LEMMA CleanedType ==
    ASSUME NEW dev \in Device, NEW ok \in BOOLEAN, dev.failureCount < MaxFailures
    PROVE  Cleaned(dev, ok) \in Device
<1>1. dev.failureCount + 1 \in 0 .. MaxFailures
  BY MaxFailuresAssumption DEF Device
<1>2. 0 \in 0 .. MaxFailures
  BY MaxFailuresAssumption
<1>3. QED
  BY <1>1, <1>2 DEF Cleaned, Unbound, Device, DeviceStates

\* Moving a device to another state keeps the device records well formed.
LEMMA DeviceStateType ==
    ASSUME NEW table \in [Devices -> Device], NEW d, NEW state \in DeviceStates
    PROVE  [table EXCEPT ![d].state = state] \in [Devices -> Device]
  BY DEF Device

LEMMA TypeInit == Init => TypeOK
  BY MaxFailuresAssumption
     DEF Init, TypeOK, Device, Session, QueueEntry, NoDevice, NoSession, NoEntry,
         DeviceStates, SessionStates, LiveStates, QueueStates

LEMMA TypeNext == TypeOK /\ OwnershipAgrees /\ FencesNeverReused /\ [Next]_storeVars => TypeOK'
<1> SUFFICES ASSUME TypeOK, OwnershipAgrees, FencesNeverReused, [Next]_storeVars PROVE TypeOK'
  OBVIOUS
<1> USE DEF TypeOK, deviceVars, sessionVars, queueVars, clientVars
<1>1. ASSUME NEW d \in Devices, NEW online \in BOOLEAN, RegisterDevice(d, online)
      PROVE  TypeOK'
  <2>1. [NoDevice EXCEPT !.state = IF online THEN "AVAILABLE" ELSE "OFFLINE"] \in Device
    BY MaxFailuresAssumption DEF NoDevice, Device, DeviceStates
  <2>2. QED
    BY <1>1, <2>1 DEF RegisterDevice
<1>2. ASSUME NEW d \in Devices, UnregisterDevice(d)
      PROVE  TypeOK'
  BY <1>2, MaxFailuresAssumption DEF UnregisterDevice, NoDevice, Device, DeviceStates
<1>3. ASSUME NEW d \in Devices, NEW available \in BOOLEAN, SetDeviceAvailability(d, available)
      PROVE  TypeOK'
  BY <1>3 DEF SetDeviceAvailability
<1>4. ASSUME NEW d \in Devices, AllocateStale(d) \/ AllocateIdle(d)
      PROVE  TypeOK'
  BY <1>4 DEF AllocateStale, AllocateIdle
<1>5. ASSUME NEW d \in Devices, NEW r \in RequestIds, NEW s \in SessionIds, AllocateTo(d, r, s)
      PROVE  TypeOK'
  <2>1. NextFence(d) \in Nat
    BY DEF NextFence
  <2>2. device' \in [Devices -> Device]
    BY <1>5, <2>1 DEF AllocateTo, Device, DeviceStates
  <2>3. session' \in [SessionIds -> Session]
    BY <1>5, <2>1 DEF AllocateTo, Session, SessionStates, LiveStates, QueueEntry
  <2>4. fence' \in [Devices -> Nat] /\ late' \in [SessionIds -> SUBSET Deadlines]
    BY <1>5, <2>1 DEF AllocateTo
  <2>5. qe' \in [RequestIds -> QueueEntry]
    BY <1>5 DEF AllocateTo, QueueEntry, QueueStates
  <2>6. /\ clientSession' \in [Clients -> SessionIds \cup {None}]
        /\ clientRequest' \in [Clients -> RequestIds \cup {None}]
    BY <1>5 DEF AllocateTo, QueueEntry
  <2>7. QED
    BY <1>5, <2>2, <2>3, <2>4, <2>5, <2>6 DEF AllocateTo
<1>6. ASSUME NEW d \in Devices, HealthOffline(d) \/ HealthRecovered(d) \/ HealthSelfHeal(d)
      PROVE  TypeOK'
  <2>1. \A state \in DeviceStates : Unbound(device[d], state, 0) \in Device
    BY MaxFailuresAssumption DEF Unbound, Device
  <2>2. device' \in [Devices -> Device]
    BY <1>6, <2>1 DEF HealthOffline, HealthRecovered, HealthSelfHeal, Device, DeviceStates
  <2>3. QED
    BY <1>6, <2>2 DEF HealthOffline, HealthRecovered, HealthSelfHeal
<1>7. ASSUME NEW c \in Clients, NEW r \in RequestIds, JoinQueue(c, r)
      PROVE  TypeOK'
  <2>1. CASE HasRequest(c)
    BY <1>7, <2>1 DEF JoinQueue
  <2>2. CASE ~HasRequest(c)
    BY <1>7, <2>2 DEF JoinQueue, QueueEntry, QueueStates
  <2>3. QED
    BY <2>1, <2>2
<1>8. ASSUME NEW c \in Clients, NEW r \in RequestIds, CancelRequest(c, r)
      PROVE  TypeOK'
  BY <1>8 DEF CancelRequest, QueueEntry, QueueStates
<1>9. ASSUME NEW c \in Clients, NEW s \in SessionIds, Claim(c, s)
      PROVE  TypeOK'
  <2>1. session' \in [SessionIds -> Session]
    BY <1>9 DEF Claim, Session, SessionStates, LiveStates
  <2>2. device' \in [Devices -> Device]
    BY <1>9, DeviceStateType DEF Claim, DeviceStates
  <2>3. QED
    BY <1>9, <2>1, <2>2 DEF Claim
<1>10. ASSUME NEW c \in Clients, NEW s \in SessionIds, Heartbeat(c, s)
       PROVE  TypeOK'
  BY <1>10 DEF Heartbeat
<1>11. ASSUME NEW c \in Clients, NEW s \in SessionIds, Reconnect(c, s)
       PROVE  TypeOK'
  BY <1>11 DEF Reconnect, Session, SessionStates, LiveStates
<1>12. ASSUME NEW s \in SessionIds, MarkDisconnected(s)
       PROVE  TypeOK'
  BY <1>12 DEF MarkDisconnected, Session, SessionStates, LiveStates
<1>13. ASSUME NEW s \in SessionIds, NEW terminalState \in {"ENDING", "EXPIRED"},
              BeginTermination(s, terminalState)
       PROVE  TypeOK'
  <2>1. session' \in [SessionIds -> Session]
    BY <1>13 DEF BeginTermination, Session, SessionStates
  <2>2. device' \in [Devices -> Device]
    BY <1>13, DeviceStateType DEF BeginTermination, DeviceStates
  <2>3. clientSession' \in [Clients -> SessionIds \cup {None}]
    BY <1>13 DEF BeginTermination
  <2>4. QED
    BY <1>13, <2>1, <2>2, <2>3 DEF BeginTermination
<1>14. ASSUME NEW s \in SessionIds, NEW ok \in BOOLEAN,
              Terminating(s), FinishCleanup(s, session[s].deviceId, ok)
       PROVE  TypeOK'
  <2> DEFINE d == session[s].deviceId
  <2>1. d \in Devices
    BY <1>14 DEF FencesNeverReused, Terminating
  <2>2. session' \in [SessionIds -> Session]
    BY <1>14 DEF FinishCleanup, Session, SessionStates
  <2>3. device' \in [Devices -> Device] /\ avail' \in SUBSET Devices
    <3>1. CASE BoundTo(d, s)
      <4>1. Cleaned(device[d], ok) \in Device
        BY <2>1, <3>1, CleanedType, NoneAssumption DEF BoundTo, OwnershipAgrees, BindingOf
      <4>2. QED
        BY <1>14, <2>1, <3>1, <4>1 DEF FinishCleanup
    <3>2. CASE ~BoundTo(d, s)
      BY <1>14, <3>2 DEF FinishCleanup
    <3>3. QED
      BY <3>1, <3>2
  <2>4. QED
    BY <1>14, <2>2, <2>3 DEF FinishCleanup
<1>15. ASSUME NEW s \in SessionIds, NEW x \in Deadlines, DeadlinePasses(s, x)
       PROVE  TypeOK'
  BY <1>15 DEF DeadlinePasses
<1>16. CASE UNCHANGED storeVars
  BY <1>16 DEF storeVars
<1>17. QED
  BY <1>1, <1>2, <1>3, <1>4, <1>5, <1>6, <1>7, <1>8, <1>9, <1>10, <1>11, <1>12, <1>13, <1>14,
     <1>15, <1>16
     DEF Next, DeviceNext, ClientNext, SessionNext

-----------------------------------------------------------------------------
(* Fences. *)

\* A step that grants nothing keeps every fence and every session's grant.
GrantsKept ==
    /\ fence' = fence
    /\ \A s \in SessionIds :
         /\ session'[s].deviceId = session[s].deviceId
         /\ session'[s].leaseFence = session[s].leaseFence
         /\ session'[s].state = "NONE" <=> session[s].state = "NONE"

LEMMA OnlyAllocateGrants ==
    ASSUME TypeOK, [Next]_storeVars,
           ~ \E d \in Devices, r \in RequestIds, s \in SessionIds : AllocateTo(d, r, s)
    PROVE  GrantsKept
<1> USE DEF TypeOK, Session, deviceVars, sessionVars, GrantsKept
<1>1. ASSUME NEW d \in Devices, DeviceNext(d)
      PROVE  fence' = fence /\ session' = session
  BY <1>1 DEF DeviceNext, RegisterDevice, UnregisterDevice, SetDeviceAvailability,
              AllocateStale, AllocateIdle, HealthOffline, HealthRecovered, HealthSelfHeal
<1>2. ASSUME NEW c \in Clients, NEW r \in RequestIds, JoinQueue(c, r) \/ CancelRequest(c, r)
      PROVE  fence' = fence /\ session' = session
  BY <1>2 DEF JoinQueue, CancelRequest
<1>3. ASSUME NEW c \in Clients, NEW s \in SessionIds, Claim(c, s)
      PROVE  GrantsKept
  BY <1>3 DEF Claim
<1>4. ASSUME NEW c \in Clients, NEW s \in SessionIds, Heartbeat(c, s)
      PROVE  GrantsKept
  BY <1>4 DEF Heartbeat
<1>5. ASSUME NEW c \in Clients, NEW s \in SessionIds, Reconnect(c, s)
      PROVE  GrantsKept
  BY <1>5 DEF Reconnect
<1>6. ASSUME NEW s \in SessionIds, MarkDisconnected(s)
      PROVE  GrantsKept
  BY <1>6 DEF MarkDisconnected
<1>7. ASSUME NEW s \in SessionIds, NEW terminalState \in {"ENDING", "EXPIRED"},
             BeginTermination(s, terminalState)
      PROVE  GrantsKept
  BY <1>7 DEF BeginTermination, Live, LiveStates
<1>8. ASSUME NEW s \in SessionIds, NEW ok \in BOOLEAN,
             Terminating(s), FinishCleanup(s, session[s].deviceId, ok)
      PROVE  GrantsKept
  BY <1>8 DEF FinishCleanup, Terminating
<1>9. ASSUME NEW s \in SessionIds, NEW x \in Deadlines, DeadlinePasses(s, x)
      PROVE  GrantsKept
  BY <1>9 DEF DeadlinePasses
<1>10. CASE UNCHANGED storeVars
  BY <1>10 DEF storeVars
<1>11. QED
  BY <1>1, <1>2, <1>3, <1>4, <1>5, <1>6, <1>7, <1>8, <1>9, <1>10
     DEF Next, ClientNext, SessionNext

LEMMA FencesInit == Init => FencesNeverReused
  BY DEF Init, FencesNeverReused, NoSession

LEMMA FencesNext == TypeOK /\ FencesNeverReused /\ [Next]_storeVars => FencesNeverReused'
<1> SUFFICES ASSUME TypeOK, FencesNeverReused, [Next]_storeVars PROVE FencesNeverReused'
  OBVIOUS
<1>1. CASE ~ \E d \in Devices, r \in RequestIds, s \in SessionIds : AllocateTo(d, r, s)
  <2>1. GrantsKept
    BY <1>1, OnlyAllocateGrants
  <2>2. QED
    BY <2>1 DEF GrantsKept, FencesNeverReused
<1>2. ASSUME NEW d \in Devices, NEW r \in RequestIds, NEW s \in SessionIds, AllocateTo(d, r, s)
      PROVE  FencesNeverReused'
  <2>1. /\ fence' = [fence EXCEPT ![d] = fence[d] + 1]
        /\ session'[s].state # "NONE"
        /\ session'[s].deviceId = d
        /\ session'[s].leaseFence = fence[d] + 1
        /\ \A t \in SessionIds : t # s => session'[t] = session[t]
    BY <1>2 DEF AllocateTo, NextFence, TypeOK
  <2>2. \A t \in SessionIds : session[t].state # "NONE" =>
          /\ session[t].deviceId \in Devices
          /\ session[t].leaseFence \in 1 .. fence[session[t].deviceId]
    BY DEF FencesNeverReused
  <2>3. \A e \in Devices : fence[e] \in Nat /\ fence'[e] \in Nat /\ fence[e] <= fence'[e]
    BY <2>1 DEF TypeOK
  <2>4. QED
    BY <2>1, <2>2, <2>3 DEF FencesNeverReused, TypeOK
<1>3. QED
  BY <1>1, <1>2

-----------------------------------------------------------------------------
(* Ownership. *)

LEMMA OwnershipInit == Init => OwnershipAgrees
  BY DEF Init, OwnershipAgrees, OwnsItsDevice, BindingOf, Live, LiveStates, NoDevice, NoSession

\* A step that touches one device d and one session s of d, while no other
\* session is bound to d, need only re-establish agreement of these two.
LEMMA OwnershipFrame ==
    ASSUME TypeOK, OwnershipAgrees, NEW d \in Devices, NEW s \in SessionIds,
           device[d].currentSessionId \in {None, s},
           session[s].state = "NONE" \/ session[s].deviceId = d,
           \A e \in Devices : e # d => device'[e] = device[e] /\ fence'[e] = fence[e],
           \A t \in SessionIds : t # s => session'[t] = session[t],
           OwnsItsDevice(s)', BindingOf(d)'
    PROVE  OwnershipAgrees'
<1>1. ASSUME NEW t \in SessionIds, t # s
      PROVE  OwnsItsDevice(t)'
  <2>1. SUFFICES ASSUME Live(t) PROVE OwnsItsDevice(t)'
    BY <1>1 DEF OwnsItsDevice, Live
  <2>2. session[t].deviceId \in Devices \ {d}
    BY <1>1, <2>1, NoneAssumption DEF OwnershipAgrees, OwnsItsDevice
  <2>3. QED
    BY <1>1, <2>1, <2>2 DEF OwnershipAgrees, OwnsItsDevice, Live
<1>2. ASSUME NEW e \in Devices, e # d
      PROVE  BindingOf(e)'
  <2>1. device'[e] = device[e] /\ device[e].currentSessionId \in SessionIds \cup {None}
    BY <1>2 DEF TypeOK, Device
  <2>2. device[e].currentSessionId # s
    BY <1>2, NoneAssumption DEF OwnershipAgrees, BindingOf
  <2>3. QED
    BY <2>1, <2>2 DEF OwnershipAgrees, BindingOf, Live
<1>3. QED
  BY <1>1, <1>2 DEF OwnershipAgrees

LEMMA OwnershipNext ==
    TypeOK /\ FencesNeverReused /\ OwnershipAgrees /\ [Next]_storeVars => OwnershipAgrees'
<1> SUFFICES ASSUME TypeOK, FencesNeverReused, OwnershipAgrees, [Next]_storeVars
             PROVE  OwnershipAgrees'
  OBVIOUS
<1> USE NoneAssumption, MaxFailuresAssumption
    DEF deviceVars, sessionVars, queueVars, clientVars
\* Steps on an unbound device that concern no session.
<1>1. ASSUME NEW d \in Devices, session' = session, fence' = fence,
             \A e \in Devices : e # d => device'[e] = device[e],
             device[d].currentSessionId = None, device'[d].currentSessionId = None,
             device'[d].state \in {"NONE", "AVAILABLE", "OFFLINE"},
             device'[d].state = "AVAILABLE" => device'[d].failureCount = 0
      PROVE  OwnershipAgrees'
  <2>1. ASSUME NEW s \in SessionIds
        PROVE  OwnsItsDevice(s)'
    BY <1>1 DEF OwnershipAgrees, OwnsItsDevice, Live
  <2>2. ASSUME NEW e \in Devices
        PROVE  BindingOf(e)'
    BY <1>1 DEF OwnershipAgrees, BindingOf, Live
  <2>3. QED
    BY <2>1, <2>2 DEF OwnershipAgrees
<1>2. ASSUME NEW d \in Devices, NEW online \in BOOLEAN, RegisterDevice(d, online)
      PROVE  OwnershipAgrees'
  <2>1. device'[d].currentSessionId = None /\ device'[d].failureCount = 0
    BY <1>2 DEF RegisterDevice, TypeOK, NoDevice
  <2>2. device'[d].state \in {"AVAILABLE", "OFFLINE"}
    BY <1>2 DEF RegisterDevice, TypeOK, NoDevice
  <2>3. device[d].currentSessionId = None
    BY <1>2 DEF RegisterDevice, OwnershipAgrees, BindingOf
  <2>4. QED
    BY <1>1, <1>2, <2>1, <2>2, <2>3 DEF RegisterDevice, TypeOK
<1>3. ASSUME NEW d \in Devices, UnregisterDevice(d)
      PROVE  OwnershipAgrees'
  BY <1>1, <1>3 DEF UnregisterDevice, TypeOK, NoDevice
<1>4. ASSUME NEW d \in Devices, HealthOffline(d) \/ HealthRecovered(d)
      PROVE  OwnershipAgrees'
  <2>1. device[d].currentSessionId = None /\ device[d] \in Device
    BY <1>4 DEF HealthOffline, HealthRecovered, OwnershipAgrees, BindingOf, TypeOK
  <2>2. device'[d].currentSessionId = None
    BY <1>4, <2>1 DEF HealthOffline, HealthRecovered, Unbound, TypeOK, Device
  <2>3. \/ device'[d].state = "OFFLINE"
        \/ device'[d].state = "AVAILABLE" /\ device'[d].failureCount = 0
    BY <1>4, <2>1 DEF HealthOffline, HealthRecovered, Unbound, TypeOK, Device
  <2>4. QED
    BY <1>1, <1>4, <2>1, <2>2, <2>3 DEF HealthOffline, HealthRecovered, TypeOK
\* Steps that leave devices and sessions alone.
<1>5. ASSUME device' = device, session' = session, fence' = fence
      PROVE  OwnershipAgrees'
  BY <1>5 DEF OwnershipAgrees, OwnsItsDevice, BindingOf, Live
<1>6. ASSUME NEW d \in Devices, NEW r \in RequestIds, NEW s \in SessionIds, AllocateTo(d, r, s)
      PROVE  OwnershipAgrees'
  <2>1. /\ device[d].currentSessionId = None
        /\ device[d].failureCount = 0
        /\ session[s].state = "NONE"
    BY <1>6 DEF AllocateTo, OwnershipAgrees, BindingOf
  <2>2. /\ fence' = [fence EXCEPT ![d] = fence[d] + 1]
        /\ session'[s].state = "RESERVED"
        /\ session'[s].deviceId = d
        /\ session'[s].leaseFence = fence[d] + 1
        /\ \A t \in SessionIds : t # s => session'[t] = session[t]
    BY <1>6 DEF AllocateTo, NextFence, TypeOK
  <2>3. /\ device'[d].state = "RESERVED"
        /\ device'[d].currentSessionId = s
        /\ device'[d].leaseFence = fence[d] + 1
        /\ device'[d].failureCount = device[d].failureCount
        /\ \A e \in Devices : e # d => device'[e] = device[e]
    BY <1>6 DEF AllocateTo, NextFence, TypeOK
  <2>4. OwnsItsDevice(s)'
    BY <2>2, <2>3 DEF OwnsItsDevice, TypeOK
  <2>5. BindingOf(d)'
    BY <2>1, <2>2, <2>3 DEF BindingOf, Live, LiveStates
  <2>6. \A e \in Devices : e # d => fence'[e] = fence[e]
    BY <2>2 DEF TypeOK
  <2>7. QED
    BY <2>1, <2>2, <2>3, <2>4, <2>5, <2>6, OwnershipFrame
<1>7. ASSUME NEW c \in Clients, NEW s \in SessionIds, Claim(c, s)
      PROVE  OwnershipAgrees'
  <2>1. PICK d \in Devices :
          /\ d = session[s].deviceId
          /\ device[d].currentSessionId = s
          /\ device[d].leaseFence = session[s].leaseFence
          /\ session[s].leaseFence = fence[d]
    BY <1>7 DEF Claim, OwnershipAgrees, OwnsItsDevice, Live, LiveStates
  <2>2. device[d].failureCount < MaxFailures
    BY <2>1 DEF OwnershipAgrees, BindingOf
  <2>3. /\ session'[s].state = "ACTIVE"
        /\ session'[s].deviceId = d
        /\ session'[s].leaseFence = session[s].leaseFence
        /\ \A t \in SessionIds : t # s => session'[t] = session[t]
    BY <1>7, <2>1 DEF Claim, TypeOK, Session
  <2>4. /\ device'[d].state = "IN_USE"
        /\ device'[d].currentSessionId = s
        /\ device'[d].leaseFence = device[d].leaseFence
        /\ device'[d].failureCount = device[d].failureCount
        /\ \A e \in Devices : e # d => device'[e] = device[e]
        /\ fence' = fence
    BY <1>7, <2>1 DEF Claim, TypeOK, Device
  <2>5. OwnsItsDevice(s)'
    BY <2>1, <2>3, <2>4 DEF OwnsItsDevice
  <2>6. BindingOf(d)'
    BY <2>1, <2>2, <2>3, <2>4 DEF BindingOf, Live, LiveStates
  <2>7. QED
    BY <2>1, <2>3, <2>4, <2>5, <2>6, OwnershipFrame
<1>8. ASSUME NEW s \in SessionIds,
             (\E c \in Clients : Reconnect(c, s)) \/ MarkDisconnected(s)
      PROVE  OwnershipAgrees'
  <2>1. /\ session[s].state \in {"ACTIVE", "DISCONNECTED"}
        /\ session'[s].state \in {"ACTIVE", "DISCONNECTED"}
        /\ session'[s].deviceId = session[s].deviceId
        /\ session'[s].leaseFence = session[s].leaseFence
        /\ \A t \in SessionIds : t # s => session'[t] = session[t]
    BY <1>8 DEF Reconnect, MarkDisconnected, TypeOK, Session
  <2>2. device' = device /\ fence' = fence
    BY <1>8 DEF Reconnect, MarkDisconnected
  <2>3. PICK d \in Devices : d = session[s].deviceId /\ device[d].currentSessionId = s
    BY <2>1 DEF OwnershipAgrees, OwnsItsDevice, Live, LiveStates
  <2>4. OwnsItsDevice(s)'
    BY <2>1, <2>2, <2>3 DEF OwnershipAgrees, OwnsItsDevice, Live, LiveStates
  <2>5. BindingOf(d)'
    BY <2>1, <2>2, <2>3 DEF OwnershipAgrees, BindingOf, Live, LiveStates
  <2>6. QED
    BY <2>1, <2>2, <2>3, <2>4, <2>5, OwnershipFrame
<1>9. ASSUME NEW s \in SessionIds, NEW terminalState \in {"ENDING", "EXPIRED"},
             BeginTermination(s, terminalState)
      PROVE  OwnershipAgrees'
  <2>1. PICK d \in Devices : d = session[s].deviceId /\ device[d].currentSessionId = s
    BY <1>9 DEF BeginTermination, OwnershipAgrees, OwnsItsDevice
  <2>2. device[d].failureCount < MaxFailures
    BY <2>1 DEF OwnershipAgrees, BindingOf
  <2>3. /\ session'[s].state \in {"ENDING", "EXPIRED"}
        /\ session'[s].deviceId = d
        /\ \A t \in SessionIds : t # s => session'[t] = session[t]
    BY <1>9, <2>1 DEF BeginTermination, TypeOK, Session
  <2>4. /\ device'[d].state = "CLEANING"
        /\ device'[d].currentSessionId = s
        /\ device'[d].failureCount = device[d].failureCount
        /\ \A e \in Devices : e # d => device'[e] = device[e]
        /\ fence' = fence
    BY <1>9, <2>1 DEF BeginTermination, TypeOK, Device
  <2>5. OwnsItsDevice(s)'
    BY <2>3 DEF OwnsItsDevice, Live, LiveStates
  <2>6. BindingOf(d)'
    BY <2>1, <2>2, <2>3, <2>4 DEF BindingOf, Live, LiveStates
  <2>7. QED
    BY <2>1, <2>3, <2>4, <2>5, <2>6, OwnershipFrame
<1>10. ASSUME NEW s \in SessionIds, NEW ok \in BOOLEAN,
              Terminating(s), FinishCleanup(s, session[s].deviceId, ok)
       PROVE  OwnershipAgrees'
  <2>1. PICK d \in Devices : d = session[s].deviceId /\ ~Live(s)
    BY <1>10 DEF Terminating, FencesNeverReused, Live, LiveStates
  <2>2. /\ session'[s].state = "ENDED"
        /\ session'[s].deviceId = d
        /\ \A t \in SessionIds : t # s => session'[t] = session[t]
        /\ fence' = fence
    BY <1>10, <2>1 DEF FinishCleanup, TypeOK, Session
  <2>3. OwnsItsDevice(s)'
    BY <2>2 DEF OwnsItsDevice, Live, LiveStates
  <2>4. CASE BoundTo(d, s)
    <3>1. device'[d] = Cleaned(device[d], ok) /\ \A e \in Devices : e # d => device'[e] = device[e]
      BY <1>10, <2>1, <2>4 DEF FinishCleanup, TypeOK
    <3>2. device[d] \in Device /\ device[d].state = "CLEANING" /\ device[d].currentSessionId = s
      BY <2>1, <2>4 DEF TypeOK, BoundTo, OwnershipAgrees, BindingOf
    <3>3. CASE ok
      <4>1. /\ device'[d].currentSessionId = None
            /\ device'[d].state = "AVAILABLE"
            /\ device'[d].failureCount = 0
        BY <3>1, <3>3 DEF Cleaned, Unbound
      <4>2. BindingOf(d)'
        BY <4>1 DEF BindingOf
      <4>3. QED
        BY <2>1, <2>2, <2>3, <3>1, <3>2, <4>2, OwnershipFrame
    <3>4. CASE ~ok /\ device[d].failureCount + 1 >= MaxFailures
      <4>1. device'[d].currentSessionId = None /\ device'[d].state = "OFFLINE"
        BY <3>1, <3>4 DEF Cleaned, Unbound
      <4>2. BindingOf(d)'
        BY <4>1 DEF BindingOf
      <4>3. QED
        BY <2>1, <2>2, <2>3, <3>1, <3>2, <4>2, OwnershipFrame
    <3>5. CASE ~ok /\ ~(device[d].failureCount + 1 >= MaxFailures)
      <4>1. device'[d] = [device[d] EXCEPT !.failureCount = device[d].failureCount + 1]
        BY <3>1, <3>5 DEF Cleaned
      <4>2. /\ device'[d].currentSessionId = s
            /\ device'[d].state = "CLEANING"
            /\ device'[d].failureCount < MaxFailures
        BY <3>2, <3>5, <4>1 DEF Device
      <4>3. BindingOf(d)'
        BY <2>2, <4>2 DEF BindingOf, Live, LiveStates
      <4>4. QED
        BY <2>1, <2>2, <2>3, <3>1, <3>2, <4>3, OwnershipFrame
    <3>6. QED
      BY <3>3, <3>4, <3>5
  <2>5. CASE ~BoundTo(d, s)
    <3>1. device' = device
      BY <1>10, <2>1, <2>5 DEF FinishCleanup
    <3>2. ASSUME NEW e \in Devices
          PROVE  BindingOf(e)'
      <4>1. device[e].currentSessionId # s
        BY <2>1, <2>5, NoneAssumption DEF BoundTo, OwnershipAgrees, BindingOf
      <4>2. device[e].currentSessionId \in SessionIds \cup {None}
        BY DEF TypeOK, Device
      <4>3. QED
        BY <2>2, <3>1, <4>1, <4>2 DEF OwnershipAgrees, BindingOf, Live
    <3>3. ASSUME NEW t \in SessionIds, t # s
          PROVE  OwnsItsDevice(t)'
      BY <2>2, <3>1, <3>3 DEF OwnershipAgrees, OwnsItsDevice, Live
    <3>4. QED
      BY <2>3, <3>2, <3>3 DEF OwnershipAgrees
  <2>6. QED
    BY <2>4, <2>5
<1>11. ASSUME NEW d \in Devices, DeviceNext(d)
       PROVE  OwnershipAgrees'
  BY <1>2, <1>3, <1>4, <1>5, <1>6, <1>11
     DEF DeviceNext, SetDeviceAvailability, AllocateStale, AllocateIdle, HealthSelfHeal
<1>12. ASSUME NEW c \in Clients, ClientNext(c)
       PROVE  OwnershipAgrees'
  BY <1>5, <1>7, <1>8, <1>12 DEF ClientNext, JoinQueue, CancelRequest, Heartbeat
<1>13. ASSUME NEW s \in SessionIds, SessionNext(s)
       PROVE  OwnershipAgrees'
  BY <1>5, <1>8, <1>9, <1>10, <1>13 DEF SessionNext, DeadlinePasses
<1>14. CASE UNCHANGED storeVars
  BY <1>5, <1>14 DEF storeVars
<1>15. QED
  BY <1>11, <1>12, <1>13, <1>14 DEF Next

-----------------------------------------------------------------------------
(* The places of clients. *)

LEMMA PlacesInit == Init => OnePlacePerClient
  BY DEF Init, OnePlacePerClient, SessionIndexed, RequestIndexed, IndexesOf, Live, LiveStates,
         Waiting, NoSession, NoEntry

\* Steps after which the same sessions are live for the same clients.
LEMMA PlacesFrame ==
    ASSUME OnePlacePerClient, UNCHANGED <<qe, queue, clientSession, clientRequest>>,
           \A s \in SessionIds :
             /\ Live(s)' <=> Live(s)
             /\ session'[s].clientId = session[s].clientId,
           clientSession \in [Clients -> SessionIds \cup {None}]
    PROVE  OnePlacePerClient'
  BY NoneAssumption DEF OnePlacePerClient, SessionIndexed, RequestIndexed, IndexesOf, Waiting

LEMMA PlacesNext == TypeOK /\ OnePlacePerClient /\ [Next]_storeVars => OnePlacePerClient'
<1> SUFFICES ASSUME TypeOK, OnePlacePerClient, [Next]_storeVars PROVE OnePlacePerClient'
  OBVIOUS
<1> USE NoneAssumption DEF deviceVars, sessionVars, queueVars, clientVars
<1>1. ASSUME session' = session, UNCHANGED <<qe, queue, clientSession, clientRequest>>
      PROVE  OnePlacePerClient'
  BY <1>1, PlacesFrame DEF TypeOK, Live
<1>2. ASSUME NEW s \in SessionIds, Live(s), Live(s)',
             session'[s].clientId = session[s].clientId,
             \A t \in SessionIds : t # s => session'[t] = session[t],
             UNCHANGED <<qe, queue, clientSession, clientRequest>>
      PROVE  OnePlacePerClient'
  BY <1>2, PlacesFrame DEF TypeOK, Live
<1>3. ASSUME NEW d \in Devices, AllocateIdle(d)
      PROVE  OnePlacePerClient'
  <2>1. queue' = queue
    BY <1>3 DEF AllocateIdle, OnePlacePerClient, RequestIndexed, TypeOK
  <2>2. QED
    BY <1>1, <1>3, <2>1 DEF AllocateIdle
<1>4. ASSUME NEW d \in Devices, NEW r \in RequestIds, NEW s \in SessionIds, AllocateTo(d, r, s)
      PROVE  OnePlacePerClient'
  <2>1. PICK c \in Clients : c = qe[r].clientId /\ clientRequest[c] = r /\ Waiting(r)
    BY <1>4 DEF AllocateTo, IsHead, OnePlacePerClient, RequestIndexed
  <2>2. \A t \in SessionIds : Live(t) => session[t].clientId # c /\ t # s
    BY <1>4, <2>1 DEF AllocateTo, OnePlacePerClient, SessionIndexed, Live, LiveStates
  <2>3. /\ session'[s].state = "RESERVED"
        /\ session'[s].clientId = c
        /\ \A t \in SessionIds : t # s => session'[t] = session[t]
    BY <1>4, <2>1 DEF AllocateTo, TypeOK
  <2>4. /\ qe'[r].state = "CLAIMED"
        /\ \A other \in RequestIds : other # r => qe'[other] = qe[other]
    BY <1>4 DEF AllocateTo, TypeOK, QueueEntry
  <2>5. queue' = queue \ {r}
    BY <1>4 DEF AllocateTo, OnePlacePerClient, RequestIndexed, TypeOK
  <2>6. /\ clientSession' = [clientSession EXCEPT ![c] = s]
        /\ clientRequest' = [clientRequest EXCEPT ![c] = None]
    BY <1>4, <2>1 DEF AllocateTo
  <2>7. ASSUME NEW t \in SessionIds
        PROVE  SessionIndexed(t)'
    BY <2>2, <2>3, <2>6 DEF SessionIndexed, OnePlacePerClient, TypeOK, Live, LiveStates
  <2>8. ASSUME NEW other \in RequestIds
        PROVE  RequestIndexed(other)'
    BY <2>1, <2>4, <2>5, <2>6 DEF RequestIndexed, OnePlacePerClient, TypeOK, Waiting
  <2>9. ASSUME NEW b \in Clients
        PROVE  IndexesOf(b)'
    <3>1. CASE b = c
      BY <2>3, <2>6, <3>1 DEF IndexesOf, TypeOK, Live, LiveStates
    <3>2. CASE b # c
      <4>1. /\ clientSession'[b] = clientSession[b] /\ clientRequest'[b] = clientRequest[b]
            /\ clientSession[b] \in SessionIds \cup {None}
            /\ clientRequest[b] \in RequestIds \cup {None}
        BY <2>6, <3>2 DEF TypeOK
      <4>2. clientRequest[b] # r
        BY <2>1, <3>2 DEF OnePlacePerClient, IndexesOf
      <4>3. clientSession[b] # s
        BY <2>2 DEF OnePlacePerClient, IndexesOf
      <4>4. QED
        BY <2>3, <2>4, <4>1, <4>2, <4>3 DEF OnePlacePerClient, IndexesOf, Live, Waiting
    <3>3. QED
      BY <3>1, <3>2
  <2>10. QED
    BY <2>7, <2>8, <2>9 DEF OnePlacePerClient
<1>5. ASSUME NEW c \in Clients, NEW r \in RequestIds, JoinQueue(c, r)
      PROVE  OnePlacePerClient'
  <2>1. clientSession[c] = None /\ clientSession' = clientSession
    BY <1>5 DEF JoinQueue, HasSession, nonterminal, OnePlacePerClient, IndexesOf, Live,
                LiveStates, TypeOK
  <2>2. CASE HasRequest(c)
    BY <1>1, <1>5, <2>1, <2>2 DEF JoinQueue
  <2>3. CASE ~HasRequest(c)
    <3>1. clientRequest[c] = None /\ ~Waiting(r)
      BY <1>5, <2>3 DEF JoinQueue, HasRequest, OnePlacePerClient, IndexesOf, Waiting
    <3>2. /\ qe'[r].state = "WAITING"
          /\ qe'[r].clientId = c
          /\ \A other \in RequestIds : other # r => qe'[other] = qe[other]
          /\ queue' = queue \cup {r}
          /\ clientRequest' = [clientRequest EXCEPT ![c] = r]
          /\ session' = session
      BY <1>5, <2>3 DEF JoinQueue, TypeOK
    <3>3. ASSUME NEW t \in SessionIds
          PROVE  SessionIndexed(t)'
      <4>1. Live(t) => session[t].clientId # c
        BY <2>1 DEF OnePlacePerClient, SessionIndexed
      <4>2. QED
        BY <2>1, <3>2, <4>1 DEF OnePlacePerClient, SessionIndexed, Live, TypeOK
    <3>4. ASSUME NEW other \in RequestIds
          PROVE  RequestIndexed(other)'
      BY <3>1, <3>2 DEF OnePlacePerClient, RequestIndexed, Waiting, TypeOK
    <3>5. ASSUME NEW b \in Clients
          PROVE  IndexesOf(b)'
      <4>1. CASE b = c
        BY <2>1, <3>2, <4>1 DEF IndexesOf, Waiting, TypeOK
      <4>2. CASE b # c
        <5>1. clientRequest'[b] = clientRequest[b] /\ clientRequest[b] \in RequestIds \cup {None}
          BY <3>2, <4>2 DEF TypeOK
        <5>2. clientRequest[b] # r
          BY <3>1 DEF OnePlacePerClient, IndexesOf
        <5>3. QED
          BY <2>1, <3>2, <5>1, <5>2 DEF OnePlacePerClient, IndexesOf, Live, Waiting
      <4>3. QED
        BY <4>1, <4>2
    <3>6. QED
      BY <3>3, <3>4, <3>5 DEF OnePlacePerClient
  <2>4. QED
    BY <2>2, <2>3
<1>6. ASSUME NEW c \in Clients, NEW r \in RequestIds, CancelRequest(c, r)
      PROVE  OnePlacePerClient'
  <2>1. /\ clientRequest[c] = r
        /\ qe'[r].state = "CANCELLED"
        /\ \A other \in RequestIds : other # r => qe'[other] = qe[other]
        /\ queue' = queue \ {r}
        /\ clientRequest' = [clientRequest EXCEPT ![c] = None]
        /\ session' = session /\ clientSession' = clientSession
    BY <1>6 DEF CancelRequest, OnePlacePerClient, RequestIndexed, TypeOK, QueueEntry
  <2>2. ASSUME NEW t \in SessionIds
        PROVE  SessionIndexed(t)'
    BY <2>1 DEF OnePlacePerClient, SessionIndexed, Live, TypeOK
  <2>3. ASSUME NEW other \in RequestIds
        PROVE  RequestIndexed(other)'
    BY <2>1 DEF OnePlacePerClient, RequestIndexed, Waiting, TypeOK
  <2>4. ASSUME NEW b \in Clients
        PROVE  IndexesOf(b)'
    <3>1. CASE b = c
      BY <2>1, <3>1 DEF OnePlacePerClient, IndexesOf, Live, TypeOK
    <3>2. CASE b # c
      <4>1. clientRequest'[b] = clientRequest[b] /\ clientRequest[b] \in RequestIds \cup {None}
        BY <2>1, <3>2 DEF TypeOK
      <4>2. clientRequest[b] # r
        BY <1>6, <3>2 DEF CancelRequest, OnePlacePerClient, IndexesOf
      <4>3. QED
        BY <2>1, <4>1, <4>2 DEF OnePlacePerClient, IndexesOf, Live, Waiting
    <3>3. QED
      BY <3>1, <3>2
  <2>5. QED
    BY <2>2, <2>3, <2>4 DEF OnePlacePerClient
<1>7. ASSUME NEW c \in Clients, NEW s \in SessionIds, Claim(c, s)
      PROVE  OnePlacePerClient'
  BY <1>2, <1>7 DEF Claim, Live, LiveStates, TypeOK, Session
<1>8. ASSUME NEW c \in Clients, NEW s \in SessionIds, Reconnect(c, s)
      PROVE  OnePlacePerClient'
  <2>1. clientSession' = clientSession
    BY <1>8 DEF Reconnect, OnePlacePerClient, SessionIndexed, Live, LiveStates, TypeOK
  <2>2. QED
    BY <1>2, <1>8, <2>1 DEF Reconnect, Live, LiveStates, TypeOK, Session
<1>9. ASSUME NEW s \in SessionIds, MarkDisconnected(s)
      PROVE  OnePlacePerClient'
  BY <1>2, <1>9 DEF MarkDisconnected, Live, LiveStates, TypeOK, Session
<1>10. ASSUME NEW s \in SessionIds, NEW terminalState \in {"ENDING", "EXPIRED"},
              BeginTermination(s, terminalState)
       PROVE  OnePlacePerClient'
  <2>1. PICK c \in Clients : c = session[s].clientId /\ clientSession[c] = s
    BY <1>10 DEF BeginTermination, OnePlacePerClient, SessionIndexed
  <2>2. /\ ~Live(s)'
        /\ \A t \in SessionIds : t # s => session'[t] = session[t]
        /\ clientSession' = [clientSession EXCEPT ![c] = None]
        /\ UNCHANGED <<qe, queue, clientRequest>>
    BY <1>10, <2>1 DEF BeginTermination, Live, LiveStates, TypeOK, Session
  <2>3. ASSUME NEW t \in SessionIds
        PROVE  SessionIndexed(t)'
    BY <2>1, <2>2 DEF OnePlacePerClient, SessionIndexed, Live, TypeOK
  <2>4. ASSUME NEW r \in RequestIds
        PROVE  RequestIndexed(r)'
    BY <2>2 DEF OnePlacePerClient, RequestIndexed, Waiting
  <2>5. ASSUME NEW b \in Clients
        PROVE  IndexesOf(b)'
    <3>1. CASE b = c
      BY <2>2, <3>1 DEF OnePlacePerClient, IndexesOf, Waiting, TypeOK
    <3>2. CASE b # c
      <4>1. clientSession'[b] = clientSession[b] /\ clientSession[b] \in SessionIds \cup {None}
        BY <2>2, <3>2 DEF TypeOK
      <4>2. clientSession[b] # s
        BY <2>1, <3>2 DEF OnePlacePerClient, IndexesOf
      <4>3. QED
        BY <2>2, <4>1, <4>2 DEF OnePlacePerClient, IndexesOf, Live, Waiting
    <3>3. QED
      BY <3>1, <3>2
  <2>6. QED
    BY <2>3, <2>4, <2>5 DEF OnePlacePerClient
<1>11. ASSUME NEW s \in SessionIds, NEW ok \in BOOLEAN,
              Terminating(s), FinishCleanup(s, session[s].deviceId, ok)
       PROVE  OnePlacePerClient'
  <2>1. /\ ~Live(s) /\ ~Live(s)'
        /\ session'[s].clientId = session[s].clientId
        /\ \A t \in SessionIds : t # s => session'[t] = session[t]
    BY <1>11 DEF FinishCleanup, Terminating, Live, LiveStates, TypeOK, Session
  <2>2. QED
    BY <1>11, <2>1, PlacesFrame DEF FinishCleanup, Live, TypeOK
<1>12. ASSUME NEW d \in Devices, DeviceNext(d)
       PROVE  OnePlacePerClient'
  BY <1>1, <1>3, <1>4, <1>12
     DEF DeviceNext, RegisterDevice, UnregisterDevice, SetDeviceAvailability, AllocateStale,
         HealthOffline, HealthRecovered, HealthSelfHeal
<1>13. ASSUME NEW c \in Clients, ClientNext(c)
       PROVE  OnePlacePerClient'
  BY <1>1, <1>5, <1>6, <1>7, <1>8, <1>13 DEF ClientNext, Heartbeat
<1>14. ASSUME NEW s \in SessionIds, SessionNext(s)
       PROVE  OnePlacePerClient'
  BY <1>1, <1>9, <1>10, <1>11, <1>14 DEF SessionNext, DeadlinePasses
<1>15. CASE UNCHANGED storeVars
  BY <1>1, <1>15 DEF storeVars
<1>16. QED
  BY <1>12, <1>13, <1>14, <1>15 DEF Next

-----------------------------------------------------------------------------
(* The order of service. *)

LEMMA OrderInit == Init => NoOvertaking /\ EnqueuedByClock
  BY DEF Init, NoOvertaking, EnqueuedByClock, Waiting, NoEntry

LEMMA OrderNext ==
    TypeOK /\ OnePlacePerClient /\ EnqueuedByClock /\ NoOvertaking /\ [Next]_storeVars
      => EnqueuedByClock' /\ NoOvertaking'
<1> SUFFICES ASSUME TypeOK, OnePlacePerClient, EnqueuedByClock, NoOvertaking, [Next]_storeVars
             PROVE  EnqueuedByClock' /\ NoOvertaking'
  OBVIOUS
<1> USE DEF deviceVars, sessionVars, queueVars, clientVars
<1>1. ASSUME qe' = qe, clock' = clock
      PROVE  EnqueuedByClock' /\ NoOvertaking'
  BY <1>1 DEF EnqueuedByClock, NoOvertaking, Waiting
<1>2. ASSUME NEW d \in Devices, NEW r \in RequestIds, NEW s \in SessionIds, AllocateTo(d, r, s)
      PROVE  EnqueuedByClock' /\ NoOvertaking'
  <2>1. /\ qe'[r].enqueuedAt = qe[r].enqueuedAt
        /\ qe'[r].state = "CLAIMED"
        /\ \A other \in RequestIds : other # r => qe'[other] = qe[other]
        /\ clock' = clock
    BY <1>2 DEF AllocateTo, TypeOK, QueueEntry
  <2>2. \A other \in RequestIds : Waiting(other) => qe[r].enqueuedAt <= qe[other].enqueuedAt
    <3>1. ASSUME NEW other \in RequestIds, Waiting(other)
          PROVE  qe[r].enqueuedAt <= qe[other].enqueuedAt
      <4>1. other = r \/ Before(r, other)
        BY <1>2, <3>1 DEF AllocateTo, IsHead, OnePlacePerClient, RequestIndexed
      <4>2. qe[r].enqueuedAt \in Nat /\ qe[other].enqueuedAt \in Nat
        BY DEF TypeOK, QueueEntry
      <4>3. QED
        BY <4>1, <4>2 DEF Before
    <3>2. QED
      BY <3>1
  <2>3. EnqueuedByClock'
    BY <2>1 DEF EnqueuedByClock
  <2>4. NoOvertaking'
    BY <2>1, <2>2 DEF NoOvertaking, Waiting
  <2>5. QED
    BY <2>3, <2>4
<1>3. ASSUME NEW c \in Clients, NEW r \in RequestIds, JoinQueue(c, r)
      PROVE  EnqueuedByClock' /\ NoOvertaking'
  <2>1. CASE HasRequest(c)
    BY <1>1, <1>3, <2>1 DEF JoinQueue
  <2>2. CASE ~HasRequest(c)
    <3>1. PICK t \in {clock, clock + 1} :
            clock' = t /\ qe' = [qe EXCEPT ![r] =
                                   [state |-> "WAITING", clientId |-> c, enqueuedAt |-> t]]
      BY <1>3, <2>2 DEF JoinQueue
    <3>2. /\ qe'[r].enqueuedAt = clock'
          /\ qe'[r].state = "WAITING"
          /\ \A other \in RequestIds : other # r => qe'[other] = qe[other]
      BY <3>1 DEF TypeOK
    <3>3. clock \in Nat /\ clock' \in Nat /\ clock <= clock'
      BY <3>1 DEF TypeOK
    <3>4. \A other \in RequestIds : qe[other].enqueuedAt \in Nat /\ qe[other].enqueuedAt <= clock'
      BY <3>3 DEF EnqueuedByClock, TypeOK, QueueEntry
    <3>5. EnqueuedByClock'
      BY <3>2, <3>3, <3>4 DEF EnqueuedByClock
    <3>6. NoOvertaking'
      BY <3>2, <3>4 DEF NoOvertaking, Waiting
    <3>7. QED
      BY <3>5, <3>6
  <2>3. QED
    BY <2>1, <2>2
<1>4. ASSUME NEW c \in Clients, NEW r \in RequestIds, CancelRequest(c, r)
      PROVE  EnqueuedByClock' /\ NoOvertaking'
  <2>1. /\ qe'[r].enqueuedAt = qe[r].enqueuedAt
        /\ qe'[r].state = "CANCELLED"
        /\ \A other \in RequestIds : other # r => qe'[other] = qe[other]
        /\ clock' = clock
    BY <1>4 DEF CancelRequest, TypeOK, QueueEntry
  <2>2. QED
    BY <2>1 DEF EnqueuedByClock, NoOvertaking, Waiting
<1>5. ASSUME NEW d \in Devices, DeviceNext(d)
      PROVE  EnqueuedByClock' /\ NoOvertaking'
  BY <1>1, <1>2, <1>5
     DEF DeviceNext, RegisterDevice, UnregisterDevice, SetDeviceAvailability, AllocateStale,
         AllocateIdle, HealthOffline, HealthRecovered, HealthSelfHeal
<1>6. ASSUME NEW c \in Clients, ClientNext(c)
      PROVE  EnqueuedByClock' /\ NoOvertaking'
  BY <1>1, <1>3, <1>4, <1>6 DEF ClientNext, Claim, Heartbeat, Reconnect
<1>7. ASSUME NEW s \in SessionIds, SessionNext(s)
      PROVE  EnqueuedByClock' /\ NoOvertaking'
  BY <1>1, <1>7 DEF SessionNext, MarkDisconnected, BeginTermination, FinishCleanup, DeadlinePasses
<1>8. CASE UNCHANGED storeVars
  BY <1>1, <1>8 DEF storeVars
<1>9. QED
  BY <1>5, <1>6, <1>7, <1>8 DEF Next

-----------------------------------------------------------------------------
(* The inductive invariant and what follows from it. *)

Inv ==
    /\ TypeOK
    /\ OwnershipAgrees
    /\ FencesNeverReused
    /\ OnePlacePerClient
    /\ EnqueuedByClock
    /\ NoOvertaking

LEMMA InvInit == Init => Inv
  BY TypeInit, OwnershipInit, FencesInit, PlacesInit, OrderInit DEF Inv

LEMMA InvNext == Inv /\ [Next]_storeVars => Inv'
  BY TypeNext, OwnershipNext, FencesNext, PlacesNext, OrderNext DEF Inv

\* The inductive invariant of the store: types, ownership, fences, places and
\* order hold after every script, whatever the callers do.
THEOREM Invariance == Spec => []Inv
  BY InvInit, InvNext, PTL DEF Spec

\* Every key always holds a value of its type.
THEOREM TypeCorrect == Spec => []TypeOK
<1>1. Inv => TypeOK
  BY DEF Inv
<1>2. QED
  BY <1>1, Invariance, PTL

\* Devices and sessions always agree about who owns whom.
THEOREM Ownership == Spec => []OwnershipAgrees
<1>1. Inv => OwnershipAgrees
  BY DEF Inv
<1>2. QED
  BY <1>1, Invariance, PTL

\* Two live sessions never share a device, the consequence of ownership that
\* store.ts promises.
THEOREM NoDoubleAssignment ==
    Spec => [](\A s, t \in SessionIds :
                 Live(s) /\ Live(t) /\ session[s].deviceId = session[t].deviceId => s = t)
<1>1. Inv => (\A s, t \in SessionIds :
                Live(s) /\ Live(t) /\ session[s].deviceId = session[t].deviceId => s = t)
  BY DEF Inv, OwnershipAgrees, OwnsItsDevice
<1>2. QED
  BY <1>1, Invariance, PTL

\* No fence of a device is ever issued twice.
THEOREM Fencing == Spec => []FencesNeverReused
<1>1. Inv => FencesNeverReused
  BY DEF Inv
<1>2. QED
  BY <1>1, Invariance, PTL

\* A client has at most one place, and its keys name it.
THEOREM Places == Spec => []OnePlacePerClient
<1>1. Inv => OnePlacePerClient
  BY DEF Inv
<1>2. QED
  BY <1>1, Invariance, PTL

\* The queue serves no request before one of an earlier millisecond.
THEOREM FirstComeFirstServed == Spec => []NoOvertaking
<1>1. Inv => NoOvertaking
  BY DEF Inv
<1>2. QED
  BY <1>1, Invariance, PTL

-----------------------------------------------------------------------------
(* The store implements DeviceLease.  A reservation maps to Grant, the start *)
(* of a termination to Revoke, the cleanup that frees a device to Release,   *)
(* everything else to a stuttering step.                                     *)

LEMMA LeaseInit == Init => Leases!Init
  BY DEF Init, Leases!Init, Leases!NoLease, LeaseStatus, NoDevice, NoSession

\* A step after which every device has the same holder and every session the
\* same lease is a stuttering step of DeviceLease.
LEMMA LeaseStutter ==
    ASSUME fence' = fence,
           \A d \in Devices : device'[d].currentSessionId = device[d].currentSessionId,
           \A s \in SessionIds :
             /\ session'[s].deviceId = session[s].deviceId
             /\ session'[s].leaseFence = session[s].leaseFence
             /\ LeaseStatus(s)' = LeaseStatus(s)
    PROVE  UNCHANGED Leases!leaseVars
<1>1. [d \in Devices |-> device[d].currentSessionId]'
        = [d \in Devices |-> device[d].currentSessionId]
  OBVIOUS
<1>2. [s \in SessionIds |-> [status |-> LeaseStatus(s), device |-> session[s].deviceId,
                             token |-> session[s].leaseFence]]'
        = [s \in SessionIds |-> [status |-> LeaseStatus(s), device |-> session[s].deviceId,
                                 token |-> session[s].leaseFence]]
  OBVIOUS
<1>3. QED
  BY <1>1, <1>2 DEF Leases!leaseVars

LEMMA LeaseGrant ==
    ASSUME TypeOK, OwnershipAgrees,
           NEW d \in Devices, NEW r \in RequestIds, NEW s \in SessionIds, AllocateTo(d, r, s)
    PROVE  Leases!Next
<1> DEFINE holder == [e \in Devices |-> device[e].currentSessionId]
           lease == [t \in SessionIds |-> [status |-> LeaseStatus(t), device |-> session[t].deviceId,
                                           token |-> session[t].leaseFence]]
<1>1. device[d].currentSessionId = None /\ session[s].state = "NONE"
  BY DEF AllocateTo, OwnershipAgrees, BindingOf
<1>2. /\ fence' = [fence EXCEPT ![d] = fence[d] + 1]
      /\ session'[s].state = "RESERVED"
      /\ session'[s].deviceId = d
      /\ session'[s].leaseFence = fence[d] + 1
      /\ device'[d].currentSessionId = s
      /\ \A t \in SessionIds : t # s => session'[t] = session[t]
      /\ \A e \in Devices : e # d => device'[e] = device[e]
  BY DEF AllocateTo, NextFence, TypeOK
<1>3. holder' = [holder EXCEPT ![d] = s]
  BY <1>2
<1>4. LeaseStatus(s)' = "valid" /\ \A t \in SessionIds : t # s => LeaseStatus(t)' = LeaseStatus(t)
  BY <1>2 DEF LeaseStatus, Live, LiveStates
<1>5. lease' = [lease EXCEPT ![s] = [status |-> "valid", device |-> d, token |-> fence[d] + 1]]
  BY <1>2, <1>4
<1>6. holder[d] = None /\ lease[s].status = "fresh"
  BY <1>1 DEF LeaseStatus
<1>7. Leases!Grant(d, s)
  BY <1>2, <1>3, <1>5, <1>6 DEF Leases!Grant
<1>8. QED
  BY <1>7 DEF Leases!Next

LEMMA LeaseRevoke ==
    ASSUME TypeOK, OwnershipAgrees, NEW s \in SessionIds,
           NEW terminalState \in {"ENDING", "EXPIRED"}, BeginTermination(s, terminalState)
    PROVE  Leases!Next
<1> DEFINE holder == [e \in Devices |-> device[e].currentSessionId]
           lease == [t \in SessionIds |-> [status |-> LeaseStatus(t), device |-> session[t].deviceId,
                                           token |-> session[t].leaseFence]]
<1>1. Live(s) /\ fence' = fence
  BY DEF BeginTermination
<1>2. /\ session'[s].state \in {"ENDING", "EXPIRED"}
      /\ session'[s].deviceId = session[s].deviceId
      /\ session'[s].leaseFence = session[s].leaseFence
      /\ \A t \in SessionIds : t # s => session'[t] = session[t]
  BY DEF BeginTermination, TypeOK, Session
<1>3. \A e \in Devices : device'[e].currentSessionId = device[e].currentSessionId
  BY DEF BeginTermination, TypeOK, Device
<1>4. holder' = holder
  BY <1>3
<1>5. /\ LeaseStatus(s) = "valid"
      /\ LeaseStatus(s)' = "revoked"
      /\ \A t \in SessionIds : t # s => LeaseStatus(t)' = LeaseStatus(t)
  BY <1>1, <1>2 DEF LeaseStatus, Live, LiveStates
<1>6. lease' = [lease EXCEPT ![s].status = "revoked"]
  BY <1>2, <1>5
<1>7. Leases!Revoke(s)
  BY <1>1, <1>4, <1>5, <1>6 DEF Leases!Revoke
<1>8. QED
  BY <1>7 DEF Leases!Next

LEMMA LeaseRelease ==
    ASSUME TypeOK, OwnershipAgrees, FencesNeverReused, NEW s \in SessionIds, NEW ok \in BOOLEAN,
           Terminating(s), FinishCleanup(s, session[s].deviceId, ok)
    PROVE  [Leases!Next]_Leases!leaseVars
<1> DEFINE holder == [e \in Devices |-> device[e].currentSessionId]
           lease == [t \in SessionIds |-> [status |-> LeaseStatus(t), device |-> session[t].deviceId,
                                           token |-> session[t].leaseFence]]
<1>1. PICK d \in Devices : d = session[s].deviceId
  BY DEF Terminating, FencesNeverReused
<1>2. /\ fence' = fence
      /\ session'[s].state = "ENDED"
      /\ session'[s].deviceId = session[s].deviceId
      /\ session'[s].leaseFence = session[s].leaseFence
      /\ \A t \in SessionIds : t # s => session'[t] = session[t]
  BY DEF FinishCleanup, TypeOK, Session
<1>3. /\ LeaseStatus(s) = "revoked"
      /\ \A t \in SessionIds : LeaseStatus(t)' = LeaseStatus(t)
  BY <1>2 DEF LeaseStatus, Terminating, Live, LiveStates
<1>4. lease' = lease
  BY <1>2, <1>3
<1>5. CASE BoundTo(d, s) /\ device'[d].currentSessionId = None
  <2>1. \A e \in Devices : e # d => device'[e] = device[e]
    BY <1>1 DEF FinishCleanup, TypeOK
  <2>2. holder' = [holder EXCEPT ![d] = None]
    BY <1>5, <2>1
  <2>3. holder[d] # None /\ lease[holder[d]].status = "revoked"
    BY <1>3, <1>5, NoneAssumption DEF BoundTo
  <2>4. Leases!Release(d)
    BY <1>2, <1>4, <2>2, <2>3 DEF Leases!Release
  <2>5. QED
    BY <2>4 DEF Leases!Next
<1>6. CASE ~BoundTo(d, s) \/ device'[d].currentSessionId # None
  <2>1. device'[d].currentSessionId = device[d].currentSessionId
    <3>1. CASE ~BoundTo(d, s)
      BY <1>1, <3>1 DEF FinishCleanup
    <3>2. CASE BoundTo(d, s) /\ device'[d].currentSessionId # None
      <4>1. device'[d] = Cleaned(device[d], ok)
        BY <1>1, <3>2 DEF FinishCleanup, TypeOK
      <4>2. device'[d] = [device[d] EXCEPT !.failureCount = device[d].failureCount + 1]
        BY <3>2, <4>1 DEF Cleaned, Unbound
      <4>3. QED
        BY <4>2 DEF TypeOK, Device
    <3>3. QED
      BY <1>6, <3>1, <3>2
  <2>2. \A e \in Devices : e # d => device'[e] = device[e]
    BY <1>1 DEF FinishCleanup, TypeOK
  <2>3. QED
    BY <1>2, <1>3, <2>1, <2>2, LeaseStutter
<1>7. QED
  BY <1>5, <1>6

LEMMA LeaseNext == Inv /\ [Next]_storeVars => [Leases!Next]_Leases!leaseVars
<1> SUFFICES ASSUME Inv, [Next]_storeVars PROVE [Leases!Next]_Leases!leaseVars
  OBVIOUS
<1> USE DEF Inv, deviceVars, sessionVars, queueVars, clientVars
<1>1. ASSUME fence' = fence, session' = session,
             \A d \in Devices : device'[d].currentSessionId = device[d].currentSessionId
      PROVE  UNCHANGED Leases!leaseVars
  BY <1>1, LeaseStutter DEF LeaseStatus, Live
<1>2. ASSUME NEW d \in Devices, NEW online \in BOOLEAN, RegisterDevice(d, online)
      PROVE  UNCHANGED Leases!leaseVars
  <2>1. device[d].currentSessionId = None
    BY <1>2 DEF RegisterDevice, OwnershipAgrees, BindingOf
  <2>2. device'[d].currentSessionId = None
    BY <1>2 DEF RegisterDevice, TypeOK, NoDevice
  <2>3. QED
    BY <1>1, <1>2, <2>1, <2>2 DEF RegisterDevice, TypeOK
<1>3. ASSUME NEW d \in Devices, UnregisterDevice(d)
      PROVE  UNCHANGED Leases!leaseVars
  BY <1>1, <1>3 DEF UnregisterDevice, TypeOK, NoDevice
<1>4. ASSUME NEW d \in Devices, HealthOffline(d)
      PROVE  UNCHANGED Leases!leaseVars
  BY <1>1, <1>4 DEF HealthOffline, TypeOK, Device
<1>5. ASSUME NEW d \in Devices, HealthRecovered(d)
      PROVE  UNCHANGED Leases!leaseVars
  BY <1>1, <1>5 DEF HealthRecovered, Unbound, TypeOK
<1>6. ASSUME NEW c \in Clients, NEW s \in SessionIds, Claim(c, s)
      PROVE  UNCHANGED Leases!leaseVars
  <2>1. /\ fence' = fence
        /\ \A d \in Devices : device'[d].currentSessionId = device[d].currentSessionId
    BY <1>6 DEF Claim, TypeOK, Device
  <2>2. /\ Live(s) /\ session'[s].state = "ACTIVE"
        /\ session'[s].deviceId = session[s].deviceId
        /\ session'[s].leaseFence = session[s].leaseFence
        /\ \A t \in SessionIds : t # s => session'[t] = session[t]
    BY <1>6 DEF Claim, TypeOK, Session, Live, LiveStates
  <2>3. \A t \in SessionIds : LeaseStatus(t)' = LeaseStatus(t)
    BY <2>2 DEF LeaseStatus, Live, LiveStates
  <2>4. QED
    BY <2>1, <2>2, <2>3, LeaseStutter
<1>7. ASSUME NEW s \in SessionIds, (\E c \in Clients : Reconnect(c, s)) \/ MarkDisconnected(s)
      PROVE  UNCHANGED Leases!leaseVars
  <2>1. fence' = fence /\ device' = device
    BY <1>7 DEF Reconnect, MarkDisconnected
  <2>2. /\ session[s].state \in {"ACTIVE", "DISCONNECTED"}
        /\ session'[s].state \in {"ACTIVE", "DISCONNECTED"}
        /\ session'[s].deviceId = session[s].deviceId
        /\ session'[s].leaseFence = session[s].leaseFence
        /\ \A t \in SessionIds : t # s => session'[t] = session[t]
    BY <1>7 DEF Reconnect, MarkDisconnected, TypeOK, Session
  <2>3. \A t \in SessionIds : LeaseStatus(t)' = LeaseStatus(t)
    BY <2>2 DEF LeaseStatus, Live, LiveStates
  <2>4. QED
    BY <2>1, <2>2, <2>3, LeaseStutter
<1>8. ASSUME NEW d \in Devices, DeviceNext(d)
      PROVE  [Leases!Next]_Leases!leaseVars
  BY <1>1, <1>2, <1>3, <1>4, <1>5, <1>8, LeaseGrant
     DEF DeviceNext, SetDeviceAvailability, AllocateStale, AllocateIdle, HealthSelfHeal
<1>9. ASSUME NEW c \in Clients, ClientNext(c)
      PROVE  [Leases!Next]_Leases!leaseVars
  BY <1>1, <1>6, <1>7, <1>9 DEF ClientNext, JoinQueue, CancelRequest, Heartbeat
<1>10. ASSUME NEW s \in SessionIds, SessionNext(s)
       PROVE  [Leases!Next]_Leases!leaseVars
  BY <1>1, <1>7, <1>10, LeaseRevoke, LeaseRelease DEF SessionNext, DeadlinePasses
<1>11. CASE UNCHANGED storeVars
  BY <1>1, <1>11 DEF storeVars
<1>12. QED
  BY <1>8, <1>9, <1>10, <1>11 DEF Next

\* The store implements the lease specification: a device is granted only
\* while it is free and under a larger token, and freed only after the lease
\* of its session was revoked for good.
THEOREM Implementation == Spec => ImplementsLeases
<1>1. Init => Leases!Init
  BY LeaseInit
<1>2. Inv /\ [Next]_storeVars => [Leases!Next]_Leases!leaseVars
  BY LeaseNext
<1>3. QED
  BY <1>1, <1>2, Invariance, PTL DEF Spec, Leases!Spec, ImplementsLeases
-----------------------------------------------------------------------------
(* The store implements ClientPlace.  A reservation maps to Serve, a claim, a *)
(* suspension and a reconnect to Moves, the start of a termination to End,    *)
(* and a cleanup, however late, to a stuttering step.                         *)

places == [c \in Clients |-> Place(c)]
requestsMade == {r \in RequestIds : qe[r].state # "NONE"}

LEMMA PlaceInit == Init => ClientPlaces!Init
  BY DEF Init, ClientPlaces!Init, ClientPlaces!Nowhere, ClientPlaces!At, Place, NoEntry

\* What the two indexes say of a client, once for all steps.
LEMMA WhereItIs ==
    ASSUME TypeOK, OnePlacePerClient, NEW c \in Clients
    PROVE  /\ clientRequest[c] # None =>
                /\ clientRequest[c] \in RequestIds /\ Waiting(clientRequest[c])
                /\ qe[clientRequest[c]].clientId = c /\ clientSession[c] = None
                /\ Place(c) = [state |-> "WAITING", id |-> clientRequest[c]]
           /\ clientSession[c] # None =>
                /\ clientSession[c] \in SessionIds /\ Live(clientSession[c])
                /\ session[clientSession[c]].clientId = c /\ clientRequest[c] = None
                /\ Place(c) = [state |-> session[clientSession[c]].state, id |-> clientSession[c]]
<1>1. IndexesOf(c)
  BY DEF OnePlacePerClient
<1>2. clientRequest[c] \in RequestIds \cup {None} /\ clientSession[c] \in SessionIds \cup {None}
  BY DEF TypeOK
<1>3. \A s \in SessionIds : Live(s) /\ session[s].clientId = c => clientRequest[c] = None
  BY DEF OnePlacePerClient, SessionIndexed
<1>4. QED
  BY <1>1, <1>2, <1>3 DEF IndexesOf, Place

\* A step that leaves alone what the indexes name is a stuttering step.
LEMMA PlaceStutter ==
    ASSUME \A c \in Clients : Place(c)' = Place(c),
           \A r \in RequestIds : qe'[r].state = "NONE" <=> qe[r].state = "NONE"
    PROVE  UNCHANGED ClientPlaces!placeVars
<1>1. places' = places
  BY DEF places
<1>2. requestsMade' = requestsMade
  BY DEF requestsMade
<1>3. QED
  BY <1>1, <1>2 DEF ClientPlaces!placeVars, places, requestsMade

\* One client's place changes.
LEMMA OneMoves ==
    ASSUME NEW c \in Clients, NEW p, Place(c)' = p,
           \A other \in Clients \ {c} : Place(other)' = Place(other)
    PROVE  places' = [places EXCEPT ![c] = p]
  BY DEF places

LEMMA PlaceJoin ==
    ASSUME TypeOK, OnePlacePerClient, NEW c \in Clients, NEW r \in RequestIds, JoinQueue(c, r)
    PROVE  [ClientPlaces!Next]_ClientPlaces!placeVars
<1>1. \A other \in Clients \ {c} : clientSession'[other] = clientSession[other]
  BY DEF JoinQueue, TypeOK
<1>2. clientSession'[c] = None /\ session' = session
  BY DEF JoinQueue, TypeOK, sessionVars
<1>3. CASE HasRequest(c)
  <2>1. clientRequest' = clientRequest /\ qe' = qe
    BY <1>3 DEF JoinQueue, queueVars
  <2>2. \A other \in Clients : Place(other)' = Place(other)
    BY <1>1, <1>2, <1>3, <2>1 DEF Place, HasRequest
  <2>3. QED
    BY <2>1, <2>2, PlaceStutter
<1>4. CASE ~HasRequest(c)
  <2>1. Place(c) = ClientPlaces!Nowhere
    <3>1. clientRequest[c] = None
      BY <1>4, WhereItIs DEF HasRequest
    <3>2. clientSession[c] = None
      BY WhereItIs DEF JoinQueue, HasSession, Live, LiveStates, nonterminal
    <3>3. QED
      BY <3>1, <3>2 DEF Place, ClientPlaces!Nowhere, ClientPlaces!At
  <2>2. PICK t \in {clock, clock + 1} :
           /\ qe' = [qe EXCEPT ![r] = [state |-> "WAITING", clientId |-> c, enqueuedAt |-> t]]
           /\ clientRequest' = [clientRequest EXCEPT ![c] = r]
    BY <1>4 DEF JoinQueue
  <2>3. qe[r].state = "NONE"
    BY DEF JoinQueue
  <2>4. \A other \in Clients \ {c} : Place(other)' = Place(other)
    BY <1>1, <1>2, <2>2 DEF Place, TypeOK
  <2>5. Place(c)' = [state |-> "WAITING", id |-> r]
    BY <2>2, NoneAssumption DEF Place, TypeOK
  <2>6. places' = [places EXCEPT ![c] = [state |-> "WAITING", id |-> r]]
    BY <2>4, <2>5, OneMoves
  <2>7. requestsMade' = requestsMade \cup {r} /\ r \notin requestsMade
    BY <2>2, <2>3 DEF requestsMade, TypeOK
  <2>8. ClientPlaces!Join(c, r)
    BY <2>1, <2>6, <2>7 DEF ClientPlaces!Join, ClientPlaces!At, places, requestsMade
  <2>9. QED
    BY <2>8 DEF ClientPlaces!Next
<1>5. QED
  BY <1>3, <1>4

LEMMA PlaceCancel ==
    ASSUME TypeOK, OnePlacePerClient, NEW c \in Clients, NEW r \in RequestIds, CancelRequest(c, r)
    PROVE  ClientPlaces!Next
<1>1. clientRequest[c] = r /\ r # None
  BY NoneAssumption DEF CancelRequest, OnePlacePerClient, RequestIndexed
<1>2. clientSession' = clientSession /\ session' = session /\ clientRequest' = [clientRequest EXCEPT ![c] = None]
  BY DEF CancelRequest, sessionVars
<1>3. clientSession[c] = None /\ Place(c) = [state |-> "WAITING", id |-> r]
  BY <1>1, WhereItIs
<1>4. Place(c)' = ClientPlaces!Nowhere /\ \A other \in Clients \ {c} : Place(other)' = Place(other)
  BY <1>2, <1>3 DEF Place, TypeOK, ClientPlaces!Nowhere, ClientPlaces!At
<1>5. places' = [places EXCEPT ![c] = ClientPlaces!Nowhere]
  BY <1>4, OneMoves
<1>6. requestsMade' = requestsMade
  BY DEF requestsMade, CancelRequest, Waiting, TypeOK, QueueEntry
<1>7. ClientPlaces!Cancel(c)
  BY <1>3, <1>5, <1>6 DEF ClientPlaces!Cancel, places, requestsMade
<1>8. QED
  BY <1>7 DEF ClientPlaces!Next

LEMMA PlaceServe ==
    ASSUME TypeOK, OnePlacePerClient,
           NEW d \in Devices, NEW r \in RequestIds, NEW s \in SessionIds, AllocateTo(d, r, s)
    PROVE  ClientPlaces!Next
<1>1. PICK c \in Clients : c = qe[r].clientId /\ clientRequest[c] = r
  BY DEF AllocateTo, IsHead, OnePlacePerClient, RequestIndexed
<1>2. clientSession[c] = None /\ Place(c) = [state |-> "WAITING", id |-> r]
  BY <1>1, WhereItIs, NoneAssumption
<1>3. /\ clientSession' = [clientSession EXCEPT ![c] = s]
      /\ clientRequest' = [clientRequest EXCEPT ![c] = None]
      /\ session'[s].state = "RESERVED" /\ \A t \in SessionIds \ {s} : session'[t] = session[t]
  BY <1>1 DEF AllocateTo, TypeOK
<1>4. \A other \in Clients : clientSession[other] # s
  BY WhereItIs, NoneAssumption DEF AllocateTo, Live, LiveStates
<1>5. Place(c)' = [state |-> "RESERVED", id |-> s]
  BY <1>3, NoneAssumption DEF Place, TypeOK
<1>6. \A other \in Clients \ {c} : Place(other)' = Place(other)
  BY <1>3, <1>4 DEF Place, TypeOK
<1>7. places' = [places EXCEPT ![c] = [state |-> "RESERVED", id |-> s]]
  BY <1>5, <1>6, OneMoves
<1>8. \A other \in Clients : places[other].state \in {"RESERVED", "ACTIVE", "DISCONNECTED"} => places[other].id # s
  BY <1>4, NoneAssumption DEF places, Place
<1>9. requestsMade' = requestsMade
  BY DEF requestsMade, AllocateTo, IsHead, Waiting, TypeOK, QueueEntry
<1>10. ClientPlaces!Serve(c, s)
  BY <1>2, <1>7, <1>8, <1>9 DEF ClientPlaces!Serve, ClientPlaces!InSession, ClientPlaces!At, places, requestsMade
<1>11. QED
  BY <1>10 DEF ClientPlaces!Next

\* A live session is where its client is, and nobody else's place.
LEMMA PlaceOfSession ==
    ASSUME TypeOK, OnePlacePerClient, NEW s \in SessionIds, Live(s)
    PROVE  /\ session[s].clientId \in Clients
           /\ clientSession[session[s].clientId] = s /\ clientRequest[session[s].clientId] = None
           /\ Place(session[s].clientId) = [state |-> session[s].state, id |-> s]
           /\ \A other \in Clients \ {session[s].clientId} : clientSession[other] # s
<1>1. SessionIndexed(s)
  BY DEF OnePlacePerClient
<1>2. \A other \in Clients : clientSession[other] = s => session[s].clientId = other
  BY WhereItIs, NoneAssumption
<1>3. QED
  BY <1>1, <1>2, NoneAssumption DEF SessionIndexed, Place

\* The session goes on in another live state.
LEMMA PlaceMoves ==
    ASSUME TypeOK, OnePlacePerClient, NEW s \in SessionIds, Live(s),
           NEW to, session'[s].state = to, \A t \in SessionIds \ {s} : session'[t] = session[t],
           UNCHANGED <<qe, clientSession, clientRequest>>
    PROVE  ClientPlaces!Moves(session[s].clientId, session[s].state, to)
<1>1. PICK c \in Clients :
      /\ c = session[s].clientId /\ clientSession[c] = s /\ clientRequest[c] = None
      /\ Place(c) = [state |-> session[s].state, id |-> s]
      /\ \A other \in Clients \ {c} : clientSession[other] # s
  BY PlaceOfSession
<1>2. Place(c)' = [state |-> to, id |-> s]
  BY <1>1, NoneAssumption DEF Place
<1>3. \A other \in Clients \ {c} : Place(other)' = Place(other)
  BY <1>1 DEF Place, TypeOK
<1>4. places' = [places EXCEPT ![c] = [state |-> to, id |-> s]]
  BY <1>1, <1>2, <1>3, OneMoves
<1>5. places[c] = [state |-> session[s].state, id |-> s]
  BY <1>1 DEF places
<1>6. [places[c] EXCEPT !.state = to] = [state |-> to, id |-> s]
  BY <1>5
<1>7. places' = [places EXCEPT ![c] = [places[c] EXCEPT !.state = to]]
  BY <1>4, <1>6
<1>8. requestsMade' = requestsMade
  BY DEF requestsMade
<1>9. QED
  BY <1>1, <1>5, <1>7, <1>8 DEF ClientPlaces!Moves, places, requestsMade

LEMMA PlaceEnd ==
    ASSUME TypeOK, OnePlacePerClient, NEW s \in SessionIds,
           NEW terminalState \in {"ENDING", "EXPIRED"}, BeginTermination(s, terminalState)
    PROVE  ClientPlaces!Next
<1>1. Live(s)
  BY DEF BeginTermination
<1>2. PICK c \in Clients :
      /\ c = session[s].clientId /\ clientSession[c] = s /\ clientRequest[c] = None
      /\ Place(c) = [state |-> session[s].state, id |-> s]
      /\ \A other \in Clients \ {c} : clientSession[other] # s
  BY <1>1, PlaceOfSession
<1>3. /\ clientSession' = [clientSession EXCEPT ![c] = None] /\ UNCHANGED <<qe, clientRequest>>
      /\ \A t \in SessionIds \ {s} : session'[t] = session[t]
  <2>1. UNCHANGED <<qe, clientRequest>> /\ clientSession' = [clientSession EXCEPT ![c] = None]
    BY <1>2 DEF BeginTermination, queueVars
  <2>2. \A t \in SessionIds \ {s} : session'[t] = session[t]
    BY DEF BeginTermination, TypeOK
  <2>3. QED
    BY <2>1, <2>2
<1>4. Place(c)' = ClientPlaces!Nowhere /\ \A other \in Clients \ {c} : Place(other)' = Place(other)
  BY <1>2, <1>3 DEF Place, TypeOK, ClientPlaces!Nowhere, ClientPlaces!At
<1>5. places' = [places EXCEPT ![c] = ClientPlaces!Nowhere]
  BY <1>2, <1>4, OneMoves
<1>6. requestsMade' = requestsMade
  BY <1>3 DEF requestsMade
<1>7. ClientPlaces!End(c)
  BY <1>1, <1>2, <1>5, <1>6 DEF ClientPlaces!End, ClientPlaces!InSession, Live, LiveStates, places, requestsMade
<1>8. QED
  BY <1>2, <1>7 DEF ClientPlaces!Next

LEMMA PlaceNext == TypeOK /\ OnePlacePerClient /\ [Next]_storeVars => [ClientPlaces!Next]_ClientPlaces!placeVars
<1> SUFFICES ASSUME TypeOK, OnePlacePerClient, [Next]_storeVars
             PROVE  [ClientPlaces!Next]_ClientPlaces!placeVars
  OBVIOUS
<1>1. ASSUME session' = session, UNCHANGED <<qe, clientSession, clientRequest>>
      PROVE  UNCHANGED ClientPlaces!placeVars
  BY <1>1, PlaceStutter DEF Place
<1>2. ASSUME NEW d \in Devices, DeviceNext(d)
      PROVE  [ClientPlaces!Next]_ClientPlaces!placeVars
  BY <1>1, <1>2, PlaceServe
     DEF DeviceNext, RegisterDevice, UnregisterDevice, SetDeviceAvailability, AllocateStale, AllocateIdle,
         HealthOffline, HealthRecovered, HealthSelfHeal, sessionVars, queueVars, clientVars
<1>3. ASSUME NEW c \in Clients, NEW s \in SessionIds, Claim(c, s)
      PROVE  ClientPlaces!Next
  <2>1. /\ Live(s) /\ session[s].clientId = c /\ session[s].state = "RESERVED"
        /\ session'[s].state = "ACTIVE" /\ \A t \in SessionIds \ {s} : session'[t] = session[t]
        /\ UNCHANGED <<qe, clientSession, clientRequest>>
    BY <1>3 DEF Claim, Live, LiveStates, queueVars, clientVars, TypeOK, Session
  <2>2. ClientPlaces!Moves(c, "RESERVED", "ACTIVE")
    BY <2>1, PlaceMoves
  <2>3. QED
    BY <2>2 DEF ClientPlaces!Next
<1>4. ASSUME NEW c \in Clients, NEW s \in SessionIds, Reconnect(c, s)
      PROVE  ClientPlaces!Next
  <2>1. /\ Live(s) /\ session[s].clientId = c /\ session[s].state = "DISCONNECTED"
        /\ session'[s].state = "ACTIVE" /\ \A t \in SessionIds \ {s} : session'[t] = session[t]
        /\ UNCHANGED <<qe, clientRequest>> /\ clientSession' = [clientSession EXCEPT ![c] = s]
    BY <1>4 DEF Reconnect, Live, LiveStates, queueVars, TypeOK, Session
  <2>2. clientSession' = clientSession
    <3>1. clientSession[c] = s
      BY <2>1, PlaceOfSession
    <3>2. QED
      BY <2>1, <3>1 DEF TypeOK
  <2>3. ClientPlaces!Moves(c, "DISCONNECTED", "ACTIVE")
    BY <2>1, <2>2, PlaceMoves
  <2>4. QED
    BY <2>3 DEF ClientPlaces!Next
<1>5. ASSUME NEW s \in SessionIds, MarkDisconnected(s)
      PROVE  ClientPlaces!Next
  <2>1. /\ Live(s) /\ session[s].state = "ACTIVE"
        /\ session'[s].state = "DISCONNECTED" /\ \A t \in SessionIds \ {s} : session'[t] = session[t]
        /\ UNCHANGED <<qe, clientSession, clientRequest>>
    BY <1>5 DEF MarkDisconnected, Live, LiveStates, queueVars, clientVars, TypeOK, Session
  <2>2. ClientPlaces!Moves(session[s].clientId, "ACTIVE", "DISCONNECTED")
    BY <2>1, PlaceMoves
  <2>3. QED
    BY <2>1, <2>2, PlaceOfSession DEF ClientPlaces!Next
<1>6. ASSUME NEW s \in SessionIds, NEW ok \in BOOLEAN, Terminating(s), FinishCleanup(s, session[s].deviceId, ok)
      PROVE  UNCHANGED ClientPlaces!placeVars
  <2>1. \A c \in Clients : clientSession[c] # s
    BY <1>6, WhereItIs, NoneAssumption DEF Terminating, Live, LiveStates
  <2>2. /\ UNCHANGED <<qe, clientSession, clientRequest>>
        /\ \A t \in SessionIds \ {s} : session'[t] = session[t]
    BY <1>6 DEF FinishCleanup, queueVars, clientVars, TypeOK
  <2>3. QED
    BY <2>1, <2>2, PlaceStutter DEF Place, TypeOK
<1>7. ASSUME NEW c \in Clients, ClientNext(c)
      PROVE  [ClientPlaces!Next]_ClientPlaces!placeVars
  BY <1>1, <1>3, <1>4, <1>7, PlaceJoin, PlaceCancel DEF ClientNext, Heartbeat, queueVars, clientVars
<1>8. ASSUME NEW s \in SessionIds, SessionNext(s)
      PROVE  [ClientPlaces!Next]_ClientPlaces!placeVars
  BY <1>1, <1>5, <1>6, <1>8, PlaceEnd DEF SessionNext, DeadlinePasses, queueVars, clientVars
<1>9. CASE UNCHANGED storeVars
  BY <1>1, <1>9 DEF storeVars
<1>10. QED
  BY <1>2, <1>7, <1>8, <1>9 DEF Next

\* The store implements the specification of a client's place: whatever joins, cancels,
\* claims, reconnects, ends and late cleanups are interleaved, a client goes through the
\* states of domain.ts in their order, and a session that has ended stays ended.
THEOREM PlacesImplemented == Spec => ImplementsPlaces
<1>1. Init => ClientPlaces!Init
  BY PlaceInit
<1>2. Inv /\ [Next]_storeVars => [ClientPlaces!Next]_ClientPlaces!placeVars
  BY PlaceNext DEF Inv
<1>3. QED
  BY <1>1, <1>2, Invariance, PTL DEF Spec, ClientPlaces!Spec, ImplementsPlaces
=============================================================================
