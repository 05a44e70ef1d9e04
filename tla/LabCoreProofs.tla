--------------------------- MODULE LabCoreProofs ----------------------------
(* The server process changes the store only as LabStore's callers may, so   *)
(* the theorems about LabStore hold of the whole server, with any number of  *)
(* cleanup workers and restarts.  Then what recovery achieves wherever the   *)
(* process was killed, and what holds of a process that is not restarted.    *)
EXTENDS LabCore, LabStoreProofs

\* The store's invariant, and what the memory of the process says about it.
CoreInv ==
    /\ Inv
    /\ CoreTypeOK
    /\ WorkersBelong
    /\ RepairBelongs

-----------------------------------------------------------------------------
(* A session never becomes live again, nor moves to another device.          *)

SessionKept(s) ==
    /\ session[s].state # "NONE" =>
         session'[s].state # "NONE" /\ session'[s].deviceId = session[s].deviceId
    /\ Terminating(s) => Terminating(s)'

LEMMA SessionsKept ==
    ASSUME TypeOK, [Next]_storeVars, NEW t \in SessionIds
    PROVE  SessionKept(t)
<1> USE DEF TypeOK, sessionVars
<1>1. ASSUME session' = session
      PROVE  SessionKept(t)
  BY <1>1 DEF SessionKept, Terminating
<1>2. ASSUME NEW s \in SessionIds,
             NEW state \in {"ACTIVE", "DISCONNECTED", "ENDING", "EXPIRED", "ENDED"},
             session' = [session EXCEPT ![s].state = state],
             Live(s) \/ (Terminating(s) /\ state = "ENDED")
      PROVE  SessionKept(t)
  BY <1>2 DEF SessionKept, Terminating, Live, LiveStates, Session
<1>3. ASSUME NEW d \in Devices, DeviceNext(d)
      PROVE  SessionKept(t)
  <2>1. ASSUME NEW r \in RequestIds, NEW s \in SessionIds, AllocateTo(d, r, s)
        PROVE  SessionKept(t)
    BY <2>1 DEF AllocateTo, SessionKept, Terminating
  <2>2. QED
    BY <1>1, <1>3, <2>1
       DEF DeviceNext, RegisterDevice, UnregisterDevice, SetDeviceAvailability, AllocateStale,
           AllocateIdle, HealthOffline, HealthRecovered, HealthSelfHeal
<1>4. ASSUME NEW c \in Clients, ClientNext(c)
      PROVE  SessionKept(t)
  <2>1. ASSUME NEW s \in SessionIds, Claim(c, s) \/ Reconnect(c, s)
        PROVE  SessionKept(t)
    BY <1>2, <2>1 DEF Claim, Reconnect, Live, LiveStates
  <2>2. QED
    BY <1>1, <1>4, <2>1 DEF ClientNext, JoinQueue, CancelRequest, Heartbeat
<1>5. ASSUME NEW s \in SessionIds, SessionNext(s)
      PROVE  SessionKept(t)
  <2>1. CASE MarkDisconnected(s)
    BY <1>2, <2>1 DEF MarkDisconnected, Live, LiveStates
  <2>2. ASSUME NEW terminalState \in {"ENDING", "EXPIRED"}, BeginTermination(s, terminalState)
        PROVE  SessionKept(t)
    BY <1>2, <2>2 DEF BeginTermination
  <2>3. ASSUME NEW ok \in BOOLEAN, Terminating(s), FinishCleanup(s, session[s].deviceId, ok)
        PROVE  SessionKept(t)
    BY <1>2, <2>3 DEF FinishCleanup
  <2>4. ASSUME NEW x \in Deadlines, DeadlinePasses(s, x)
        PROVE  SessionKept(t)
    BY <1>1, <2>4 DEF DeadlinePasses
  <2>5. QED
    BY <1>5, <2>1, <2>2, <2>3, <2>4 DEF SessionNext
<1>6. CASE UNCHANGED storeVars
  BY <1>1, <1>6 DEF storeVars
<1>7. QED
  BY <1>3, <1>4, <1>5, <1>6 DEF Next

-----------------------------------------------------------------------------
(* Every step of the process is one script, or leaves the store alone.       *)

LEMMA TerminateRefines ==
    ASSUME NEW s \in SessionIds, NEW terminalState \in {"ENDING", "EXPIRED"},
           Terminate(s, terminalState)
    PROVE  Next
  BY DEF Terminate, Next, SessionNext

LEMMA ClientRefines ==
    ASSUME CoreInv, NEW c \in Clients, CoreClientNext(c)
    PROVE  Next
<1>1. CASE ClientDisconnected(c)
  <2>1. clientSession[c] \in SessionIds
    BY <1>1 DEF CoreInv, Inv, TypeOK, ClientDisconnected
  <2>2. QED
    BY <1>1, <2>1 DEF ClientDisconnected, Next, SessionNext
<1>2. CASE ~ClientDisconnected(c)
  BY <1>2 DEF CoreClientNext, RequestDevice, ClaimSession, Next, ClientNext
<1>3. QED
  BY <1>1, <1>2

LEMMA WorkerRefines ==
    ASSUME CoreInv, NEW w \in Workers, WorkerNext(w)
    PROVE  [Next]_storeVars
<1>1. CASE ReportCleanup(w)
  <2>1. /\ worker[w].session \in SessionIds
        /\ Terminating(worker[w].session)
        /\ worker[w].device = session[worker[w].session].deviceId
    BY <1>1 DEF CoreInv, CoreTypeOK, WorkersBelong, ReportCleanup, WorkerStates
  <2>2. PICK ok \in BOOLEAN : FinishCleanup(worker[w].session, worker[w].device, ok)
    BY <1>1 DEF ReportCleanup
  <2>3. QED
    BY <2>1, <2>2 DEF Next, SessionNext
<1>2. CASE ~ReportCleanup(w)
  BY <1>2 DEF WorkerNext, RuntimeStopped, CleanupRuns, RetryCleanup, Proceed
<1>3. QED
  BY <1>1, <1>2

LEMMA HealthRefines ==
    ASSUME CoreInv, NEW d \in Devices,
           HealthTerminates(d) \/ HealthFails(d) \/ HealthRecovers(d) \/ HealthPasses(d)
    PROVE  Next
<1>1. CASE HealthTerminates(d)
  <2>1. device[d].currentSessionId # None
    BY <1>1 DEF HealthTerminates, CoreInv, Inv, OwnershipAgrees, BindingOf
  <2>2. PICK s \in SessionIds : s = device[d].currentSessionId
    BY <2>1 DEF CoreInv, Inv, TypeOK, Device
  <2>3. QED
    BY <1>1, <2>2, TerminateRefines DEF HealthTerminates
<1>2. CASE ~HealthTerminates(d)
  BY <1>2 DEF HealthFails, HealthRecovers, HealthPasses, Next, DeviceNext
<1>3. QED
  BY <1>1, <1>2

LEMMA BootRefines ==
    ASSUME CoreInv, BootNext
    PROVE  [Next]_storeVars
<1>1. ASSUME NEW d \in Devices, BootRegisters(d)
      PROVE  [Next]_storeVars
  BY <1>1 DEF BootRegisters, Next, DeviceNext
<1>2. ASSUME NEW s \in SessionIds, BootSession(s)
      PROVE  [Next]_storeVars
  BY <1>2 DEF BootSession, Next, SessionNext
<1>3. CASE BootWritesAvail
  <2>1. repair.device \in Devices /\ repair.available \in BOOLEAN
    BY <1>3 DEF BootWritesAvail, CoreInv, CoreTypeOK, RepairBelongs
  <2>2. QED
    BY <1>3, <2>1 DEF BootWritesAvail, Next, DeviceNext
<1>4. CASE BootAdvances \/ BootReadsSession \/ \E d \in Devices : BootReadsDevice(d)
  BY <1>4 DEF BootAdvances, BootReadsSession, BootReadsDevice
<1>5. QED
  BY <1>1, <1>2, <1>3, <1>4 DEF BootNext

LEMMA CoreNextRefines == CoreInv /\ [CoreNext]_coreVars => [Next]_storeVars
<1> SUFFICES ASSUME CoreInv, [CoreNext]_coreVars PROVE [Next]_storeVars
  OBVIOUS
<1>1. CASE PumpNext
  BY <1>1 DEF PumpNext, PumpCalled, PumpAllocates, PumpContinues, Next, DeviceNext
<1>2. ASSUME NEW s \in SessionIds, EndSession(s) \/ ReaperExpires(s)
      PROVE  [Next]_storeVars
  BY <1>2, TerminateRefines DEF EndSession, ReaperExpires
<1>3. ASSUME NEW s \in SessionIds, ReaperDisconnects(s)
      PROVE  [Next]_storeVars
  BY <1>3 DEF ReaperDisconnects, Next, SessionNext
<1>4. ASSUME NEW s \in SessionIds, NEW x \in Deadlines, TimePasses(s, x)
      PROVE  [Next]_storeVars
  BY <1>4 DEF TimePasses, Next, SessionNext
<1>5. CASE Crash
  BY <1>5 DEF Crash
<1>6. CASE UNCHANGED coreVars
  BY <1>6 DEF coreVars, storeVars
<1>7. QED
  BY <1>1, <1>2, <1>3, <1>4, <1>5, <1>6, WorkerRefines, ClientRefines, HealthRefines,
     BootRefines DEF CoreNext

-----------------------------------------------------------------------------
(* The workers: each has a session that is over and cleans its device.       *)

WorkersTyped ==
    /\ worker \in [Workers -> [pc : WorkerStates, session : SessionIds \cup {None},
                               device : Devices \cup {None}]]
    /\ \A w \in Workers : worker[w].pc # "none" => worker[w].session # None

WorkersOK == WorkersTyped /\ WorkersBelong

OverStates == {"ENDING", "EXPIRED", "CLEANING", "ENDED"}

\* What a worker cleans remains what it should clean.
LEMMA WorkersKept ==
    ASSUME TypeOK, WorkersOK, [Next]_storeVars, NEW w \in Workers, worker[w].pc # "none"
    PROVE  /\ session'[worker[w].session].state \in OverStates
           /\ session'[worker[w].session].deviceId = worker[w].device
<1>1. PICK s \in SessionIds : s = worker[w].session
  BY DEF WorkersOK, WorkersTyped
<1>2. Terminating(s) /\ session[s].deviceId = worker[w].device
  BY <1>1 DEF WorkersOK, WorkersBelong, Terminating
<1>3. SessionKept(s)
  BY SessionsKept
<1>4. session'[s].state \in OverStates /\ session'[s].deviceId = worker[w].device
  BY <1>2, <1>3 DEF SessionKept, Terminating, OverStates
<1>5. QED
  BY <1>1, <1>4

\* How WorkersBelong is reached: the sessions of the workers are over.
LEMMA WorkersBelongAfter ==
    ASSUME \A w \in Workers : worker'[w].pc # "none" =>
             /\ session'[worker'[w].session].state \in OverStates
             /\ session'[worker'[w].session].deviceId = worker'[w].device
    PROVE  WorkersBelong'
  BY DEF WorkersBelong, Terminating, OverStates

LEMMA WorkersStay ==
    ASSUME TypeOK, WorkersOK, [Next]_storeVars, worker' = worker
    PROVE  WorkersOK'
<1>1. WorkersTyped'
  BY DEF WorkersOK, WorkersTyped
<1>2. WorkersBelong'
  BY WorkersKept, WorkersBelongAfter
<1>3. QED
  BY <1>1, <1>2 DEF WorkersOK

LEMMA WorkerStarts ==
    ASSUME TypeOK, WorkersOK, [Next]_storeVars,
           NEW s \in SessionIds, NEW d \in Devices, NEW pc \in WorkerStates \ {"none"},
           StartWorker(s, d, pc), Terminating(s)', d = session'[s].deviceId
    PROVE  WorkersOK'
<1>1. PICK v \in Workers :
        /\ worker[v] = NoWorker
        /\ worker' = [worker EXCEPT ![v] = [pc |-> pc, session |-> s, device |-> d]]
  BY DEF StartWorker
<1>2. worker'[v] = [pc |-> pc, session |-> s, device |-> d]
  BY <1>1 DEF WorkersOK, WorkersTyped
<1>3. \A w \in Workers : w # v => worker'[w] = worker[w]
  BY <1>1 DEF WorkersOK, WorkersTyped
<1>4. WorkersTyped'
  BY <1>1, <1>2, <1>3, NoneAssumption DEF WorkersOK, WorkersTyped
<1>5. ASSUME NEW w \in Workers, worker'[w].pc # "none"
      PROVE  /\ session'[worker'[w].session].state \in OverStates
             /\ session'[worker'[w].session].deviceId = worker'[w].device
  <2>1. CASE w = v
    BY <1>2, <2>1 DEF Terminating, OverStates
  <2>2. CASE w # v
    BY <1>3, <1>5, <2>2, WorkersKept
  <2>3. QED
    BY <2>1, <2>2
<1>6. WorkersBelong'
  BY <1>5, WorkersBelongAfter
<1>7. QED
  BY <1>4, <1>6 DEF WorkersOK

\* A worker goes on to another point of its loop, or returns.
LEMMA WorkerGoesOn ==
    ASSUME TypeOK, WorkersOK, [Next]_storeVars,
           NEW v \in Workers, worker[v].pc # "none", NEW pc \in WorkerStates,
           \/ worker' = [worker EXCEPT ![v].pc = pc]
           \/ worker' = [worker EXCEPT ![v] = NoWorker]
    PROVE  WorkersOK'
<1>1. /\ \/ worker'[v] = NoWorker
         \/ /\ worker'[v].session = worker[v].session
            /\ worker'[v].device = worker[v].device
      /\ \A w \in Workers : w # v => worker'[w] = worker[w]
  BY DEF WorkersOK, WorkersTyped
<1>2. WorkersTyped'
  <2>1. CASE worker' = [worker EXCEPT ![v].pc = pc]
    BY <2>1 DEF WorkersOK, WorkersTyped
  <2>2. CASE worker' = [worker EXCEPT ![v] = NoWorker]
    BY <2>2 DEF WorkersOK, WorkersTyped, NoWorker, WorkerStates
  <2>3. QED
    BY <2>1, <2>2
<1>3. ASSUME NEW w \in Workers, worker'[w].pc # "none"
      PROVE  /\ worker[w].pc # "none"
             /\ worker'[w].session = worker[w].session
             /\ worker'[w].device = worker[w].device
  BY <1>1, <1>3 DEF NoWorker, WorkersOK, WorkersTyped
<1>4. WorkersBelong'
  BY <1>3, WorkersKept, WorkersBelongAfter
<1>5. QED
  BY <1>2, <1>4 DEF WorkersOK

LEMMA TerminateKeepsWorkers ==
    ASSUME CoreInv, [Next]_storeVars, NEW s \in SessionIds,
           NEW terminalState \in {"ENDING", "EXPIRED"}, Terminate(s, terminalState)
    PROVE  WorkersOK'
<1>1. /\ TypeOK /\ WorkersOK /\ OwnsItsDevice(s)
      /\ BeginTermination(s, terminalState)
      /\ StartWorker(s, session[s].deviceId, "stopping")
  BY DEF CoreInv, CoreTypeOK, Inv, OwnershipAgrees, WorkersOK, WorkersTyped, Terminate
<1>2. session[s].deviceId \in Devices
  BY <1>1 DEF BeginTermination, OwnsItsDevice
<1>3. Terminating(s)' /\ session'[s].deviceId = session[s].deviceId
  BY <1>1 DEF BeginTermination, Terminating, TypeOK
<1>4. QED
  BY <1>1, <1>2, <1>3, WorkerStarts DEF WorkerStates

LEMMA BootKeepsWorkers ==
    ASSUME CoreInv, [Next]_storeVars, BootNext
    PROVE  WorkersOK'
<1>1. TypeOK /\ WorkersOK /\ FencesNeverReused
  BY DEF CoreInv, CoreTypeOK, Inv, WorkersOK, WorkersTyped
<1>2. ASSUME NEW s \in SessionIds, BootSession(s), worker' # worker
      PROVE  WorkersOK'
  <2>1. Terminating(s) /\ session' = session /\ StartWorker(s, session[s].deviceId, "cleaning")
    BY <1>2 DEF BootSession, Interrupted, Terminating, storeVars
  <2>2. session[s].deviceId \in Devices
    BY <1>1, <2>1 DEF FencesNeverReused, Terminating
  <2>3. QED
    BY <1>1, <2>1, <2>2, WorkerStarts DEF WorkerStates, Terminating
<1>3. CASE BootReadsSession /\ worker' # worker
  <2>1. /\ StartWorker(repair.session, repair.device, "cleaning")
        /\ session' = session
        /\ repair.session # None
        /\ ~nonterminal(session[repair.session].state)
    BY <1>3 DEF BootReadsSession, storeVars
  <2>2. repair # NoRepair
    BY <2>1 DEF NoRepair
  <2>3. PICK s \in SessionIds, d \in Devices :
          /\ s = repair.session /\ d = repair.device
          /\ session[s].state # "NONE"
          /\ session[s].deviceId = d
    BY <2>1, <2>2 DEF CoreInv, CoreTypeOK, RepairBelongs
  <2>4. Terminating(s)
    BY <1>1, <2>1, <2>3
       DEF nonterminal, Terminating, TypeOK, Session, SessionStates, LiveStates
  <2>5. QED
    BY <1>1, <2>1, <2>3, <2>4, WorkerStarts DEF WorkerStates, Terminating
<1>4. CASE worker' = worker
  BY <1>1, <1>4, WorkersStay
<1>5. QED
  BY <1>2, <1>3, <1>4
     DEF BootNext, BootAdvances, BootRegisters, BootReadsDevice, BootWritesAvail

LEMMA WorkersNext == CoreInv /\ [CoreNext]_coreVars => WorkersOK'
<1> SUFFICES ASSUME CoreInv, [CoreNext]_coreVars PROVE WorkersOK'
  OBVIOUS
<1>1. TypeOK /\ WorkersOK /\ [Next]_storeVars
  BY CoreNextRefines DEF CoreInv, CoreTypeOK, Inv, WorkersOK, WorkersTyped
<1>2. ASSUME NEW w \in Workers, WorkerNext(w)
      PROVE  WorkersOK'
  <2>1. worker[w].pc # "none"
    BY <1>2 DEF WorkerNext, RuntimeStopped, CleanupRuns, RetryCleanup, ReportCleanup, Proceed
  <2>2. PICK pc \in WorkerStates :
          \/ worker' = [worker EXCEPT ![w].pc = pc]
          \/ worker' = [worker EXCEPT ![w] = NoWorker]
    BY <1>2 DEF WorkerNext, RuntimeStopped, CleanupRuns, RetryCleanup, ReportCleanup, Proceed,
                WorkerStates
  <2>3. QED
    BY <1>1, <2>1, <2>2, WorkerGoesOn
<1>3. ASSUME NEW s \in SessionIds, EndSession(s) \/ ReaperExpires(s)
      PROVE  WorkersOK'
  BY <1>1, <1>3, TerminateKeepsWorkers DEF EndSession, ReaperExpires
<1>4. ASSUME NEW d \in Devices, HealthTerminates(d)
      PROVE  WorkersOK'
  <2>1. PICK s \in SessionIds : s = device[d].currentSessionId
    BY <1>4 DEF HealthTerminates, CoreInv, Inv, OwnershipAgrees, BindingOf, TypeOK, Device
  <2>2. QED
    BY <1>1, <1>4, <2>1, TerminateKeepsWorkers DEF HealthTerminates
<1>5. CASE BootNext
  BY <1>1, <1>5, BootKeepsWorkers
<1>6. CASE Crash
  BY <1>6 DEF Crash, NoWorker, WorkersOK, WorkersTyped, WorkersBelong, WorkerStates
<1>7. CASE worker' = worker
  BY <1>1, <1>7, WorkersStay
<1>8. QED
  BY <1>2, <1>3, <1>4, <1>5, <1>6, <1>7
     DEF CoreNext, PumpNext, PumpCalled, PumpAllocates, PumpContinues, CoreClientNext,
         RequestDevice, ClaimSession, ClientDisconnected, ReaperDisconnects, HealthFails,
         HealthRecovers, HealthPasses, TimePasses, procVars, coreVars

-----------------------------------------------------------------------------
(* The rest of the memory.                                                   *)

LEMMA RepairNext == CoreInv /\ [CoreNext]_coreVars => RepairBelongs'
<1> SUFFICES ASSUME CoreInv, [CoreNext]_coreVars PROVE RepairBelongs'
  OBVIOUS
<1>1. TypeOK /\ RepairBelongs /\ [Next]_storeVars
  BY CoreNextRefines DEF CoreInv, Inv
<1>2. CASE repair' = repair
  <2>1. CASE repair # NoRepair /\ repair.session # None
    <3>1. PICK s \in SessionIds : s = repair.session
      BY <2>1 DEF CoreInv, CoreTypeOK
    <3>2. SessionKept(s)
      BY <1>1, SessionsKept
    <3>3. session'[s].state # "NONE" /\ session'[s].deviceId = repair.device
      BY <1>1, <2>1, <3>1, <3>2 DEF SessionKept, RepairBelongs
    <3>4. QED
      BY <1>1, <1>2, <3>1, <3>3 DEF RepairBelongs
  <2>2. CASE repair = NoRepair \/ repair.session = None
    BY <1>1, <1>2, <2>2 DEF RepairBelongs
  <2>3. QED
    BY <2>1, <2>2
<1>3. ASSUME NEW d \in Devices, BootReadsDevice(d)
      PROVE  RepairBelongs'
  <2>1. /\ repair' = [device |-> d, session |-> device[d].currentSessionId,
                      available |-> device[d].state = "AVAILABLE"]
        /\ session' = session
    BY <1>3 DEF BootReadsDevice, storeVars
  <2>2. repair'.device = d /\ repair'.session = device[d].currentSessionId
    BY <2>1
  <2>3. device[d].currentSessionId # None =>
          /\ session[device[d].currentSessionId].state # "NONE"
          /\ session[device[d].currentSessionId].deviceId = d
    BY DEF CoreInv, Inv, OwnershipAgrees, BindingOf
  <2>4. QED
    BY <2>1, <2>2, <2>3 DEF RepairBelongs
<1>4. CASE BootReadsSession
  <2>1. repair'.session = None /\ repair'.device = repair.device
    BY <1>4 DEF BootReadsSession, CoreInv, CoreTypeOK
  <2>2. repair # NoRepair
    BY <1>4 DEF BootReadsSession, NoRepair
  <2>3. QED
    BY <1>1, <2>1, <2>2 DEF RepairBelongs
<1>5. CASE repair' = NoRepair
  BY <1>5 DEF RepairBelongs
<1>6. QED
  BY <1>2, <1>3, <1>4, <1>5
     DEF CoreNext, BootNext, BootAdvances, BootRegisters, BootSession, BootWritesAvail, Crash,
         WorkerNext, RuntimeStopped, CleanupRuns, RetryCleanup, ReportCleanup, Proceed,
         PumpNext, PumpCalled, PumpAllocates, PumpContinues, CoreClientNext, RequestDevice,
         ClaimSession, ClientDisconnected, EndSession, ReaperExpires, Terminate,
         ReaperDisconnects, HealthTerminates, HealthFails, HealthRecovers, HealthPasses,
         TimePasses, bootVars, procVars, coreVars

\* The scalars of the memory.
CountersOK ==
    /\ mode \in {"down", "register", "sessions", "devices", "up"}
    /\ todo \in SUBSET (Devices \cup SessionIds)
    /\ pump \in {"idle", "call", "null"}
    /\ pumpAgain \in BOOLEAN
    /\ calls \in Nat
    /\ faults \in 0 .. MaxFaults
    /\ dirty \in SUBSET Devices

LEMMA CountersNext == CoreInv /\ [CoreNext]_coreVars => CountersOK'
<1> SUFFICES ASSUME CoreInv, [CoreNext]_coreVars PROVE CountersOK'
  OBVIOUS
<1>1. CountersOK /\ TypeOK
  BY DEF CoreInv, CoreTypeOK, CountersOK, Inv
<1> USE DEF CountersOK, bootVars, pumpVars, procVars
<1>2. ASSUME NEW w \in Workers, WorkerNext(w)
      PROVE  CountersOK'
  BY <1>1, <1>2 DEF WorkerNext, RuntimeStopped, CleanupRuns, RetryCleanup, ReportCleanup,
                    Proceed, LeftDirty
<1>3. CASE PumpNext
  <2>1. CASE PumpCalled
    <3>1. calls' \in Nat /\ pump' \in {"idle", "call", "null"}
      BY <1>1, <2>1 DEF PumpCalled
    <3>2. pumpAgain' \in BOOLEAN
      BY <1>1, <2>1, Zenon DEF PumpCalled
    <3>3. QED
      BY <1>1, <2>1, <3>1, <3>2 DEF PumpCalled
  <2>2. CASE PumpAllocates
    BY <1>1, <2>2 DEF PumpAllocates
  <2>3. CASE PumpContinues
    <3>1. pump' \in {"idle", "call", "null"} /\ pumpAgain' \in BOOLEAN
      BY <1>1, <2>3 DEF PumpContinues
    <3>2. QED
      BY <1>1, <2>3, <3>1 DEF PumpContinues
  <2>4. QED
    BY <1>3, <2>1, <2>2, <2>3 DEF PumpNext
<1>4. ASSUME NEW c \in Clients, CoreClientNext(c)
      PROVE  CountersOK'
  <2>1. ASSUME NEW s \in SessionIds, ClaimSession(c, s)
        PROVE  CountersOK'
    <3>1. session[s].deviceId \in Devices
      BY <2>1 DEF ClaimSession, Claim, CoreInv, Inv, OwnershipAgrees, OwnsItsDevice, Live, LiveStates
    <3>2. QED
      BY <1>1, <2>1, <3>1 DEF ClaimSession
  <2>2. QED
    BY <1>1, <1>4, <2>1 DEF CoreClientNext, RequestDevice, ClientDisconnected
<1>5. ASSUME NEW s \in SessionIds,
             EndSession(s) \/ ReaperExpires(s) \/ ReaperDisconnects(s)
      PROVE  CountersOK'
  BY <1>1, <1>5 DEF EndSession, ReaperExpires, ReaperDisconnects, Terminate
<1>6. ASSUME NEW d \in Devices,
             HealthTerminates(d) \/ HealthFails(d) \/ HealthRecovers(d) \/ HealthPasses(d)
      PROVE  CountersOK'
  BY <1>1, <1>6, BoundsAssumption DEF HealthTerminates, HealthFails, HealthRecovers, HealthPasses,
                                      Terminate
<1>7. ASSUME NEW s \in SessionIds, NEW x \in Deadlines, TimePasses(s, x)
      PROVE  CountersOK'
  BY <1>1, <1>7 DEF TimePasses
<1>8. CASE Crash
  <2>1. faults' \in 0 .. MaxFaults
    BY <1>1, <1>8, BoundsAssumption DEF Crash
  <2>2. pumpAgain' \in BOOLEAN
    BY <1>8 DEF Crash
  <2>3. QED
    BY <1>1, <1>8, <2>1, <2>2 DEF Crash
<1>9. CASE BootNext
  BY <1>1, <1>9 DEF BootNext, BootAdvances, BootRegisters, BootSession, BootReadsDevice,
                    BootReadsSession, BootWritesAvail, TypeOK
<1>10. CASE UNCHANGED coreVars
  BY <1>1, <1>10 DEF coreVars
<1>11. QED
  BY <1>2, <1>3, <1>4, <1>5, <1>6, <1>7, <1>8, <1>9, <1>10 DEF CoreNext

LEMMA RepairTyped ==
    CoreInv /\ [CoreNext]_coreVars =>
      repair' \in [device : Devices \cup {None}, session : SessionIds \cup {None},
                   available : BOOLEAN]
<1> DEFINE Repairs == [device : Devices \cup {None}, session : SessionIds \cup {None},
                       available : BOOLEAN]
<1> SUFFICES ASSUME CoreInv, [CoreNext]_coreVars PROVE repair' \in Repairs
  OBVIOUS
<1>1. repair \in Repairs /\ NoRepair \in Repairs
  BY DEF CoreInv, CoreTypeOK, NoRepair
<1>2. ASSUME NEW d \in Devices, BootReadsDevice(d)
      PROVE  repair' \in Repairs
  BY <1>2 DEF BootReadsDevice, CoreInv, Inv, TypeOK, Device
<1>3. CASE BootReadsSession
  BY <1>1, <1>3 DEF BootReadsSession
<1>4. CASE repair' = repair \/ repair' = NoRepair
  BY <1>1, <1>4
<1>5. QED
  BY <1>2, <1>3, <1>4
     DEF CoreNext, BootNext, BootAdvances, BootRegisters, BootSession, BootWritesAvail, Crash,
         WorkerNext, RuntimeStopped, CleanupRuns, RetryCleanup, ReportCleanup, Proceed,
         PumpNext, PumpCalled, PumpAllocates, PumpContinues, CoreClientNext, RequestDevice,
         ClaimSession, ClientDisconnected, EndSession, ReaperExpires, Terminate,
         ReaperDisconnects, HealthTerminates, HealthFails, HealthRecovers, HealthPasses,
         TimePasses, bootVars, procVars, coreVars

-----------------------------------------------------------------------------
(* The theorems.                                                             *)

LEMMA CoreInvInit == CoreInit => CoreInv
<1> SUFFICES ASSUME CoreInit PROVE CoreInv
  OBVIOUS
<1>1. Inv
  BY InvInit DEF CoreInit
<1>2. CoreTypeOK
  <2>1. faults \in 0 .. MaxFaults
    BY BoundsAssumption DEF CoreInit
  <2>2. QED
    BY <2>1 DEF CoreInit, CoreTypeOK, NoRepair, NoWorker, WorkerStates
<1>3. WorkersBelong /\ RepairBelongs
  BY DEF CoreInit, WorkersBelong, RepairBelongs, NoRepair, NoWorker
<1>4. QED
  BY <1>1, <1>2, <1>3 DEF CoreInv

LEMMA CoreInvNext == CoreInv /\ [CoreNext]_coreVars => CoreInv'
<1> SUFFICES ASSUME CoreInv, [CoreNext]_coreVars PROVE CoreInv'
  OBVIOUS
<1>1. Inv'
  BY CoreNextRefines, InvNext DEF CoreInv
<1>2. WorkersTyped' /\ WorkersBelong'
  BY WorkersNext DEF WorkersOK
<1>3. CoreTypeOK'
  BY <1>2, CountersNext, RepairTyped DEF CoreTypeOK, CountersOK, WorkersTyped
<1>4. QED
  BY <1>1, <1>2, <1>3, RepairNext DEF CoreInv

\* The inductive invariant of the process and its store, with any number of
\* workers and restarts.
THEOREM CoreInvariance == CoreSpec => []CoreInv
  BY CoreInvInit, CoreInvNext, PTL DEF CoreSpec

\* The memory of the process is well formed; a cleanup that has returned is over.
THEOREM CoreTypeCorrect == CoreSpec => []CoreTypeOK
<1>1. CoreInv => CoreTypeOK
  BY DEF CoreInv
<1>2. QED
  BY <1>1, CoreInvariance, PTL

\* No cleanup ever runs, nor is resumed after a restart, on behalf of a session
\* that is still alive, and none on a device that was not that session's.
THEOREM CleanupBelongs == CoreSpec => []WorkersBelong
<1>1. CoreInv => WorkersBelong
  BY DEF CoreInv
<1>2. QED
  BY <1>1, CoreInvariance, PTL

\* The process implements the store's specification: every step of core.ts is
\* one script called as LabStore assumes, or leaves Redis alone.
THEOREM CoreImplementsStore == CoreSpec => ImplementsStore
<1>1. CoreInit => Init
  BY DEF CoreInit
<1>2. CoreInv /\ [CoreNext]_coreVars => [Next]_storeVars
  BY CoreNextRefines
<1>3. QED
  BY <1>1, <1>2, CoreInvariance, PTL DEF CoreSpec, Spec, ImplementsStore

\* What was proved of the store holds of the running server, crashes included.
THEOREM CoreOwnership ==
    CoreSpec => [](OwnershipAgrees /\ FencesNeverReused /\ OnePlacePerClient /\ NoOvertaking)
<1>1. CoreInv => OwnershipAgrees /\ FencesNeverReused /\ OnePlacePerClient /\ NoOvertaking
  BY DEF CoreInv, Inv
<1>2. QED
  BY <1>1, CoreInvariance, PTL

\* So do its two abstract specifications: with cleanups that overlap and restarts in any
\* state a device is freed only after its session's lease was revoked, and no client's
\* session comes back.
THEOREM CoreKeepsPromises == CoreSpec => ImplementsLeases /\ ImplementsPlaces
<1>1. Spec => ImplementsLeases /\ ImplementsPlaces
  BY Implementation, PlacesImplemented
<1>2. CoreSpec => Spec
  BY CoreImplementsStore DEF ImplementsStore
<1>3. QED
  BY <1>1, <1>2

-----------------------------------------------------------------------------
(* Recovery.  That no device is forgotten once the server is up rests on     *)
(* what each phase of the bootstrap leaves for the next: until then a device *)
(* in CLEANING has a worker, or lies in front of the loop that starts one.   *)

Working(d) ==
    \E w \in Workers :
        /\ worker[w].pc # "none"
        /\ worker[w].device = d
        /\ worker[w].session = device[d].currentSessionId

\* The loop over sessions finds the session of the device, or it is ENDED, for a
\* failed attempt was reported before the crash; then the loop over devices
\* finds the device, or has just read it.
InReach(d) ==
    LET s == device[d].currentSessionId IN
    \/ mode \in {"down", "register"}
    \/ mode = "sessions" /\ (s \in todo \/ session[s].state = "ENDED")
    \/ /\ mode = "devices" /\ session[s].state = "ENDED"
       /\ d \in todo \/ (repair.device = d /\ repair.session = s)

Attended(d) == device[d].state = "CLEANING" => Working(d) \/ InReach(d)

\* The set `sessions' lists every session whose cleanup was never reported.
SessionsListed ==
    \A s \in SessionIds : session[s].state \notin {"NONE", "ENDED"} => s \in sessions

\* An attempt that is about to be reported as a success has cleaned the device,
\* if that is still bound to the worker's session.
CleanMeansClean ==
    \A w \in Workers :
        worker[w].pc = "clean" /\ BoundTo(worker[w].device, worker[w].session)
          => worker[w].device \notin dirty

RecoveryInv ==
    /\ CoreInv
    /\ SessionsListed
    /\ \A d \in Devices : Attended(d)
    /\ CleanMeansClean

\* What every script but beginTermination leaves alone.
CleaningKept ==
    /\ \A d \in Devices : device'[d].state = "CLEANING" =>
         /\ device[d].state = "CLEANING"
         /\ device'[d].currentSessionId = device[d].currentSessionId
    /\ \A s \in SessionIds : session[s].state = "ENDED" => session'[s].state = "ENDED"

LEMMA DeviceKeepsCleaning ==
    ASSUME TypeOK, NEW d \in Devices, DeviceNext(d)
    PROVE  CleaningKept
<1> USE DEF TypeOK, deviceVars, sessionVars, CleaningKept
<1>1. ASSUME NEW r \in RequestIds, NEW s \in SessionIds, AllocateTo(d, r, s)
      PROVE  CleaningKept
  <2>1. \A e \in Devices : e # d => device'[e] = device[e]
    BY <1>1 DEF AllocateTo
  <2>2. device'[d].state = "RESERVED"
    BY <1>1 DEF AllocateTo
  <2>3. \A t \in SessionIds : session[t].state = "ENDED" => session'[t] = session[t]
    BY <1>1 DEF AllocateTo
  <2>4. QED
    BY <2>1, <2>2, <2>3
<1>2. ASSUME NEW online \in BOOLEAN, RegisterDevice(d, online)
      PROVE  CleaningKept
  BY <1>2 DEF RegisterDevice, NoDevice
<1>3. CASE UnregisterDevice(d) \/ HealthOffline(d) \/ HealthRecovered(d)
  BY <1>3 DEF UnregisterDevice, HealthOffline, HealthRecovered, NoDevice, Unbound, Device
<1>4. QED
  BY <1>1, <1>2, <1>3
     DEF DeviceNext, SetDeviceAvailability, AllocateStale, AllocateIdle, HealthSelfHeal

LEMMA ClientKeepsCleaning ==
    ASSUME TypeOK, NEW c \in Clients, ClientNext(c)
    PROVE  CleaningKept
<1> USE DEF TypeOK, deviceVars, sessionVars, CleaningKept
<1>1. ASSUME NEW s \in SessionIds, Claim(c, s)
      PROVE  CleaningKept
  BY <1>1 DEF Claim, Device, Session
<1>2. ASSUME NEW s \in SessionIds, Reconnect(c, s)
      PROVE  CleaningKept
  BY <1>2 DEF Reconnect, Session
<1>3. QED
  BY <1>1, <1>2 DEF ClientNext, JoinQueue, CancelRequest, Heartbeat

LEMMA DisconnectKeepsCleaning ==
    ASSUME TypeOK, NEW s \in SessionIds, MarkDisconnected(s)
    PROVE  CleaningKept
  BY DEF MarkDisconnected, TypeOK, Session, deviceVars, CleaningKept

LEMMA FinishKeepsCleaning ==
    ASSUME TypeOK, NEW s \in SessionIds, NEW d \in Devices, NEW ok \in BOOLEAN,
           FinishCleanup(s, d, ok)
    PROVE  /\ CleaningKept
           /\ BoundTo(d, s) /\ (ok \/ device'[d].currentSessionId # s)
                => device'[d].state # "CLEANING"
<1>1. \A t \in SessionIds : session[t].state = "ENDED" => session'[t].state = "ENDED"
  BY DEF FinishCleanup, TypeOK, Session
<1>2. CASE BoundTo(d, s)
  <2>1. device' = [device EXCEPT ![d] = Cleaned(device[d], ok)]
    BY <1>2 DEF FinishCleanup
  <2>2. /\ device'[d] = Cleaned(device[d], ok)
        /\ \A e \in Devices : e # d => device'[e] = device[e]
    BY <2>1 DEF TypeOK
  <2>3. /\ Cleaned(device[d], ok).state = "CLEANING" =>
             /\ ~ok
             /\ device[d].state = "CLEANING"
             /\ Cleaned(device[d], ok).currentSessionId = device[d].currentSessionId
    BY DEF Cleaned, Unbound, TypeOK, Device
  <2>4. QED
    BY <1>1, <1>2, <2>2, <2>3 DEF CleaningKept, BoundTo
<1>3. CASE ~BoundTo(d, s)
  BY <1>1, <1>3 DEF FinishCleanup, CleaningKept
<1>4. QED
  BY <1>2, <1>3

LEMMA ListedNext == TypeOK /\ SessionsListed /\ [Next]_storeVars => SessionsListed'
<1> SUFFICES ASSUME TypeOK, SessionsListed, [Next]_storeVars PROVE SessionsListed'
  OBVIOUS
<1> USE DEF TypeOK, sessionVars, SessionsListed
<1>1. CASE session' = session /\ sessions' = sessions
  BY <1>1
<1>2. ASSUME NEW d \in Devices, DeviceNext(d)
      PROVE  SessionsListed'
  <2>1. ASSUME NEW r \in RequestIds, NEW s \in SessionIds, AllocateTo(d, r, s)
        PROVE  SessionsListed'
    BY <2>1 DEF AllocateTo
  <2>2. QED
    BY <1>1, <1>2, <2>1
       DEF DeviceNext, RegisterDevice, UnregisterDevice, SetDeviceAvailability, AllocateStale,
           AllocateIdle, HealthOffline, HealthRecovered, HealthSelfHeal
<1>3. ASSUME NEW s \in SessionIds, NEW state \in {"ACTIVE", "DISCONNECTED", "ENDING", "EXPIRED"},
             session' = [session EXCEPT ![s].state = state], sessions' = sessions,
             Live(s)
      PROVE  SessionsListed'
  BY <1>3 DEF Live, LiveStates, Session
<1>4. ASSUME NEW c \in Clients, ClientNext(c)
      PROVE  SessionsListed'
  <2>1. ASSUME NEW s \in SessionIds, Claim(c, s) \/ Reconnect(c, s)
        PROVE  SessionsListed'
    BY <1>3, <2>1 DEF Claim, Reconnect, Live, LiveStates
  <2>2. QED
    BY <1>1, <1>4, <2>1 DEF ClientNext, JoinQueue, CancelRequest, Heartbeat
<1>5. ASSUME NEW s \in SessionIds, SessionNext(s)
      PROVE  SessionsListed'
  <2>1. CASE MarkDisconnected(s)
    BY <1>3, <2>1 DEF MarkDisconnected, Live, LiveStates
  <2>2. ASSUME NEW terminalState \in {"ENDING", "EXPIRED"}, BeginTermination(s, terminalState)
        PROVE  SessionsListed'
    BY <1>3, <2>2 DEF BeginTermination
  <2>3. ASSUME NEW ok \in BOOLEAN, FinishCleanup(s, session[s].deviceId, ok)
        PROVE  SessionsListed'
    BY <2>3 DEF FinishCleanup
  <2>4. ASSUME NEW x \in Deadlines, DeadlinePasses(s, x)
        PROVE  SessionsListed'
    BY <1>1, <2>4 DEF DeadlinePasses
  <2>5. QED
    BY <1>5, <2>1, <2>2, <2>3, <2>4 DEF SessionNext
<1>6. CASE UNCHANGED storeVars
  BY <1>1, <1>6 DEF storeVars
<1>7. QED
  BY <1>2, <1>4, <1>5, <1>6 DEF Next

-----------------------------------------------------------------------------
(* Devices stay attended.                                                    *)

\* A device in CLEANING is bound to a session that is over.
LEMMA BoundWhileCleaning ==
    ASSUME Inv, NEW d \in Devices, device[d].state = "CLEANING"
    PROVE  /\ device[d].currentSessionId \in SessionIds
           /\ session[device[d].currentSessionId].deviceId = d
           /\ Terminating(device[d].currentSessionId)
<1>1. /\ device[d].currentSessionId \in SessionIds
      /\ session[device[d].currentSessionId].deviceId = d
      /\ session[device[d].currentSessionId].state # "NONE"
      /\ ~Live(device[d].currentSessionId)
  BY DEF Inv, OwnershipAgrees, BindingOf, TypeOK, Device
<1>2. QED
  BY <1>1 DEF Inv, TypeOK, Session, SessionStates, Live, Terminating

\* A step that touches no worker and no loop of the bootstrap.
LEMMA AttendedStays ==
    ASSUME Inv, CleaningKept, worker' = worker, UNCHANGED bootVars,
           NEW d \in Devices, Attended(d)
    PROVE  Attended(d)'
  BY BoundWhileCleaning DEF Attended, Working, InReach, CleaningKept, bootVars

\* A worker goes on, or returns after it was told that its device is free or not
\* its business any more.
LEMMA AttendedByOthers ==
    ASSUME CoreInv, CleaningKept, UNCHANGED bootVars,
           NEW v \in Workers, worker[v].pc # "none",
           \A w \in Workers : w # v => worker'[w] = worker[w],
           \/ /\ worker'[v].pc # "none"
              /\ worker'[v].device = worker[v].device
              /\ worker'[v].session = worker[v].session
           \/ /\ worker[v].device \in Devices
              /\ BoundTo(worker[v].device, worker[v].session)
                   => device'[worker[v].device].state # "CLEANING",
           NEW d \in Devices, Attended(d)
    PROVE  Attended(d)'
<1> SUFFICES ASSUME device'[d].state = "CLEANING" PROVE Working(d)' \/ InReach(d)'
  BY DEF Attended
<1>1. /\ device[d].state = "CLEANING"
      /\ device'[d].currentSessionId = device[d].currentSessionId
      /\ Working(d) \/ InReach(d)
  BY DEF CleaningKept, Attended
<1>2. ASSUME InReach(d)
      PROVE  InReach(d)'
  BY <1>1, <1>2, BoundWhileCleaning DEF CoreInv, InReach, CleaningKept, bootVars
<1>3. ASSUME Working(d)
      PROVE  Working(d)'
  <2>1. PICK w \in Workers :
          /\ worker[w].pc # "none"
          /\ worker[w].device = d
          /\ worker[w].session = device[d].currentSessionId
    BY <1>3 DEF Working
  <2>2. /\ worker'[w].pc # "none"
        /\ worker'[w].device = d
        /\ worker'[w].session = device[d].currentSessionId
    <3>1. CASE w # v
      BY <2>1, <3>1
    <3>2. CASE w = v
      BY <2>1, <3>2 DEF BoundTo
    <3>3. QED
      BY <3>1, <3>2
  <2>3. QED
    BY <1>1, <2>2 DEF Working
<1>4. QED
  BY <1>1, <1>2, <1>3

LEMMA WorkerKeepsAttended ==
    ASSUME CoreInv, NEW v \in Workers, WorkerNext(v), NEW d \in Devices, Attended(d)
    PROVE  Attended(d)'
<1>1. worker \in [Workers -> [pc : WorkerStates, session : SessionIds \cup {None},
                              device : Devices \cup {None}]]
  BY DEF CoreInv, CoreTypeOK
<1>2. ASSUME NEW from \in WorkerStates \ {"none"}, NEW to \in WorkerStates \ {"none"},
             Proceed(v, from, to)
      PROVE  Attended(d)'
  <2>1. /\ worker[v].pc # "none" /\ worker'[v].pc # "none"
        /\ worker'[v].device = worker[v].device
        /\ worker'[v].session = worker[v].session
        /\ \A w \in Workers : w # v => worker'[w] = worker[w]
    BY <1>1, <1>2 DEF Proceed
  <2>2. CleaningKept /\ UNCHANGED bootVars
    BY <1>2 DEF Proceed, storeVars, CleaningKept
  <2>3. QED
    BY <2>1, <2>2, AttendedByOthers
<1>3. CASE ReportCleanup(v)
  <2> DEFINE s == worker[v].session
             e == worker[v].device
             ok == worker[v].pc = "clean"
  <2>1. /\ worker[v].pc # "none" /\ Terminating(s) /\ e = session[s].deviceId
        /\ s \in SessionIds
    BY <1>1, <1>3 DEF ReportCleanup, CoreInv, CoreTypeOK, WorkersBelong
  <2>2. e \in Devices
    BY <2>1 DEF CoreInv, Inv, FencesNeverReused, Terminating
  <2>3. FinishCleanup(s, e, ok) /\ UNCHANGED bootVars
    BY <1>3 DEF ReportCleanup
  <2>4. /\ CleaningKept
        /\ BoundTo(e, s) /\ ~Retried(s, e, ok) => device'[e].state # "CLEANING"
    <3>1. PICK b \in BOOLEAN : b = ok
      OBVIOUS
    <3>2. FinishCleanup(s, e, b)
      BY <2>3, <3>1
    <3>3. QED
      BY <2>1, <2>2, <3>1, <3>2, FinishKeepsCleaning DEF CoreInv, Inv, Retried
  <2>5. /\ \A w \in Workers : w # v => worker'[w] = worker[w]
        /\ Retried(s, e, ok) =>
             /\ worker'[v].pc # "none"
             /\ worker'[v].device = worker[v].device
             /\ worker'[v].session = worker[v].session
    BY <1>1, <1>3 DEF ReportCleanup
  <2>6. QED
    BY <2>1, <2>2, <2>3, <2>4, <2>5, AttendedByOthers
<1>4. QED
  BY <1>2, <1>3 DEF WorkerNext, RuntimeStopped, CleanupRuns, RetryCleanup, WorkerStates

\* A termination starts the worker of the device it moves to CLEANING.
LEMMA TerminateKeepsAttended ==
    ASSUME CoreInv, NEW s \in SessionIds, NEW terminalState \in {"ENDING", "EXPIRED"},
           Terminate(s, terminalState), NEW d \in Devices, Attended(d)
    PROVE  Attended(d)'
<1>1. /\ TypeOK /\ OwnsItsDevice(s) /\ Live(s)
      /\ BeginTermination(s, terminalState)
      /\ StartWorker(s, session[s].deviceId, "stopping")
      /\ UNCHANGED bootVars
      /\ worker \in [Workers -> [pc : WorkerStates, session : SessionIds \cup {None},
                                 device : Devices \cup {None}]]
  BY DEF CoreInv, CoreTypeOK, Inv, OwnershipAgrees, Terminate, BeginTermination
<1> DEFINE e == session[s].deviceId
<1>2. /\ e \in Devices /\ device[e].currentSessionId = s
      /\ device' = [device EXCEPT ![e].state = "CLEANING"]
  BY <1>1 DEF OwnsItsDevice, BeginTermination
<1>3. /\ device'[e].currentSessionId = s
      /\ \A o \in Devices : o # e => device'[o] = device[o]
  BY <1>1, <1>2 DEF TypeOK, Device
<1>4. \A t \in SessionIds : session[t].state = "ENDED" => session'[t].state = "ENDED"
  BY <1>1 DEF BeginTermination, Live, LiveStates, TypeOK
<1>5. PICK v \in Workers :
        /\ worker[v] = NoWorker
        /\ worker' = [worker EXCEPT ![v] = [pc |-> "stopping", session |-> s, device |-> e]]
  BY <1>1 DEF StartWorker
<1>6. /\ worker'[v] = [pc |-> "stopping", session |-> s, device |-> e]
      /\ \A w \in Workers : w # v => worker'[w] = worker[w]
  BY <1>1, <1>5
<1>7. CASE d = e
  BY <1>3, <1>6, <1>7 DEF Attended, Working
<1>8. CASE d # e
  <2>1. device'[d] = device[d]
    BY <1>3, <1>8
  <2>2. Working(d) => Working(d)'
    BY <1>5, <1>6, <2>1 DEF Working, NoWorker
  <2>3. device[d].state = "CLEANING" /\ InReach(d) => InReach(d)'
    BY <1>1, <1>4, <2>1, BoundWhileCleaning DEF InReach, bootVars, CoreInv
  <2>4. QED
    BY <2>1, <2>2, <2>3 DEF Attended
<1>9. QED
  BY <1>7, <1>8

\* A worker is started and no device or session changes.
LEMMA StartKeepsWorking ==
    ASSUME CoreInv, NEW s, NEW e, StartWorker(s, e, "cleaning"), UNCHANGED storeVars
    PROVE  /\ \A d \in Devices : Working(d) => Working(d)'
           /\ \A d \in Devices : d = e /\ device[d].currentSessionId = s => Working(d)'
<1>1. worker \in [Workers -> [pc : WorkerStates, session : SessionIds \cup {None},
                              device : Devices \cup {None}]]
  BY DEF CoreInv, CoreTypeOK
<1>2. PICK v \in Workers :
        /\ worker[v] = NoWorker
        /\ worker' = [worker EXCEPT ![v] = [pc |-> "cleaning", session |-> s, device |-> e]]
  BY DEF StartWorker
<1>3. /\ worker'[v] = [pc |-> "cleaning", session |-> s, device |-> e]
      /\ \A w \in Workers : w # v => worker'[w] = worker[w]
  BY <1>1, <1>2
<1>4. QED
  BY <1>2, <1>3 DEF Working, NoWorker, storeVars

\* The phases hand over to each other.
LEMMA BootKeepsAttended ==
    ASSUME CoreInv, SessionsListed, BootNext, NEW d \in Devices, Attended(d)
    PROVE  Attended(d)'
<1> DEFINE s == device[d].currentSessionId
<1>1. CASE BootAdvances
  <2>1. /\ device' = device /\ session' = session /\ worker' = worker /\ repair' = repair
        /\ todo = {} /\ repair = NoRepair
        /\ \/ mode = "down" /\ mode' = "register"
           \/ mode = "register" /\ mode' = "sessions" /\ todo' = sessions
           \/ mode = "sessions" /\ mode' = "devices" /\ todo' = Devices
           \/ mode = "devices" /\ mode' = "up"
    BY <1>1 DEF BootAdvances, storeVars
  <2> SUFFICES ASSUME device[d].state = "CLEANING", ~Working(d)
               PROVE  InReach(d)'
    BY <2>1 DEF Attended, Working
  <2>2. s \in SessionIds /\ session[s].state \in {"ENDING", "EXPIRED", "CLEANING", "ENDED"}
    BY BoundWhileCleaning DEF CoreInv, Terminating
  <2>3. InReach(d)
    BY DEF Attended
  <2>4. CASE mode = "register"
    BY <2>1, <2>2, <2>4 DEF InReach, SessionsListed
  <2>5. CASE mode = "sessions"
    BY <2>1, <2>3, <2>5 DEF InReach
  <2>6. mode # "devices"
    BY <2>1, <2>2, <2>3, NoneAssumption DEF InReach, NoRepair
  <2>7. QED
    BY <2>1, <2>4, <2>5, <2>6 DEF InReach
<1>2. ASSUME NEW e \in Devices, BootRegisters(e)
      PROVE  Attended(d)'
  <2>1. mode = "register" /\ mode' = mode
    BY <1>2 DEF BootRegisters
  <2>2. QED
    BY <2>1 DEF Attended, InReach
<1>3. ASSUME NEW t \in SessionIds, BootSession(t)
      PROVE  Attended(d)'
  <2>1. mode = "sessions" /\ mode' = mode /\ todo' = todo \ {t} /\ repair' = repair
    BY <1>3 DEF BootSession
  <2>2. CASE MarkDisconnected(t) /\ worker' = worker
    <3> SUFFICES ASSUME device'[d].state = "CLEANING", ~Working(d)'
                 PROVE  InReach(d)'
      BY DEF Attended
    <3>1. CleaningKept
      BY <2>2, DisconnectKeepsCleaning DEF CoreInv, Inv
    <3>2. /\ device[d].state = "CLEANING" /\ device'[d].currentSessionId = s
          /\ s \in SessionIds /\ s # t
      BY <2>2, <3>1, BoundWhileCleaning DEF CleaningKept, CoreInv, Terminating, MarkDisconnected
    <3>3. InReach(d)
      BY <2>2, <3>2 DEF Attended, Working
    <3>4. QED
      BY <2>1, <3>1, <3>2, <3>3 DEF InReach, CleaningKept
  <2>3. CASE StartWorker(t, session[t].deviceId, "cleaning") /\ UNCHANGED storeVars
    <3>1. device' = device /\ session' = session
      BY <2>3 DEF storeVars
    <3>2. Working(d) => Working(d)'
      BY <2>3, StartKeepsWorking
    <3>3. device[d].state = "CLEANING" /\ s = t => Working(d)'
      BY <2>3, StartKeepsWorking, BoundWhileCleaning DEF CoreInv
    <3>4. device[d].state = "CLEANING" /\ s # t /\ InReach(d) => InReach(d)'
      BY <2>1, <3>1 DEF InReach
    <3>5. QED
      BY <3>1, <3>2, <3>3, <3>4 DEF Attended
  <2>4. CASE ~Interrupted(session[t].state) /\ worker' = worker /\ UNCHANGED storeVars
    <3>1. device' = device /\ session' = session
      BY <2>4 DEF storeVars
    <3>2. device[d].state = "CLEANING" /\ s = t => session[s].state = "ENDED"
      BY <2>4, BoundWhileCleaning DEF CoreInv, Terminating, Interrupted
    <3>3. QED
      BY <2>1, <2>4, <3>1, <3>2 DEF Attended, Working, InReach
  <2>5. QED
    BY <1>3, <2>2, <2>3, <2>4 DEF BootSession
<1>4. ASSUME NEW e \in Devices, BootReadsDevice(e)
      PROVE  Attended(d)'
  <2>1. /\ mode = "devices" /\ mode' = mode /\ todo' = todo \ {e}
        /\ repair = NoRepair
        /\ repair' = [device |-> e, session |-> device[e].currentSessionId,
                      available |-> device[e].state = "AVAILABLE"]
        /\ device' = device /\ session' = session /\ worker' = worker
    BY <1>4 DEF BootReadsDevice, storeVars
  <2>2. repair'.device = e /\ repair'.session = device[e].currentSessionId
    BY <2>1
  <2>3. repair.device # d
    BY <2>1, NoneAssumption DEF NoRepair
  <2>4. QED
    BY <2>1, <2>2, <2>3 DEF Attended, Working, InReach
<1>5. CASE BootReadsSession
  <2>1. /\ mode' = mode /\ todo' = todo /\ device' = device /\ session' = session
        /\ UNCHANGED storeVars
        /\ repair' = [repair EXCEPT !.session = None]
    BY <1>5 DEF BootReadsSession, storeVars
  <2>2. CASE nonterminal(session[repair.session].state) /\ worker' = worker
    BY <2>1, <2>2 DEF Attended, Working, InReach, nonterminal
  <2>3. CASE StartWorker(repair.session, repair.device, "cleaning")
    <3>1. Working(d) => Working(d)'
      BY <2>1, <2>3, StartKeepsWorking
    <3>2. d = repair.device /\ s = repair.session => Working(d)'
      BY <2>1, <2>3, StartKeepsWorking
    <3>3. QED
      BY <2>1, <3>1, <3>2 DEF Attended, InReach
  <2>4. QED
    BY <1>5, <2>2, <2>3 DEF BootReadsSession
<1>6. CASE BootWritesAvail
  <2>1. /\ mode' = mode /\ todo' = todo /\ device' = device /\ session' = session
        /\ worker' = worker /\ repair.session = None
    BY <1>6 DEF BootWritesAvail, SetDeviceAvailability, deviceVars, sessionVars
  <2>2. device[d].state = "CLEANING" => s # None
    BY BoundWhileCleaning, NoneAssumption DEF CoreInv
  <2>3. QED
    BY <2>1, <2>2 DEF Attended, Working, InReach
<1>7. QED
  BY <1>1, <1>2, <1>3, <1>4, <1>5, <1>6 DEF BootNext

LEMMA AttendedNext ==
    ASSUME CoreInv, SessionsListed, [CoreNext]_coreVars, NEW d \in Devices, Attended(d)
    PROVE  Attended(d)'
<1>1. ASSUME CleaningKept, worker' = worker, UNCHANGED bootVars
      PROVE  Attended(d)'
  BY <1>1, AttendedStays DEF CoreInv
<1>2. CASE UNCHANGED <<device, session, worker, bootVars>>
  BY <1>1, <1>2 DEF CleaningKept
<1>3. CASE PumpNext
  <2>1. ASSUME NEW e \in Devices,
               \/ AllocateStale(e) \/ AllocateIdle(e)
               \/ \E r \in RequestIds, s \in SessionIds : AllocateTo(e, r, s)
        PROVE  CleaningKept
    BY <2>1, DeviceKeepsCleaning DEF DeviceNext, CoreInv, Inv
  <2>2. QED
    BY <1>1, <1>2, <1>3, <2>1
       DEF PumpNext, PumpCalled, PumpAllocates, PumpContinues, storeVars
<1>4. ASSUME NEW c \in Clients, CoreClientNext(c)
      PROVE  Attended(d)'
  <2>1. worker' = worker /\ UNCHANGED bootVars
    BY <1>4 DEF CoreClientNext, RequestDevice, ClaimSession, ClientDisconnected, procVars, bootVars
  <2>2. CASE ClientDisconnected(c)
    <3>1. clientSession[c] \in SessionIds
      BY <2>2 DEF CoreInv, Inv, TypeOK, ClientDisconnected
    <3>2. QED
      BY <1>1, <2>1, <2>2, <3>1, DisconnectKeepsCleaning DEF ClientDisconnected, CoreInv, Inv
  <2>3. CASE ClientNext(c)
    BY <1>1, <2>1, <2>3, ClientKeepsCleaning DEF CoreInv, Inv
  <2>4. QED
    BY <1>4, <2>2, <2>3 DEF CoreClientNext, RequestDevice, ClaimSession, ClientNext
<1>5. ASSUME NEW s \in SessionIds, EndSession(s) \/ ReaperExpires(s)
      PROVE  Attended(d)'
  BY <1>5, TerminateKeepsAttended DEF EndSession, ReaperExpires
<1>6. ASSUME NEW s \in SessionIds, ReaperDisconnects(s)
      PROVE  Attended(d)'
  BY <1>1, <1>6, DisconnectKeepsCleaning DEF ReaperDisconnects, procVars, bootVars, CoreInv, Inv
<1>7. ASSUME NEW e \in Devices, HealthTerminates(e)
      PROVE  Attended(d)'
  <2>1. PICK s \in SessionIds : s = device[e].currentSessionId
    BY <1>7 DEF HealthTerminates, CoreInv, Inv, OwnershipAgrees, BindingOf, TypeOK, Device
  <2>2. QED
    BY <1>7, <2>1, TerminateKeepsAttended DEF HealthTerminates
<1>8. ASSUME NEW e \in Devices, HealthFails(e) \/ HealthRecovers(e) \/ HealthPasses(e)
      PROVE  Attended(d)'
  <2>1. DeviceNext(e)
    BY <1>8 DEF HealthFails, HealthRecovers, HealthPasses, DeviceNext
  <2>2. worker' = worker /\ UNCHANGED bootVars
    BY <1>8 DEF HealthFails, HealthRecovers, HealthPasses, procVars, bootVars
  <2>3. QED
    BY <1>1, <2>1, <2>2, DeviceKeepsCleaning DEF CoreInv, Inv
<1>9. ASSUME NEW s \in SessionIds, NEW x \in Deadlines, TimePasses(s, x)
      PROVE  Attended(d)'
  BY <1>2, <1>9 DEF TimePasses, DeadlinePasses, deviceVars, procVars, bootVars
<1>10. CASE Crash
  BY <1>10 DEF Crash, Attended, InReach
<1>11. CASE UNCHANGED coreVars
  BY <1>2, <1>11 DEF coreVars, storeVars, procVars, bootVars
<1>12. QED
  BY <1>3, <1>4, <1>5, <1>6, <1>7, <1>8, <1>9, <1>10, <1>11, WorkerKeepsAttended,
     BootKeepsAttended DEF CoreNext

-----------------------------------------------------------------------------
(* Devices are freed clean.                                                  *)

\* No script binds a device to a session that is over.
LEMMA BindingOnlyToFresh ==
    ASSUME Inv, [Next]_storeVars, NEW d \in Devices, NEW s \in SessionIds, Terminating(s),
           device'[d].currentSessionId = s
    PROVE  device[d].currentSessionId = s
<1> USE DEF Inv, TypeOK, Device, deviceVars
<1>1. CASE device' = device
  BY <1>1
<1>2. ASSUME NEW e \in Devices, DeviceNext(e)
      PROVE  device[d].currentSessionId = s
  <2>1. ASSUME NEW r \in RequestIds, NEW t \in SessionIds, AllocateTo(e, r, t)
        PROVE  device[d].currentSessionId = s
    <3>1. s # t
      BY <2>1 DEF AllocateTo, Terminating
    <3>2. QED
      BY <2>1, <3>1 DEF AllocateTo
  <2>2. ASSUME NEW online \in BOOLEAN, RegisterDevice(e, online)
        PROVE  device[d].currentSessionId = s
    BY <2>2, NoneAssumption DEF RegisterDevice, NoDevice
  <2>3. CASE UnregisterDevice(e) \/ HealthOffline(e) \/ HealthRecovered(e)
    BY <2>3, NoneAssumption
       DEF UnregisterDevice, HealthOffline, HealthRecovered, NoDevice, Unbound
  <2>4. QED
    BY <1>1, <1>2, <2>1, <2>2, <2>3
       DEF DeviceNext, SetDeviceAvailability, AllocateStale, AllocateIdle, HealthSelfHeal
<1>3. ASSUME NEW c \in Clients, ClientNext(c)
      PROVE  device[d].currentSessionId = s
  <2>1. ASSUME NEW t \in SessionIds, Claim(c, t)
        PROVE  device[d].currentSessionId = s
    BY <2>1 DEF Claim
  <2>2. QED
    BY <1>1, <1>3, <2>1 DEF ClientNext, JoinQueue, CancelRequest, Heartbeat, Reconnect
<1>4. ASSUME NEW t \in SessionIds, SessionNext(t)
      PROVE  device[d].currentSessionId = s
  <2>1. ASSUME NEW ok \in BOOLEAN, FinishCleanup(t, session[t].deviceId, ok)
        PROVE  device[d].currentSessionId = s
    <3>1. \A dev \in Device : Cleaned(dev, ok).currentSessionId \in {dev.currentSessionId, None}
      BY DEF Cleaned, Unbound
    <3>2. QED
      BY <2>1, <3>1, NoneAssumption DEF FinishCleanup
  <2>2. CASE MarkDisconnected(t) \/ \E x \in Deadlines : DeadlinePasses(t, x)
    BY <1>1, <2>2 DEF MarkDisconnected, DeadlinePasses
  <2>3. ASSUME NEW terminalState \in {"ENDING", "EXPIRED"}, BeginTermination(t, terminalState)
        PROVE  device[d].currentSessionId = s
    BY <2>3 DEF BeginTermination
  <2>4. QED
    BY <1>4, <2>1, <2>2, <2>3 DEF SessionNext
<1>5. CASE UNCHANGED storeVars
  BY <1>1, <1>5 DEF storeVars
<1>6. QED
  BY <1>2, <1>3, <1>4, <1>5 DEF Next

\* A worker keeps its right to call its device clean unless the device has been
\* used since.
LEMMA CleanStays ==
    ASSUME CoreInv, [Next]_storeVars, CleanMeansClean,
           \A w \in Workers : worker'[w].pc = "clean" =>
             /\ worker'[w] = worker[w]
             /\ BoundTo(worker[w].device, worker[w].session)
                  => worker[w].device \notin dirty' \ dirty
    PROVE  CleanMeansClean'
<1> SUFFICES ASSUME NEW w \in Workers, worker'[w].pc = "clean",
                    device'[worker'[w].device].currentSessionId = worker'[w].session
             PROVE  worker'[w].device \notin dirty'
  BY DEF CleanMeansClean, BoundTo
<1>1. worker[w].pc = "clean" /\ worker'[w] = worker[w]
  OBVIOUS
<1>2. /\ worker[w].session \in SessionIds /\ Terminating(worker[w].session)
      /\ worker[w].device = session[worker[w].session].deviceId
  BY <1>1 DEF CoreInv, CoreTypeOK, WorkersBelong, WorkerStates
<1>3. worker[w].device \in Devices
  BY <1>2 DEF CoreInv, Inv, FencesNeverReused, Terminating
<1>4. BoundTo(worker[w].device, worker[w].session)
  BY <1>1, <1>2, <1>3, BindingOnlyToFresh DEF BoundTo, CoreInv
<1>5. QED
  BY <1>1, <1>4 DEF CleanMeansClean

LEMMA CleanNext == CoreInv /\ CleanMeansClean /\ [CoreNext]_coreVars => CleanMeansClean'
<1> SUFFICES ASSUME CoreInv, CleanMeansClean, [CoreNext]_coreVars PROVE CleanMeansClean'
  OBVIOUS
<1>1. /\ [Next]_storeVars
      /\ worker \in [Workers -> [pc : WorkerStates, session : SessionIds \cup {None},
                                 device : Devices \cup {None}]]
  BY CoreNextRefines DEF CoreInv, CoreTypeOK
<1>2. ASSUME dirty' = dirty,
             \A w \in Workers : worker'[w].pc = "clean" => worker'[w] = worker[w]
      PROVE  CleanMeansClean'
  BY <1>1, <1>2, CleanStays
<1>3. ASSUME NEW s, NEW d, NEW pc \in {"stopping", "cleaning"}, StartWorker(s, d, pc), dirty' = dirty
      PROVE  CleanMeansClean'
  <2>1. \A w \in Workers : worker'[w].pc = "clean" => worker'[w] = worker[w]
    BY <1>1, <1>3 DEF StartWorker
  <2>2. QED
    BY <1>2, <1>3, <2>1
<1>4. ASSUME NEW v \in Workers, WorkerNext(v)
      PROVE  CleanMeansClean'
  <2>1. CASE RuntimeStopped(v) \/ RetryCleanup(v)
    <3>1. \A w \in Workers : worker'[w].pc = "clean" => worker'[w] = worker[w]
      BY <1>1, <2>1 DEF RuntimeStopped, RetryCleanup, Proceed
    <3>2. QED
      BY <1>2, <2>1, <3>1 DEF RuntimeStopped, RetryCleanup
  <2>2. CASE ReportCleanup(v)
    <3>1. \A w \in Workers : worker'[w].pc = "clean" => worker'[w] = worker[w]
      BY <1>1, <2>2 DEF ReportCleanup, NoWorker
    <3>2. QED
      BY <1>2, <2>2, <3>1 DEF ReportCleanup
  <2>3. CASE CleanupRuns(v)
    <3> DEFINE d == worker[v].device
               s == worker[v].session
    <3>1. /\ device' = device
          /\ dirty' \in {dirty, LeftDirty(d)}
          /\ \A w \in Workers : w # v => worker'[w] = worker[w]
          /\ worker[v].pc = "cleaning"
          /\ worker'[v].device = d /\ worker'[v].session = s
          /\ worker'[v].pc = "clean" => dirty' = LeftDirty(d)
      BY <1>1, <2>3 DEF CleanupRuns, Proceed, storeVars
    <3>2. LeftDirty(d) \subseteq dirty
      BY DEF LeftDirty
    <3>3. s \in SessionIds /\ Terminating(s) /\ d = session[s].deviceId
      BY <1>1, <3>1 DEF CoreInv, CoreTypeOK, WorkersBelong
    <3>4. d \in Devices
      BY <3>3 DEF CoreInv, Inv, FencesNeverReused, Terminating
    <3>5. BoundTo(d, s) => d \notin LeftDirty(d)
      BY <3>3, <3>4, NoneAssumption
         DEF BoundTo, LeftDirty, CoreInv, Inv, OwnershipAgrees, BindingOf, Live, LiveStates, Terminating
    <3>6. QED
      BY <3>1, <3>2, <3>5 DEF CleanMeansClean, BoundTo
  <2>4. QED
    BY <1>4, <2>1, <2>2, <2>3 DEF WorkerNext
<1>5. ASSUME NEW c \in Clients, NEW s \in SessionIds, ClaimSession(c, s)
      PROVE  CleanMeansClean'
  <2>1. worker' = worker /\ dirty' = dirty \cup {session[s].deviceId}
    BY <1>5 DEF ClaimSession, procVars
  <2>2. Live(s) /\ device[session[s].deviceId].currentSessionId = s
    BY <1>5 DEF ClaimSession, Claim, Live, LiveStates, CoreInv, Inv, OwnershipAgrees, OwnsItsDevice
  <2>3. \A w \in Workers : worker[w].pc = "clean" => Terminating(worker[w].session)
    BY DEF CoreInv, WorkersBelong
  <2>4. \A w \in Workers : worker[w].pc = "clean" => worker[w].session # s
    BY <2>2, <2>3 DEF Live, LiveStates, Terminating
  <2>5. QED
    BY <1>1, <2>1, <2>2, <2>4, CleanStays DEF BoundTo
<1>6. ASSUME NEW c \in Clients, CoreClientNext(c)
      PROVE  CleanMeansClean'
  BY <1>2, <1>5, <1>6 DEF CoreClientNext, RequestDevice, ClientDisconnected, procVars
<1>7. ASSUME NEW s \in SessionIds, EndSession(s) \/ ReaperExpires(s)
      PROVE  CleanMeansClean'
  BY <1>3, <1>7 DEF EndSession, ReaperExpires, Terminate
<1>8. ASSUME NEW d \in Devices, HealthTerminates(d)
      PROVE  CleanMeansClean'
  BY <1>3, <1>8 DEF HealthTerminates, Terminate
<1>9. CASE BootNext
  BY <1>2, <1>3, <1>9 DEF BootNext, BootAdvances, BootRegisters, BootSession, BootReadsDevice,
                          BootReadsSession, BootWritesAvail
<1>10. CASE Crash
  <2>1. \A w \in Workers : worker'[w].pc # "clean"
    BY <1>10 DEF Crash, NoWorker
  <2>2. QED
    BY <2>1 DEF CleanMeansClean
<1>11. QED
  BY <1>2, <1>4, <1>6, <1>7, <1>8, <1>9, <1>10
     DEF CoreNext, PumpNext, PumpCalled, PumpAllocates, PumpContinues, ReaperDisconnects,
         HealthFails, HealthRecovers, HealthPasses, TimePasses, procVars, coreVars

-----------------------------------------------------------------------------
(* The theorems about recovery.                                              *)

LEMMA RecoveryInit == CoreInit => RecoveryInv
<1> SUFFICES ASSUME CoreInit PROVE RecoveryInv
  OBVIOUS
<1>1. SessionsListed /\ CleanMeansClean
  BY DEF CoreInit, Init, NoSession, NoWorker, SessionsListed, CleanMeansClean
<1>2. \A d \in Devices : Attended(d)
  BY DEF CoreInit, Attended, InReach
<1>3. QED
  BY <1>1, <1>2, CoreInvInit DEF RecoveryInv

LEMMA RecoveryNext == RecoveryInv /\ [CoreNext]_coreVars => RecoveryInv'
<1> SUFFICES ASSUME RecoveryInv, [CoreNext]_coreVars PROVE RecoveryInv'
  OBVIOUS
<1>1. CoreInv /\ SessionsListed /\ CleanMeansClean /\ \A d \in Devices : Attended(d)
  BY DEF RecoveryInv
<1>2. CoreInv' /\ CleanMeansClean'
  BY <1>1, CoreInvNext, CleanNext
<1>3. SessionsListed'
  BY <1>1, CoreNextRefines, ListedNext DEF CoreInv, Inv
<1>4. \A d \in Devices : Attended(d)'
  BY <1>1, AttendedNext
<1>5. QED
  BY <1>2, <1>3, <1>4 DEF RecoveryInv

\* Wherever the process was killed, once it listens again every device that was
\* being cleaned has a worker for the session it is bound to.
THEOREM NothingForgotten == CoreSpec => []NoDeviceForgotten
<1>1. RecoveryInv => NoDeviceForgotten
  BY DEF RecoveryInv, Attended, Working, InReach, Up, NoDeviceForgotten
<1>2. QED
  BY <1>1, RecoveryInit, RecoveryNext, PTL DEF CoreSpec

\* A device that is being cleaned stays bound and out of the pool ...
Kept(d) ==
    /\ device'[d].state # "AVAILABLE"
    /\ device'[d].currentSessionId = device[d].currentSessionId

\* ... under every script but finishCleanup.
LEMMA OnlyFinishFrees ==
    ASSUME Inv, NEW d \in Devices, device[d].state = "CLEANING",
           \/ \E e \in Devices : DeviceNext(e)
           \/ \E c \in Clients : ClientNext(c)
           \/ \E s \in SessionIds : MarkDisconnected(s)
           \/ \E s \in SessionIds : BeginTermination(s, "ENDING") \/ BeginTermination(s, "EXPIRED")
           \/ \E s \in SessionIds, x \in Deadlines : DeadlinePasses(s, x)
    PROVE  Kept(d)
<1> USE DEF Inv, TypeOK, Device, deviceVars, Kept
<1>1. CASE device' = device
  BY <1>1
<1>2. ASSUME NEW e \in Devices, NEW state \in DeviceStates \ {"AVAILABLE"},
             device' = [device EXCEPT ![e].state = state]
      PROVE  Kept(d)
  BY <1>2
<1>3. ASSUME NEW e \in Devices, DeviceNext(e)
      PROVE  Kept(d)
  <2>1. ASSUME e # d, NEW dev, device' = [device EXCEPT ![e] = dev]
        PROVE  Kept(d)
    BY <2>1
  <2>2. CASE HealthRecovered(e)
    BY <2>1, <2>2 DEF HealthRecovered
  <2>3. CASE UnregisterDevice(e)
    <3>1. device[d].currentSessionId # None
      BY BoundWhileCleaning, NoneAssumption
    <3>2. QED
      BY <2>1, <2>3, <3>1 DEF UnregisterDevice
  <2>4. ASSUME NEW online \in BOOLEAN, RegisterDevice(e, online)
        PROVE  Kept(d)
    BY <2>1, <2>4 DEF RegisterDevice
  <2>5. ASSUME NEW r \in RequestIds, NEW s \in SessionIds, AllocateTo(e, r, s)
        PROVE  Kept(d)
    BY <2>1, <2>5 DEF AllocateTo
  <2>6. CASE HealthOffline(e)
    BY <1>2, <2>6 DEF HealthOffline, DeviceStates
  <2>7. QED
    BY <1>1, <1>3, <2>2, <2>3, <2>4, <2>5, <2>6
       DEF DeviceNext, SetDeviceAvailability, AllocateStale, AllocateIdle, HealthSelfHeal
<1>4. ASSUME NEW c \in Clients, ClientNext(c)
      PROVE  Kept(d)
  <2>1. ASSUME NEW s \in SessionIds, Claim(c, s)
        PROVE  Kept(d)
    BY <2>1 DEF Claim
  <2>2. QED
    BY <1>1, <1>4, <2>1 DEF ClientNext, JoinQueue, CancelRequest, Heartbeat, Reconnect
<1>5. ASSUME NEW s \in SessionIds, NEW terminalState, BeginTermination(s, terminalState)
      PROVE  Kept(d)
  BY <1>5 DEF BeginTermination
<1>6. CASE \E s \in SessionIds : MarkDisconnected(s) \/ \E x \in Deadlines : DeadlinePasses(s, x)
  BY <1>1, <1>6 DEF MarkDisconnected, DeadlinePasses
<1>7. QED
  BY <1>3, <1>4, <1>5, <1>6

\* Of the process, only a worker of the device's session that was successful.
LEMMA OnlySuccessFrees ==
    ASSUME CoreInv, [CoreNext]_coreVars, NEW d \in Devices,
           device[d].state = "CLEANING", device'[d].state = "AVAILABLE"
    PROVE  \E w \in Workers :
             /\ worker[w].pc = "clean" /\ worker[w].device = d
             /\ BoundTo(worker[w].device, worker[w].session)
<1>1. Inv /\ device' # device
  BY DEF CoreInv
<1>2. ASSUME NEW w \in Workers, WorkerNext(w)
      PROVE  /\ worker[w].pc = "clean" /\ worker[w].device = d
             /\ BoundTo(worker[w].device, worker[w].session)
  <2>1. ReportCleanup(w)
    BY <1>1, <1>2 DEF WorkerNext, RuntimeStopped, CleanupRuns, RetryCleanup, Proceed, storeVars
  <2> DEFINE e == worker[w].device
             s == worker[w].session
             ok == worker[w].pc = "clean"
  <2>2. FinishCleanup(s, e, ok)
    BY <2>1 DEF ReportCleanup
  <2>3. BoundTo(e, s) /\ device' = [device EXCEPT ![e] = Cleaned(device[e], ok)]
    BY <1>1, <2>2 DEF FinishCleanup
  <2>4. e = d
    BY <2>3
  <2>5. ~ok => Cleaned(device[d], ok).state # "AVAILABLE"
    BY <1>1 DEF Cleaned, Unbound, Inv, TypeOK, Device
  <2>6. device'[d] = Cleaned(device[d], ok)
    BY <1>1, <2>3, <2>4 DEF Inv, TypeOK
  <2>7. QED
    BY <2>3, <2>4, <2>5, <2>6
<1>3. ~PumpNext
  BY <1>1, OnlyFinishFrees
     DEF Kept, PumpNext, PumpCalled, PumpAllocates, PumpContinues, DeviceNext, storeVars
<1>4. \A c \in Clients : ~CoreClientNext(c)
  <2>1. ASSUME NEW c \in Clients, ClientDisconnected(c)
        PROVE  FALSE
    BY <1>1, <2>1, OnlyFinishFrees DEF Kept, ClientDisconnected, Inv, TypeOK
  <2>2. QED
    BY <1>1, <2>1, OnlyFinishFrees DEF Kept, CoreClientNext, RequestDevice, ClaimSession, ClientNext
<1>5. \A s \in SessionIds :
        ~EndSession(s) /\ ~ReaperExpires(s) /\ ~ReaperDisconnects(s)
        /\ \A x \in Deadlines : ~TimePasses(s, x)
  BY <1>1, OnlyFinishFrees DEF Kept, EndSession, ReaperExpires, ReaperDisconnects, Terminate, TimePasses
<1>6. \A e \in Devices : ~HealthTerminates(e)
  BY <1>1, OnlyFinishFrees
     DEF Kept, HealthTerminates, Terminate, Inv, OwnershipAgrees, BindingOf, TypeOK, Device
<1>7. \A e \in Devices : ~HealthFails(e) /\ ~HealthRecovers(e) /\ ~HealthPasses(e)
  BY <1>1, OnlyFinishFrees DEF Kept, HealthFails, HealthRecovers, HealthPasses, DeviceNext
<1>8. ~BootNext
  <2>1. \A e \in Devices : ~BootRegisters(e)
    BY <1>1, OnlyFinishFrees DEF Kept, BootRegisters, DeviceNext, storeVars
  <2>2. \A s \in SessionIds : ~BootSession(s)
    BY <1>1, OnlyFinishFrees DEF Kept, BootSession, storeVars
  <2>3. QED
    BY <1>1, <2>1, <2>2 DEF BootNext, BootAdvances, BootReadsDevice, BootReadsSession,
                            BootWritesAvail, SetDeviceAvailability, storeVars
<1>9. QED
  BY <1>1, <1>2, <1>3, <1>4, <1>5, <1>6, <1>7, <1>8 DEF CoreNext, Crash, coreVars, storeVars

\* A device leaves cleanup for the pool only if it was cleaned after the session
\* that used it, whichever of several workers reports and however often the
\* process was restarted.
THEOREM FreedClean == CoreSpec => FreedOnlyWhenClean
<1>1. RecoveryInv /\ [CoreNext]_coreVars =>
        [\A d \in Devices :
           device[d].state = "CLEANING" /\ device'[d].state = "AVAILABLE" => d \notin dirty]_coreVars
  BY OnlySuccessFrees DEF RecoveryInv, CleanMeansClean
<1>2. QED
  BY <1>1, RecoveryInit, RecoveryNext, PTL DEF CoreSpec, FreedOnlyWhenClean

-----------------------------------------------------------------------------
(* A process that is not restarted.  Two promises of DESIGN.md hold only     *)
(* without the faults: that a device is cleaned while it is CLEANING, and    *)
(* that the pump leaves nobody waiting beside an available device.           *)

\* The first bootstrap finds nothing and nothing happens meanwhile.
Quiet ==
    /\ \A s \in SessionIds : session[s].state = "NONE"
    /\ \A r \in RequestIds : qe[r].state = "NONE"
    /\ \A w \in Workers : worker[w] = NoWorker
    /\ pump = "idle" /\ calls = 0

Calm ==
    /\ faults = 0
    /\ mode # "up" => Quiet
    /\ mode # "devices" => repair = NoRepair
    /\ repair # NoRepair =>
         /\ repair.session = None
         /\ repair.available <=> device[repair.device].state = "AVAILABLE"

\* A device that is being cleaned has one worker, and keeps it until it is freed.
OneWorkerEach ==
    \A w \in Workers : worker[w].pc # "none" =>
        /\ BoundTo(worker[w].device, worker[w].session)
        /\ \A v \in Workers :
             worker[v].pc # "none" /\ worker[v].session = worker[w].session => v = w

AvailExact == \A d \in Devices : d \in avail <=> device[d].state = "AVAILABLE"

NothingToAllocate == avail = {} \/ \A r \in RequestIds : ~Waiting(r)

\* What the pump found to be so when it last looked still is, or it will look
\* again.
Pumped ==
    /\ Up /\ pump # "call" /\ calls = 0 /\ ~pumpAgain => NothingToAllocate
    /\ pump = "idle" => ~pumpAgain

CalmInv ==
    /\ CoreInv
    /\ Calm
    /\ OneWorkerEach
    /\ AvailExact
    /\ Pumped

\* While the first bootstrap runs, only the bootstrap moves.
LEMMA OnlyBootMoves ==
    ASSUME MaxFaults = 0, CalmInv, mode # "up", CoreNext
    PROVE  BootNext
<1>1. Quiet /\ faults = 0
  BY DEF CalmInv, Calm
<1>2. \A w \in Workers : ~WorkerNext(w)
  BY <1>1 DEF Quiet, NoWorker, WorkerNext, RuntimeStopped, CleanupRuns, RetryCleanup, Proceed,
              ReportCleanup
<1>3. ~PumpNext
  BY <1>1 DEF Quiet, PumpNext, PumpCalled, PumpAllocates, PumpContinues
<1>4. \A s \in SessionIds, x \in Deadlines : ~TimePasses(s, x)
  BY <1>1 DEF Quiet, TimePasses, DeadlinePasses, DeadlinesRead
<1>5. ~Crash
  BY <1>1 DEF Crash
<1>6. QED
  BY <1>2, <1>3, <1>4, <1>5
     DEF CoreNext, Up, CoreClientNext, EndSession, ReaperExpires, ReaperDisconnects,
         HealthTerminates, HealthFails, HealthRecovers, HealthPasses

\* Once it is up, the process stays up and its store is changed by everybody else.
LEMMA StaysUp ==
    ASSUME MaxFaults = 0, CalmInv, mode = "up", [CoreNext]_coreVars
    PROVE  /\ ~BootNext /\ ~Crash
           /\ \A d \in Devices : ~HealthFails(d)
           /\ UNCHANGED bootVars /\ faults' = faults
<1>1. faults = 0 /\ repair = NoRepair /\ repair.session = None
  BY DEF CalmInv, Calm, NoRepair
<1>2. ~BootNext
  BY <1>1 DEF BootNext, BootAdvances, BootRegisters, BootSession, BootReadsDevice,
              BootReadsSession, BootWritesAvail
<1>3. ~Crash /\ \A d \in Devices : ~HealthFails(d)
  BY <1>1 DEF Crash, HealthFails
<1>4. QED
  BY <1>2, <1>3
     DEF CoreNext, PumpNext, PumpCalled, PumpAllocates, PumpContinues, CoreClientNext,
         RequestDevice, ClaimSession, ClientDisconnected, EndSession, ReaperExpires, Terminate,
         ReaperDisconnects, HealthTerminates, HealthRecovers, HealthPasses, TimePasses,
         WorkerNext, RuntimeStopped, CleanupRuns, RetryCleanup, Proceed, ReportCleanup,
         bootVars, procVars, coreVars

\* The first bootstrap leaves exactly the available devices in avail and calls
\* the pump.
LEMMA CalmBoot ==
    ASSUME CalmInv, mode # "up", BootNext
    PROVE  Calm' /\ OneWorkerEach' /\ AvailExact' /\ Pumped'
<1>1. Quiet /\ faults = 0 /\ AvailExact /\ TypeOK /\ ~pumpAgain
  BY DEF CalmInv, Calm, CoreInv, Inv, Quiet, Pumped
<1>2. ASSUME Quiet', faults' = faults, mode' # "devices" => repair' = NoRepair,
             repair' # NoRepair =>
               /\ repair'.session = None
               /\ repair'.available <=> device'[repair'.device].state = "AVAILABLE",
             AvailExact', pumpAgain' = pumpAgain, mode' # "up"
      PROVE  Calm' /\ OneWorkerEach' /\ AvailExact' /\ Pumped'
  BY <1>1, <1>2 DEF Calm, OneWorkerEach, Pumped, Quiet, Up, NoWorker
<1>3. CASE BootAdvances
  <2>1. /\ repair = NoRepair /\ repair' = NoRepair /\ UNCHANGED storeVars
        /\ worker' = worker /\ pump' = pump /\ pumpAgain' = pumpAgain /\ faults' = faults
        /\ \/ mode' = "up" /\ calls' = calls + 1
           \/ mode' # "up" /\ calls' = calls
    BY <1>3 DEF BootAdvances
  <2>2. AvailExact'
    BY <1>1, <2>1 DEF AvailExact, storeVars
  <2>3. CASE mode' # "up"
    <3>1. Quiet'
      BY <1>1, <2>1, <2>3 DEF Quiet, storeVars
    <3>2. QED
      BY <1>2, <2>1, <2>2, <2>3, <3>1
  <2>4. CASE mode' = "up"
    <3>1. calls' # 0
      BY <1>1, <2>1, <2>4 DEF Quiet
    <3>2. Pumped'
      BY <1>1, <2>1, <3>1 DEF Pumped
    <3>3. OneWorkerEach'
      BY <1>1, <2>1 DEF OneWorkerEach, Quiet, NoWorker
    <3>4. QED
      BY <1>1, <2>1, <2>2, <2>4, <3>2, <3>3 DEF Calm
  <2>5. QED
    BY <2>3, <2>4
<1>4. ASSUME NEW d \in Devices, BootRegisters(d)
      PROVE  Calm' /\ OneWorkerEach' /\ AvailExact' /\ Pumped'
  <2>1. /\ mode = "register" /\ mode' = mode /\ repair' = repair /\ worker' = worker
        /\ pump' = pump /\ pumpAgain' = pumpAgain /\ calls' = calls /\ faults' = faults
    BY <1>4 DEF BootRegisters, pumpVars
  <2>2. repair = NoRepair
    BY <2>1 DEF CalmInv, Calm
  <2>3. session' = session /\ qe' = qe
    BY <1>4 DEF BootRegisters, RegisterDevice, sessionVars, queueVars, storeVars
  <2>4. AvailExact'
    <3>1. ASSUME NEW online \in BOOLEAN, RegisterDevice(d, online)
          PROVE  AvailExact'
      BY <1>1, <3>1 DEF RegisterDevice, NoDevice, AvailExact, TypeOK
    <3>2. CASE UNCHANGED storeVars
      BY <1>1, <3>2 DEF AvailExact, storeVars
    <3>3. QED
      BY <1>4, <3>1, <3>2 DEF BootRegisters
  <2>5. QED
    BY <1>1, <1>2, <2>1, <2>2, <2>3, <2>4 DEF Quiet
<1>5. ASSUME NEW s \in SessionIds, BootSession(s)
      PROVE  Calm' /\ OneWorkerEach' /\ AvailExact' /\ Pumped'
  <2>1. session[s].state = "NONE"
    BY <1>1 DEF Quiet
  <2>2. /\ mode = "sessions" /\ mode' = mode /\ repair' = repair /\ worker' = worker
        /\ pump' = pump /\ pumpAgain' = pumpAgain /\ calls' = calls /\ faults' = faults
        /\ UNCHANGED storeVars
    BY <1>5, <2>1 DEF BootSession, MarkDisconnected, Interrupted, pumpVars
  <2>3. repair = NoRepair
    BY <2>2 DEF CalmInv, Calm
  <2>4. QED
    BY <1>1, <1>2, <2>2, <2>3 DEF Quiet, AvailExact, storeVars
<1>6. ASSUME NEW d \in Devices, BootReadsDevice(d)
      PROVE  Calm' /\ OneWorkerEach' /\ AvailExact' /\ Pumped'
  <2>1. /\ mode = "devices" /\ mode' = mode /\ worker' = worker
        /\ repair' = [device |-> d, session |-> device[d].currentSessionId,
                      available |-> device[d].state = "AVAILABLE"]
        /\ pump' = pump /\ pumpAgain' = pumpAgain /\ calls' = calls /\ faults' = faults
        /\ UNCHANGED storeVars
    BY <1>6 DEF BootReadsDevice, pumpVars
  <2>2. device[d].currentSessionId = None
    BY <1>1 DEF Quiet, CalmInv, CoreInv, Inv, OwnershipAgrees, BindingOf, TypeOK, Device
  <2>3. Quiet' /\ AvailExact'
    BY <1>1, <2>1 DEF Quiet, AvailExact, storeVars
  <2>4. /\ repair'.session = None
        /\ repair'.available <=> device[d].state = "AVAILABLE"
        /\ repair'.device = d
    BY <2>1, <2>2
  <2>5. device' = device
    BY <2>1 DEF storeVars
  <2>6. QED
    BY <1>2, <2>1, <2>3, <2>4, <2>5
<1>7. ~BootReadsSession
  BY DEF BootReadsSession, CalmInv, Calm, NoRepair
<1>8. CASE BootWritesAvail
  <2>1. /\ repair # NoRepair /\ repair' = NoRepair
        /\ SetDeviceAvailability(repair.device, repair.available)
        /\ mode' = mode /\ worker' = worker
        /\ pump' = pump /\ pumpAgain' = pumpAgain /\ calls' = calls /\ faults' = faults
    BY <1>8 DEF BootWritesAvail, pumpVars
  <2>2. /\ avail' = IF repair.available THEN avail \cup {repair.device}
                                        ELSE avail \ {repair.device}
        /\ device' = device /\ session' = session /\ qe' = qe
    BY <2>1 DEF SetDeviceAvailability, sessionVars, queueVars
  <2>3. repair.available <=> device[repair.device].state = "AVAILABLE"
    BY <2>1 DEF CalmInv, Calm
  <2>4. AvailExact'
    BY <1>1, <2>2, <2>3 DEF AvailExact
  <2>5. QED
    BY <1>1, <1>2, <2>1, <2>2, <2>4 DEF Quiet
<1>9. QED
  BY <1>3, <1>4, <1>5, <1>6, <1>7, <1>8 DEF BootNext

\* The scripts leave no stale entry in avail.
LEMMA AvailStays ==
    ASSUME Inv, AvailExact,
           \/ \E d \in Devices : AllocateStale(d) \/ AllocateIdle(d)
           \/ \E d \in Devices, r \in RequestIds, s \in SessionIds : AllocateTo(d, r, s)
           \/ \E d \in Devices : HealthRecovered(d) \/ HealthSelfHeal(d)
           \/ \E c \in Clients : ClientNext(c)
           \/ \E s \in SessionIds : MarkDisconnected(s)
           \/ \E s \in SessionIds : BeginTermination(s, "ENDING") \/ BeginTermination(s, "EXPIRED")
           \/ \E s \in SessionIds, x \in Deadlines : DeadlinePasses(s, x)
           \/ \E s \in SessionIds, ok \in BOOLEAN :
                Terminating(s) /\ FinishCleanup(s, session[s].deviceId, ok)
    PROVE  AvailExact'
<1> USE DEF AvailExact, deviceVars
<1>1. TypeOK
  BY DEF Inv
<1>2. CASE device' = device /\ avail' = avail
  BY <1>2
<1>3. ASSUME NEW d \in Devices, NEW r \in RequestIds, NEW s \in SessionIds, AllocateTo(d, r, s)
      PROVE  AvailExact'
  BY <1>1, <1>3 DEF AllocateTo, TypeOK
<1>4. ASSUME NEW d \in Devices,
             AllocateStale(d) \/ AllocateIdle(d) \/ HealthRecovered(d) \/ HealthSelfHeal(d)
      PROVE  AvailExact'
  BY <1>1, <1>4 DEF AllocateStale, AllocateIdle, HealthRecovered, HealthSelfHeal, Unbound, TypeOK
<1>5. ASSUME NEW s \in SessionIds, Live(s), NEW state \in {"IN_USE", "CLEANING"}, avail' = avail,
             device' = [device EXCEPT ![session[s].deviceId].state = state]
      PROVE  AvailExact'
  <2>1. /\ session[s].deviceId \in Devices
        /\ device[session[s].deviceId].state \in {"RESERVED", "IN_USE"}
    BY <1>5 DEF Inv, OwnershipAgrees, OwnsItsDevice
  <2>2. QED
    BY <1>1, <1>5, <2>1 DEF TypeOK, Device
<1>6. ASSUME NEW c \in Clients, ClientNext(c)
      PROVE  AvailExact'
  <2>1. ASSUME NEW s \in SessionIds, Claim(c, s)
        PROVE  AvailExact'
    BY <1>5, <2>1 DEF Claim, Live, LiveStates
  <2>2. QED
    BY <1>2, <1>6, <2>1 DEF ClientNext, JoinQueue, CancelRequest, Heartbeat, Reconnect
<1>7. ASSUME NEW s \in SessionIds, NEW terminalState, BeginTermination(s, terminalState)
      PROVE  AvailExact'
  BY <1>2, <1>5, <1>7 DEF BeginTermination
<1>8. CASE \E s \in SessionIds : MarkDisconnected(s) \/ \E x \in Deadlines : DeadlinePasses(s, x)
  BY <1>2, <1>8 DEF MarkDisconnected, DeadlinePasses
<1>9. ASSUME NEW s \in SessionIds, NEW ok \in BOOLEAN,
             Terminating(s), FinishCleanup(s, session[s].deviceId, ok)
      PROVE  AvailExact'
  <2> DEFINE d == session[s].deviceId
  <2>1. CASE BoundTo(d, s)
    <3>1. d \in Devices
      BY <1>9 DEF Inv, FencesNeverReused, Terminating
    <3>2. device[d].state = "CLEANING"
      BY <1>9, <2>1, <3>1, NoneAssumption
         DEF BoundTo, Inv, OwnershipAgrees, BindingOf, Live, LiveStates, Terminating
    <3>3. Cleaned(device[d], ok).state = "AVAILABLE" <=> ok
      BY <1>1, <3>1, <3>2 DEF Cleaned, Unbound, TypeOK, Device
    <3>4. /\ device' = [device EXCEPT ![d] = Cleaned(device[d], ok)]
          /\ avail' = IF ok THEN avail \cup {d} ELSE avail
      BY <1>9, <2>1 DEF FinishCleanup
    <3>5. QED
      BY <1>1, <3>1, <3>2, <3>3, <3>4 DEF TypeOK
  <2>2. CASE ~BoundTo(d, s)
    BY <1>2, <1>9, <2>2 DEF FinishCleanup
  <2>3. QED
    BY <2>1, <2>2
<1>10. QED
  BY <1>3, <1>4, <1>6, <1>7, <1>8, <1>9

\* Every step but those of a worker and a termination leaves the workers to
\* their devices.
LEMMA WorkersKeepDevices ==
    ASSUME CoreInv, OneWorkerEach, worker' = worker,
           \A d \in Devices : device[d].state = "CLEANING" => Kept(d)
    PROVE  OneWorkerEach'
<1> SUFFICES ASSUME NEW w \in Workers, worker[w].pc # "none"
             PROVE  device'[worker[w].device].currentSessionId = worker[w].session
  BY DEF OneWorkerEach, BoundTo
<1>1. /\ worker[w].session \in SessionIds /\ Terminating(worker[w].session)
      /\ worker[w].device = session[worker[w].session].deviceId
  BY DEF CoreInv, CoreTypeOK, WorkersBelong
<1>2. worker[w].device \in Devices
  BY <1>1 DEF CoreInv, Inv, FencesNeverReused, Terminating
<1>3. BoundTo(worker[w].device, worker[w].session)
  BY DEF OneWorkerEach
<1>4. device[worker[w].device].state = "CLEANING"
  BY <1>1, <1>2, <1>3, NoneAssumption
     DEF BoundTo, CoreInv, Inv, OwnershipAgrees, BindingOf, Live, LiveStates, Terminating
<1>5. QED
  BY <1>2, <1>3, <1>4 DEF Kept, BoundTo

\* A worker moves along, or frees its device, the only one it is bound to.
LEMMA WorkerKeepsOne ==
    ASSUME CoreInv, OneWorkerEach, NEW v \in Workers, WorkerNext(v)
    PROVE  OneWorkerEach'
<1>1. worker \in [Workers -> [pc : WorkerStates, session : SessionIds \cup {None},
                              device : Devices \cup {None}]]
  BY DEF CoreInv, CoreTypeOK
<1>2. ASSUME NEW from \in WorkerStates \ {"none"}, NEW to \in WorkerStates \ {"none"},
             Proceed(v, from, to)
      PROVE  OneWorkerEach'
  <2>1. /\ worker[v].pc # "none"
        /\ worker'[v].device = worker[v].device
        /\ worker'[v].session = worker[v].session
        /\ \A w \in Workers : w # v => worker'[w] = worker[w]
        /\ device' = device
    BY <1>1, <1>2 DEF Proceed, storeVars
  <2>2. QED
    BY <2>1 DEF OneWorkerEach, BoundTo
<1>3. CASE ReportCleanup(v)
  <2> DEFINE s == worker[v].session
             e == worker[v].device
             ok == worker[v].pc = "clean"
  <2>1. /\ worker[v].pc # "none" /\ FinishCleanup(s, e, ok)
        /\ \A w \in Workers : w # v => worker'[w] = worker[w]
        /\ \/ worker'[v].pc = "none"
           \/ worker'[v].device = e /\ worker'[v].session = s /\ device'[e].currentSessionId = s
    BY <1>1, <1>3 DEF ReportCleanup, Retried, NoWorker
  <2>2. BoundTo(e, s) /\ device' = [device EXCEPT ![e] = Cleaned(device[e], ok)]
    BY <2>1 DEF OneWorkerEach, FinishCleanup
  <2>3. ASSUME NEW w \in Workers, w # v, worker'[w].pc # "none"
        PROVE  BoundTo(worker[w].device, worker[w].session)'
    <3>1. worker'[w] = worker[w] /\ worker[w].pc # "none"
      BY <2>1, <2>3
    <3>2. BoundTo(worker[w].device, worker[w].session) /\ worker[w].session # s
      BY <2>1, <2>3, <3>1 DEF OneWorkerEach
    <3>3. worker[w].device # e
      BY <2>2, <3>2 DEF BoundTo
    <3>4. worker[w].device \in Devices
      BY <3>1, <1>1 DEF CoreInv, CoreTypeOK, WorkersBelong, Inv, FencesNeverReused, Terminating
    <3>5. device'[worker[w].device] = device[worker[w].device]
      BY <2>2, <3>3, <3>4 DEF CoreInv, Inv, TypeOK
    <3>6. QED
      BY <3>1, <3>2, <3>5 DEF BoundTo
  <2>4. QED
    BY <2>1, <2>3 DEF OneWorkerEach, BoundTo
<1>4. QED
  BY <1>2, <1>3 DEF WorkerNext, RuntimeStopped, CleanupRuns, RetryCleanup, WorkerStates

\* A termination starts the only worker of a session that was alive.
LEMMA TerminateKeepsOne ==
    ASSUME CoreInv, OneWorkerEach, NEW s \in SessionIds,
           NEW terminalState \in {"ENDING", "EXPIRED"}, Terminate(s, terminalState)
    PROVE  OneWorkerEach'
<1>1. /\ TypeOK /\ OwnsItsDevice(s) /\ Live(s)
      /\ BeginTermination(s, terminalState)
      /\ StartWorker(s, session[s].deviceId, "stopping")
      /\ worker \in [Workers -> [pc : WorkerStates, session : SessionIds \cup {None},
                                 device : Devices \cup {None}]]
  BY DEF CoreInv, CoreTypeOK, Inv, OwnershipAgrees, Terminate, BeginTermination
<1> DEFINE e == session[s].deviceId
<1>2. /\ e \in Devices /\ device[e].currentSessionId = s
      /\ device' = [device EXCEPT ![e].state = "CLEANING"]
  BY <1>1 DEF OwnsItsDevice, BeginTermination
<1>3. \A d \in Devices : device'[d].currentSessionId = device[d].currentSessionId
  BY <1>1, <1>2 DEF TypeOK, Device
<1>4. PICK v \in Workers :
        /\ worker[v] = NoWorker
        /\ worker' = [worker EXCEPT ![v] = [pc |-> "stopping", session |-> s, device |-> e]]
  BY <1>1 DEF StartWorker
<1>5. /\ worker'[v].session = s /\ worker'[v].device = e
      /\ \A w \in Workers : w # v => worker'[w] = worker[w]
  BY <1>1, <1>4
<1>6. \A w \in Workers : worker[w].pc # "none" => Terminating(worker[w].session)
  BY DEF CoreInv, WorkersBelong
<1>7. \A w \in Workers : worker[w].pc # "none" => worker[w].session # s
  BY <1>1, <1>6 DEF Live, LiveStates, Terminating
<1>8. \A w \in Workers : worker[w].pc # "none" => worker[w].device \in Devices
  BY <1>6 DEF CoreInv, CoreTypeOK, WorkersBelong, Inv, FencesNeverReused, Terminating
<1>9. ASSUME NEW w \in Workers, worker'[w].pc # "none"
      PROVE  BoundTo(worker[w].device, worker[w].session)'
  <2>1. CASE w = v
    BY <1>2, <1>3, <1>5, <2>1 DEF BoundTo
  <2>2. CASE w # v
    <3>1. worker'[w] = worker[w]
      BY <1>5, <2>2
    <3>2. worker[w].device \in Devices /\ BoundTo(worker[w].device, worker[w].session)
      BY <1>8, <1>9, <3>1 DEF OneWorkerEach
    <3>3. QED
      BY <1>3, <3>1, <3>2 DEF BoundTo
  <2>3. QED
    BY <2>1, <2>2
<1>10. QED
  BY <1>5, <1>7, <1>9 DEF OneWorkerEach

\* How Pumped survives a step that is not the pump's.
LEMMA PumpedStays ==
    ASSUME CoreInv, Pumped, pump' = pump, pumpAgain' = pumpAgain, mode' = mode,
           \/ calls' = calls + 1
           \/ /\ calls' = calls
              /\ avail' \subseteq avail
              /\ \A r \in RequestIds : Waiting(r)' => Waiting(r)
    PROVE  Pumped'
<1>1. calls \in Nat
  BY DEF CoreInv, CoreTypeOK
<1>2. CASE calls' = calls + 1
  <2>1. calls' # 0
    BY <1>1, <1>2
  <2>2. QED
    BY <2>1 DEF Pumped
<1>3. CASE /\ calls' = calls /\ avail' \subseteq avail
           /\ \A r \in RequestIds : Waiting(r)' => Waiting(r)
  <2>1. NothingToAllocate => NothingToAllocate'
    BY <1>3 DEF NothingToAllocate
  <2>2. Up' = Up
    BY DEF Up
  <2>3. QED
    BY <1>3, <2>1, <2>2 DEF Pumped
<1>4. QED
  BY <1>2, <1>3

LEMMA PumpKeepsPumped ==
    ASSUME CalmInv, PumpNext
    PROVE  Pumped'
<1>1. Pumped /\ mode' = mode /\ calls \in Nat
  BY DEF CalmInv, CoreInv, CoreTypeOK, PumpNext, PumpCalled, PumpAllocates, PumpContinues, bootVars
<1>2. CASE PumpCalled
  <2>1. CASE pump = "idle"
    BY <1>2, <2>1 DEF PumpCalled, Pumped
  <2>2. CASE pump # "idle"
    BY <1>2, <2>2 DEF PumpCalled, Pumped
  <2>3. QED
    BY <2>1, <2>2
<1>3. CASE PumpAllocates
  <2>1. pump' \in {"call", "null"} /\ (pump' = "null" => NothingToAllocate')
    <3>1. ASSUME avail = {}, UNCHANGED storeVars
          PROVE  NothingToAllocate'
      BY <3>1 DEF NothingToAllocate, storeVars
    <3>2. ASSUME NEW d \in Devices, AllocateStale(d)
          PROVE  FALSE
      BY <3>2 DEF AllocateStale, CalmInv, AvailExact
    <3>3. ASSUME NEW d \in Devices, AllocateIdle(d)
          PROVE  NothingToAllocate'
      <4>1. \A r \in RequestIds : ~Waiting(r)
        BY <3>3 DEF AllocateIdle, CalmInv, CoreInv, Inv, OnePlacePerClient, RequestIndexed
      <4>2. qe' = qe
        BY <3>3 DEF AllocateIdle
      <4>3. QED
        BY <4>1, <4>2 DEF NothingToAllocate, Waiting
    <3>4. QED
      BY <1>3, <3>1, <3>2, <3>3 DEF PumpAllocates
  <2>2. QED
    BY <2>1 DEF Pumped
<1>4. CASE PumpContinues
  <2>1. CASE pumpAgain
    BY <1>4, <2>1 DEF PumpContinues, Pumped
  <2>2. CASE ~pumpAgain
    <3>1. /\ pump = "null" /\ pump' = "idle" /\ ~pumpAgain' /\ calls' = calls
          /\ avail' = avail /\ qe' = qe
      BY <1>4, <2>2 DEF PumpContinues, storeVars
    <3>2. NothingToAllocate' = NothingToAllocate
      BY <3>1 DEF NothingToAllocate, Waiting
    <3>3. QED
      BY <1>1, <2>2, <3>1, <3>2 DEF Pumped, Up
  <2>3. QED
    BY <2>1, <2>2
<1>5. QED
  BY <1>2, <1>3, <1>4 DEF PumpNext

\* While the server is up.
LEMMA CalmUp ==
    ASSUME MaxFaults = 0, CalmInv, mode = "up", [CoreNext]_coreVars
    PROVE  OneWorkerEach' /\ AvailExact' /\ Pumped'
<1>1. /\ CoreInv /\ Inv /\ OneWorkerEach /\ AvailExact /\ Pumped
      /\ mode' = mode /\ ~BootNext /\ ~Crash /\ \A d \in Devices : ~HealthFails(d)
  BY StaysUp DEF CalmInv, CoreInv, bootVars
<1>2. CASE UNCHANGED <<storeVars, worker, pump, pumpAgain, calls>>
  BY <1>1, <1>2 DEF OneWorkerEach, AvailExact, Pumped, NothingToAllocate, Waiting, BoundTo, Up,
                    storeVars
<1>3. ASSUME NEW w \in Workers, WorkerNext(w)
      PROVE  OneWorkerEach' /\ AvailExact' /\ Pumped'
  <2>1. OneWorkerEach'
    BY <1>1, <1>3, WorkerKeepsOne
  <2>2. CASE ReportCleanup(w)
    <3> DEFINE s == worker[w].session
               e == worker[w].device
               ok == worker[w].pc = "clean"
    <3>1. /\ s \in SessionIds /\ Terminating(s) /\ e = session[s].deviceId
          /\ FinishCleanup(s, e, ok) /\ BoundTo(e, s)
      BY <1>1, <2>2 DEF ReportCleanup, CoreInv, CoreTypeOK, WorkersBelong, OneWorkerEach
    <3>2. PICK b \in BOOLEAN : b = ok
      OBVIOUS
    <3>3. AvailExact'
      BY <1>1, <3>1, <3>2, AvailStays
    <3>4. pump' = pump /\ pumpAgain' = pumpAgain
      BY <2>2 DEF ReportCleanup
    <3>5. ASSUME ok
          PROVE  Pumped'
      BY <1>1, <2>2, <3>1, <3>4, <3>5, PumpedStays DEF ReportCleanup
    <3>6. ASSUME ~ok
          PROVE  Pumped'
      <4>1. calls' = calls /\ avail' = avail /\ qe' = qe
        BY <2>2, <3>1, <3>6 DEF ReportCleanup, FinishCleanup, queueVars
      <4>2. QED
        BY <1>1, <3>4, <4>1, PumpedStays DEF Waiting
    <3>7. QED
      BY <2>1, <3>3, <3>5, <3>6
  <2>3. CASE ~ReportCleanup(w)
    <3>1. UNCHANGED <<storeVars, pump, pumpAgain, calls>>
      BY <1>3, <2>3 DEF WorkerNext, RuntimeStopped, CleanupRuns, RetryCleanup, Proceed, pumpVars
    <3>2. AvailExact' /\ Pumped'
      BY <1>1, <3>1 DEF AvailExact, Pumped, NothingToAllocate, Waiting, Up, storeVars
    <3>3. QED
      BY <2>1, <3>2
  <2>4. QED
    BY <2>2, <2>3
<1>4. CASE PumpNext
  <2>1. Pumped'
    BY <1>4, PumpKeepsPumped
  <2>2. worker' = worker
    BY <1>4 DEF PumpNext, PumpCalled, PumpAllocates, PumpContinues
  <2>3. CASE UNCHANGED storeVars
    BY <1>1, <2>1, <2>2, <2>3 DEF OneWorkerEach, AvailExact, BoundTo, storeVars
  <2>4. CASE \/ \E d \in Devices : AllocateStale(d) \/ AllocateIdle(d)
             \/ \E d \in Devices, r \in RequestIds, s \in SessionIds : AllocateTo(d, r, s)
    <3>1. AvailExact'
      BY <1>1, <2>4, AvailStays
    <3>2. \A d \in Devices : device[d].state = "CLEANING" => Kept(d)
      BY <1>1, <2>4, OnlyFinishFrees DEF DeviceNext
    <3>3. QED
      BY <1>1, <2>1, <2>2, <3>1, <3>2, WorkersKeepDevices
  <2>5. QED
    BY <1>4, <2>3, <2>4 DEF PumpNext, PumpCalled, PumpAllocates, PumpContinues
<1>5. ASSUME worker' = worker, pump' = pump, pumpAgain' = pumpAgain,
             \/ \E c \in Clients : ClientNext(c)
             \/ \E s \in SessionIds : MarkDisconnected(s)
             \/ \E s \in SessionIds, x \in Deadlines : DeadlinePasses(s, x)
             \/ \E d \in Devices : HealthRecovered(d) \/ HealthSelfHeal(d),
             \/ calls' = calls + 1
             \/ /\ calls' = calls
                /\ avail' \subseteq avail
                /\ \A r \in RequestIds : Waiting(r)' => Waiting(r)
      PROVE  OneWorkerEach' /\ AvailExact' /\ Pumped'
  <2>1. AvailExact'
    BY <1>1, <1>5, AvailStays
  <2>2. \A d \in Devices : device[d].state = "CLEANING" => Kept(d)
    BY <1>1, <1>5, OnlyFinishFrees DEF DeviceNext
  <2>3. QED
    BY <1>1, <1>5, <2>1, <2>2, WorkersKeepDevices, PumpedStays
<1>6. ASSUME NEW c \in Clients, CoreClientNext(c)
      PROVE  OneWorkerEach' /\ AvailExact' /\ Pumped'
  <2>1. ASSUME NEW r \in RequestIds, RequestDevice(c, r)
        PROVE  OneWorkerEach' /\ AvailExact' /\ Pumped'
    <3>1. /\ worker' = worker /\ pump' = pump /\ pumpAgain' = pumpAgain
          /\ ClientNext(c) /\ avail' = avail
          /\ calls' = calls + 1 \/ (calls' = calls /\ qe' = qe)
      BY <2>1 DEF RequestDevice, ClientNext, JoinQueue, deviceVars, queueVars
    <3>2. QED
      BY <1>5, <3>1 DEF Waiting
  <2>2. ASSUME NEW s \in SessionIds, ClaimSession(c, s) \/ Heartbeat(c, s) \/ Reconnect(c, s),
               UNCHANGED procVars
        PROVE  OneWorkerEach' /\ AvailExact' /\ Pumped'
    <3>1. ClientNext(c) /\ avail' = avail /\ qe' = qe
      BY <2>2 DEF ClaimSession, ClientNext, Claim, Heartbeat, Reconnect, deviceVars, queueVars
    <3>2. QED
      BY <1>5, <2>2, <3>1 DEF Waiting, procVars
  <2>3. CASE ClientDisconnected(c)
    <3>1. clientSession[c] \in SessionIds
      BY <1>1, <2>3 DEF Inv, TypeOK, ClientDisconnected
    <3>2. /\ MarkDisconnected(clientSession[c]) /\ avail' = avail /\ qe' = qe
          /\ UNCHANGED procVars
      BY <2>3 DEF ClientDisconnected, MarkDisconnected, deviceVars, queueVars
    <3>3. QED
      BY <1>5, <3>1, <3>2 DEF Waiting, procVars
  <2>4. ASSUME NEW r \in RequestIds, CancelRequest(c, r), UNCHANGED procVars
        PROVE  OneWorkerEach' /\ AvailExact' /\ Pumped'
    <3>1. ClientNext(c) /\ avail' = avail
      BY <2>4 DEF CancelRequest, ClientNext, deviceVars
    <3>2. \A q \in RequestIds : Waiting(q)' => Waiting(q)
      BY <1>1, <2>4 DEF CancelRequest, Waiting, Inv, TypeOK
    <3>3. QED
      BY <1>5, <2>4, <3>1, <3>2 DEF procVars
  <2>5. QED
    BY <1>6, <2>1, <2>2, <2>3, <2>4 DEF CoreClientNext, ClaimSession
<1>7. ASSUME NEW s \in SessionIds, NEW terminalState \in {"ENDING", "EXPIRED"},
             Terminate(s, terminalState)
      PROVE  OneWorkerEach' /\ AvailExact' /\ Pumped'
  <2>1. BeginTermination(s, terminalState) /\ UNCHANGED pumpVars /\ avail' = avail /\ qe' = qe
    BY <1>7 DEF Terminate, BeginTermination, queueVars
  <2>2. AvailExact'
    BY <1>1, <2>1, AvailStays
  <2>3. Pumped'
    BY <1>1, <2>1, PumpedStays DEF Waiting, pumpVars
  <2>4. QED
    BY <1>1, <1>7, <2>2, <2>3, TerminateKeepsOne
<1>8. ASSUME NEW s \in SessionIds, EndSession(s) \/ ReaperExpires(s)
      PROVE  OneWorkerEach' /\ AvailExact' /\ Pumped'
  BY <1>7, <1>8 DEF EndSession, ReaperExpires
<1>9. ASSUME NEW s \in SessionIds, ReaperDisconnects(s)
      PROVE  OneWorkerEach' /\ AvailExact' /\ Pumped'
  <2>1. MarkDisconnected(s) /\ avail' = avail /\ qe' = qe /\ UNCHANGED procVars
    BY <1>9 DEF ReaperDisconnects, MarkDisconnected, deviceVars, queueVars
  <2>2. QED
    BY <1>5, <2>1 DEF Waiting, procVars
<1>10. ASSUME NEW d \in Devices, HealthTerminates(d)
       PROVE  OneWorkerEach' /\ AvailExact' /\ Pumped'
  <2>1. PICK s \in SessionIds : s = device[d].currentSessionId
    BY <1>1, <1>10 DEF HealthTerminates, Inv, OwnershipAgrees, BindingOf, TypeOK, Device
  <2>2. QED
    BY <1>7, <1>10, <2>1 DEF HealthTerminates
<1>11. ASSUME NEW d \in Devices, HealthRecovers(d)
       PROVE  OneWorkerEach' /\ AvailExact' /\ Pumped'
  BY <1>5, <1>11 DEF HealthRecovers
<1>12. ASSUME NEW d \in Devices, HealthPasses(d)
       PROVE  OneWorkerEach' /\ AvailExact' /\ Pumped'
  <2>1. HealthSelfHeal(d) /\ avail' = avail /\ qe' = qe /\ UNCHANGED procVars
    BY <1>1, <1>12 DEF HealthPasses, HealthSelfHeal, AvailExact, queueVars
  <2>2. QED
    BY <1>5, <2>1 DEF Waiting, procVars
<1>13. ASSUME NEW s \in SessionIds, NEW x \in Deadlines, TimePasses(s, x)
       PROVE  OneWorkerEach' /\ AvailExact' /\ Pumped'
  <2>1. DeadlinePasses(s, x) /\ avail' = avail /\ qe' = qe /\ UNCHANGED procVars
    BY <1>13 DEF TimePasses, DeadlinePasses, deviceVars, queueVars
  <2>2. QED
    BY <1>5, <2>1 DEF Waiting, procVars
<1>14. CASE UNCHANGED coreVars
  BY <1>2, <1>14 DEF coreVars, procVars
<1>15. QED
  BY <1>1, <1>3, <1>4, <1>6, <1>8, <1>9, <1>10, <1>11, <1>12, <1>13, <1>14 DEF CoreNext

LEMMA CalmInvInit == CoreInit => CalmInv
<1> SUFFICES ASSUME CoreInit PROVE CalmInv
  OBVIOUS
<1>1. Calm
  BY DEF CoreInit, Init, Calm, Quiet, NoSession, NoEntry
<1>2. OneWorkerEach /\ AvailExact /\ Pumped
  BY DEF CoreInit, Init, OneWorkerEach, AvailExact, Pumped, Up, NoWorker, NoDevice
<1>3. QED
  BY <1>1, <1>2, CoreInvInit DEF CalmInv

LEMMA CalmInvNext == MaxFaults = 0 /\ CalmInv /\ [CoreNext]_coreVars => CalmInv'
<1> SUFFICES ASSUME MaxFaults = 0, CalmInv, [CoreNext]_coreVars PROVE CalmInv'
  OBVIOUS
<1>1. CoreInv'
  BY CoreInvNext DEF CalmInv
<1>2. CASE mode = "up"
  <2>1. Calm'
    BY <1>2, StaysUp DEF CalmInv, Calm, bootVars, NoRepair
  <2>2. QED
    BY <1>1, <1>2, <2>1, CalmUp DEF CalmInv
<1>3. CASE mode # "up" /\ CoreNext
  BY <1>1, <1>3, OnlyBootMoves, CalmBoot DEF CalmInv
<1>4. CASE UNCHANGED coreVars
  <2>1. Calm' /\ OneWorkerEach' /\ AvailExact' /\ Pumped'
    BY <1>4 DEF CalmInv, Calm, Quiet, OneWorkerEach, BoundTo, AvailExact, Pumped,
                NothingToAllocate, Waiting, Up, coreVars, storeVars, procVars
  <2>2. QED
    BY <1>1, <2>1 DEF CalmInv
<1>5. QED
  BY <1>2, <1>3, <1>4

\* If the process is not restarted and no idle device fails a probe, a device is
\* CLEANING for as long as cleanup runs on it, for any number of devices, sessions
\* and overlapping cleanups.  (After a restart it may not be: core_double_cleanup.)
THEOREM CleansOnlyInCleaning == ASSUME MaxFaults = 0 PROVE CoreSpec => []OnlyCleansInCleaning
<1>1. CalmInv => OnlyCleansInCleaning
  <2> SUFFICES ASSUME CalmInv, NEW w \in Workers, worker[w].pc = "cleaning"
               PROVE  device[worker[w].device].state = "CLEANING"
    BY DEF OnlyCleansInCleaning
  <2>1. /\ worker[w].session \in SessionIds /\ Terminating(worker[w].session)
        /\ worker[w].device = session[worker[w].session].deviceId
        /\ BoundTo(worker[w].device, worker[w].session)
    BY DEF CalmInv, CoreInv, CoreTypeOK, WorkersBelong, OneWorkerEach
  <2>2. worker[w].device \in Devices
    BY <2>1 DEF CalmInv, CoreInv, Inv, FencesNeverReused, Terminating
  <2>3. QED
    BY <2>1, <2>2, NoneAssumption
       DEF BoundTo, CalmInv, CoreInv, Inv, OwnershipAgrees, BindingOf, Live, LiveStates, Terminating
<1>2. CalmInv /\ [CoreNext]_coreVars => CalmInv'
  BY CalmInvNext
<1>3. QED
  BY <1>1, <1>2, CalmInvInit, PTL DEF CoreSpec

\* If the process is not restarted and no idle device fails a probe, the pump leaves
\* nobody waiting beside an available device, however its calls interleave with its
\* awaits.  (After a restart it may: core_stranded.)
THEOREM PumpConserving == ASSUME MaxFaults = 0 PROVE CoreSpec => []WorkConserving
<1>1. CalmInv => WorkConserving
  BY DEF CalmInv, AvailExact, Pumped, NothingToAllocate, WorkConserving
<1>2. CalmInv /\ [CoreNext]_coreVars => CalmInv'
  BY CalmInvNext
<1>3. QED
  BY <1>1, <1>2, CalmInvInit, PTL DEF CoreSpec
=============================================================================
