------------------------------ MODULE LabCore ------------------------------
(***************************************************************************)
(* The server process over the store (apps/server/src/core.ts): the        *)
(* allocation pump, cleanup workers, the reaper, the health loop, the      *)
(* calls of clients, a crash (kill -9) and the bootstrap after it.         *)
(*                                                                         *)
(* The process is single-threaded, so a step is what runs between two      *)
(* awaits: one script or read in Redis, one adapter operation, one timer.  *)
(* Memory (workers, pump, bootstrap) dies with the process, Redis stays.   *)
(***************************************************************************)
EXTENDS LabStore

CONSTANTS
    Workers,      \* running cleanupDevice calls; a bound of the model
    MaxFaults     \* kills of the process and failed health checks of idle devices; a bound of the model

ASSUME WorkersAssumption == None \notin Workers
ASSUME BoundsAssumption == MaxFaults \in Nat

VARIABLES
    mode,       \* "down", a phase of bootstrap(), or "up"
    todo,       \* what the bootstrap's current loop has still to visit
    repair,     \* the device record the reconciler read and has not acted on
    worker,     \* the cleanupDevice calls
    pump,       \* "idle", in the loop with the answer "null" pending, or else "call"
    pumpAgain,  \* this.pumpAgain
    calls,      \* continuations that are about to call pump()
    faults,     \* how many of those faults have happened
    dirty       \* history: a session was active on the device since it was last cleaned

procVars == <<mode, todo, repair, worker, pump, pumpAgain, calls>>
bootVars == <<mode, todo, repair>>
pumpVars == <<pump, pumpAgain, calls>>
coreVars == <<storeVars, procVars, faults, dirty>>

NoWorker == [pc |-> "none", session |-> None, device |-> None]
NoRepair == [device |-> None, session |-> None, available |-> FALSE]

WorkerStates == {"none", "stopping", "cleaning", "clean", "failed", "sleeping"}

\* The memory of the process; in particular a call that has returned does not
\* go on.
CoreTypeOK ==
    /\ mode \in {"down", "register", "sessions", "devices", "up"}
    /\ todo \in SUBSET (Devices \cup SessionIds)
    /\ repair \in [device : Devices \cup {None}, session : SessionIds \cup {None},
                   available : BOOLEAN]
    /\ worker \in [Workers -> [pc : WorkerStates, session : SessionIds \cup {None},
                               device : Devices \cup {None}]]
    /\ \A w \in Workers : worker[w].pc # "none" => worker[w].session # None
    /\ pump \in {"idle", "call", "null"}
    /\ pumpAgain \in BOOLEAN
    /\ calls \in Nat
    /\ faults \in 0 .. MaxFaults
    /\ dirty \in SUBSET Devices

CoreInit ==
    /\ Init
    /\ mode = "down"
    /\ todo = {}
    /\ repair = NoRepair
    /\ worker = [w \in Workers |-> NoWorker]
    /\ pump = "idle"
    /\ pumpAgain = FALSE
    /\ calls = 0
    /\ faults = 0
    /\ dirty = {}

Running == mode # "down"
Up == mode = "up"

-----------------------------------------------------------------------------
(* Cleanup workers. *)

\* cleanupDevice(s) starts: from terminateSession it first waits for the
\* runtime to stop ("stopping"), from the reconciler it cleans at once.
StartWorker(s, d, pc) ==
    \E w \in Workers :
        /\ worker[w] = NoWorker
        /\ worker' = [worker EXCEPT ![w] = [pc |-> pc, session |-> s, device |-> d]]

\* Mutated form of Proceed: a call that has returned goes on.
ProceedAlways(w, from, to) ==
    /\ worker[w].pc \in {from, "none"}
    /\ worker' = [worker EXCEPT ![w].pc = to]
    /\ UNCHANGED <<bootVars, pumpVars, faults, storeVars>>

Proceed(w, from, to) ==
    /\ worker[w].pc = from
    /\ worker' = [worker EXCEPT ![w].pc = to]
    /\ UNCHANGED <<bootVars, pumpVars, faults, storeVars>>

RuntimeStopped(w) == Proceed(w, "stopping", "cleaning") /\ UNCHANGED dirty

\* The dirty devices after a cleanup of d; a session on d makes up for it at once.
LeftDirty(d) == IF device[d].state = "IN_USE" THEN dirty ELSE dirty \ {d}

\* Mutated form of CleanupRuns: an error on the way is not noticed.
CleanupRunsUnchecked(w) ==
    \/ /\ \E to \in {"clean", "failed"} : Proceed(w, "cleaning", to)
       /\ dirty' = LeftDirty(worker[w].device)
    \/ Proceed(w, "cleaning", "clean") /\ UNCHANGED dirty

\* adapter.cleanup() and then adapter.health(): cleaned and healthy, cleaned
\* and not healthy, or an error or a timeout on the way.
CleanupRuns(w) ==
    \/ /\ \E to \in {"clean", "failed"} : Proceed(w, "cleaning", to)
       /\ dirty' = LeftDirty(worker[w].device)
    \/ Proceed(w, "cleaning", "failed") /\ UNCHANGED dirty

RetryCleanup(w) == Proceed(w, "sleeping", "cleaning") /\ UNCHANGED dirty

\* Mutated form of Retried: every failure, without reading the answer.
RetriedAlways(s, d, ok) == BoundTo(d, s) /\ ~ok

\* finishCleanup answered CLEANING: neither STALE, nor AVAILABLE, nor OFFLINE.
Retried(s, d, ok) == BoundTo(d, s) /\ ~ok /\ device'[d].currentSessionId = s

\* finishCleanup and what the worker does with its answer.
ReportCleanup(w) ==
    LET s == worker[w].session
        d == worker[w].device
        ok == worker[w].pc = "clean" IN
    /\ worker[w].pc \in {"clean", "failed"}
    /\ FinishCleanup(s, d, ok)
    /\ worker' = [worker EXCEPT ![w] = IF Retried(s, d, ok) THEN [@ EXCEPT !.pc = "sleeping"] ELSE NoWorker]
    /\ calls' = IF BoundTo(d, s) /\ ok THEN calls + 1 ELSE calls
    /\ UNCHANGED <<bootVars, pump, pumpAgain, faults, dirty>>

WorkerNext(w) ==
    /\ Running
    /\ RuntimeStopped(w) \/ CleanupRuns(w) \/ RetryCleanup(w) \/ ReportCleanup(w)

-----------------------------------------------------------------------------
(* The allocation pump. *)

\* Mutated form of PumpCalled: a call during the loop is dropped.
PumpCalledOnce ==
    /\ calls > 0
    /\ calls' = calls - 1
    /\ pump' = IF pump = "idle" THEN "call" ELSE pump
    /\ UNCHANGED <<pumpAgain, bootVars, worker, faults, dirty, storeVars>>

\* pump(): start the loop, or note that it has to run again.
PumpCalled ==
    /\ calls > 0
    /\ calls' = calls - 1
    /\ IF pump = "idle"
         THEN pump' = "call" /\ UNCHANGED pumpAgain
         ELSE pumpAgain' = TRUE /\ UNCHANGED pump
    /\ UNCHANGED <<bootVars, worker, faults, dirty, storeVars>>

PumpAllocates ==
    /\ pump = "call"
    /\ \/ /\ avail = {}
          /\ pump' = "null"
          /\ UNCHANGED storeVars
       \/ /\ \E d \in Devices : AllocateStale(d) \/ AllocateIdle(d)
          /\ pump' = "null"
       \/ /\ \E d \in Devices, r \in RequestIds, s \in SessionIds : AllocateTo(d, r, s)
          /\ UNCHANGED pump
    /\ UNCHANGED <<bootVars, worker, pumpAgain, calls, faults, dirty>>

\* The answer arrives: go on after a reservation, else leave the loop, and
\* start over if pump() was called meanwhile.
PumpContinues ==
    /\ pump = "null"
    /\ pump' = IF pumpAgain THEN "call" ELSE "idle"
    /\ pumpAgain' = FALSE
    /\ UNCHANGED <<bootVars, worker, calls, faults, dirty, storeVars>>

PumpNext == Running /\ (PumpCalled \/ PumpAllocates \/ PumpContinues)

-----------------------------------------------------------------------------
(* Clients. *)

RequestDevice(c, r) ==
    /\ JoinQueue(c, r)
    /\ calls' = IF HasRequest(c) THEN calls ELSE calls + 1
    /\ UNCHANGED <<bootVars, worker, pump, pumpAgain, faults, dirty>>

ClaimSession(c, s) ==
    /\ Claim(c, s)
    /\ dirty' = dirty \cup {session[s].deviceId}
    /\ UNCHANGED <<procVars, faults>>

ClientDisconnected(c) ==
    /\ clientSession[c] # None
    /\ MarkDisconnected(clientSession[c])
    /\ UNCHANGED <<procVars, faults, dirty>>

CoreClientNext(c) ==
    /\ Up
    /\ \/ \E r \in RequestIds : RequestDevice(c, r)
       \/ \E s \in SessionIds : ClaimSession(c, s)
       \/ ClientDisconnected(c)
       \/ /\ \/ \E r \in RequestIds : CancelRequest(c, r)
             \/ \E s \in SessionIds : Heartbeat(c, s) \/ Reconnect(c, s)
          /\ UNCHANGED <<procVars, faults, dirty>>

-----------------------------------------------------------------------------
(* Termination, by the tester, a failed stream, the reaper or the health loop. *)

Terminate(s, terminalState) ==
    /\ BeginTermination(s, terminalState)
    /\ StartWorker(s, session[s].deviceId, "stopping")
    /\ UNCHANGED <<bootVars, pumpVars, faults, dirty>>

EndSession(s) == Up /\ Terminate(s, "ENDING")

\* Mutated form of Overdue: only absent testers run out of time.
OverdueIfAway(s) ==
    \/ session[s].state = "RESERVED" /\ "claim" \in late[s]
    \/ session[s].state = "DISCONNECTED" /\ {"expires", "reconnect"} \cap late[s] # {}

Overdue(s) ==
    \/ session[s].state = "RESERVED" /\ "claim" \in late[s]
    \/ session[s].state \in {"ACTIVE", "DISCONNECTED"} /\ "expires" \in late[s]
    \/ session[s].state = "DISCONNECTED" /\ "reconnect" \in late[s]

ReaperExpires(s) ==
    /\ Up
    /\ s \in sessions
    /\ Overdue(s)
    /\ Terminate(s, "EXPIRED")

ReaperDisconnects(s) ==
    /\ Up
    /\ s \in sessions
    /\ late[s] = {"heartbeat"}
    /\ MarkDisconnected(s)
    /\ UNCHANGED <<procVars, faults, dirty>>

\* SESSION_UNHEALTHY, and then the device's session by the time it is read.
HealthTerminates(d) ==
    /\ Up
    /\ device[d].state \in {"IN_USE", "RESERVED"}
    /\ Terminate(device[d].currentSessionId, "EXPIRED")

\* The other outcomes of a health check; only a recovery calls the pump.
HealthFails(d) ==
    /\ Up
    /\ faults < MaxFaults
    /\ HealthOffline(d)
    /\ faults' = faults + 1
    /\ UNCHANGED <<procVars, dirty>>

HealthRecovers(d) ==
    /\ Up
    /\ HealthRecovered(d)
    /\ calls' = calls + 1
    /\ UNCHANGED <<bootVars, worker, pump, pumpAgain, faults, dirty>>

HealthPasses(d) ==
    /\ Up
    /\ HealthSelfHeal(d)
    /\ UNCHANGED <<procVars, faults, dirty>>

-----------------------------------------------------------------------------
(* Crash and bootstrap.  The server listens, and starts its timers, only     *)
(* after bootstrap() returned; the workers it started run meanwhile.         *)

Crash ==
    /\ Running
    /\ faults < MaxFaults
    /\ faults' = faults + 1
    /\ mode' = "down"
    /\ todo' = {}
    /\ repair' = NoRepair
    /\ worker' = [w \in Workers |-> NoWorker]
    /\ pump' = "idle"
    /\ pumpAgain' = FALSE
    /\ calls' = 0
    /\ UNCHANGED <<dirty, storeVars>>

\* From one loop of bootstrap() to the next.
BootAdvances ==
    /\ todo = {} /\ repair = NoRepair
    /\ \/ mode = "down" /\ mode' = "register" /\ todo' = Devices /\ UNCHANGED calls
       \/ mode = "register" /\ mode' = "sessions" /\ todo' = sessions /\ UNCHANGED calls
       \/ mode = "sessions" /\ mode' = "devices" /\ todo' = Devices /\ UNCHANGED calls
       \/ mode = "devices" /\ mode' = "up" /\ todo' = {} /\ calls' = calls + 1
    /\ UNCHANGED <<repair, worker, pump, pumpAgain, faults, dirty, storeVars>>

\* registerConfiguredDevices: an unknown device is registered, a known one kept.
BootRegisters(d) ==
    /\ mode = "register" /\ d \in todo
    /\ todo' = todo \ {d}
    /\ \/ \E online \in BOOLEAN : RegisterDevice(d, online)
       \/ device[d].state # "NONE" /\ UNCHANGED storeVars
    /\ UNCHANGED <<mode, repair, worker, pumpVars, faults, dirty>>

\* Mutated forms of Interrupted: one case of the switch missing, one too many.
InterruptedNotEnding(state) == state \in {"EXPIRED", "CLEANING"}
InterruptedOrAway(state) == state \in {"DISCONNECTED", "ENDING", "EXPIRED", "CLEANING"}

\* The states of a session whose cleanup has to be resumed.
Interrupted(state) == state \in {"ENDING", "EXPIRED", "CLEANING"}

\* reconcileAfterRestart, the loop over sessions.
BootSession(s) ==
    /\ mode = "sessions" /\ s \in todo
    /\ todo' = todo \ {s}
    /\ \/ /\ session[s].state = "ACTIVE"
          /\ MarkDisconnected(s)
          /\ UNCHANGED worker
       \/ /\ Interrupted(session[s].state)
          /\ StartWorker(s, session[s].deviceId, "cleaning")
          /\ UNCHANGED storeVars
       \/ /\ session[s].state # "ACTIVE" /\ ~Interrupted(session[s].state)
          /\ UNCHANGED <<worker, storeVars>>
    /\ UNCHANGED <<mode, repair, pumpVars, faults, dirty>>

\* The loop over devices reads the device, then the session it is bound to, and
\* last writes the device's membership in avail from what it first read.
BootReadsDevice(d) ==
    /\ mode = "devices" /\ d \in todo /\ repair = NoRepair
    /\ todo' = todo \ {d}
    /\ repair' = [device |-> d, session |-> device[d].currentSessionId,
                  available |-> device[d].state = "AVAILABLE"]
    /\ UNCHANGED <<mode, worker, pumpVars, faults, dirty, storeVars>>

BootReadsSession ==
    LET s == repair.session IN
    /\ s # None
    /\ IF nonterminal(session[s].state)
         THEN UNCHANGED worker
         ELSE StartWorker(s, repair.device, "cleaning")
    /\ repair' = [repair EXCEPT !.session = None]
    /\ UNCHANGED <<mode, todo, pumpVars, faults, dirty, storeVars>>

BootWritesAvail ==
    /\ repair # NoRepair /\ repair.session = None
    /\ SetDeviceAvailability(repair.device, repair.available)
    /\ repair' = NoRepair
    /\ UNCHANGED <<mode, todo, worker, pumpVars, faults, dirty>>

BootNext ==
    \/ BootAdvances
    \/ \E d \in Devices : BootRegisters(d) \/ BootReadsDevice(d)
    \/ \E s \in SessionIds : BootSession(s)
    \/ BootReadsSession
    \/ BootWritesAvail

-----------------------------------------------------------------------------

TimePasses(s, x) ==
    /\ DeadlinePasses(s, x)
    /\ UNCHANGED <<procVars, faults, dirty>>

CoreNext ==
    \/ \E w \in Workers : WorkerNext(w)
    \/ PumpNext
    \/ \E c \in Clients : CoreClientNext(c)
    \/ \E s \in SessionIds : EndSession(s) \/ ReaperExpires(s) \/ ReaperDisconnects(s)
    \/ \E d \in Devices : HealthTerminates(d) \/ HealthFails(d) \/ HealthRecovers(d) \/ HealthPasses(d)
    \/ \E s \in SessionIds, x \in Deadlines : TimePasses(s, x)
    \/ Crash
    \/ BootNext

CoreSpec == CoreInit /\ [][CoreNext]_coreVars

\* What goes on by itself while the server runs: promises settle and timers
\* fire, time passes, and an idle device is healthy again after a while (the
\* assumption of ANSWERS.md, "at least one device repeatedly returns healthy").
\* Nothing is assumed of clients.
Fairness ==
    /\ \A w \in Workers : WF_coreVars(WorkerNext(w))
    /\ WF_coreVars(PumpNext)
    /\ WF_coreVars(BootNext)
    /\ WF_coreVars(\E s \in SessionIds : ReaperExpires(s))
    /\ WF_coreVars(\E s \in SessionIds, x \in {"claim", "expires"} : TimePasses(s, x))
    /\ \A d \in Devices : WF_coreVars(HealthRecovers(d))

FairCoreSpec == CoreSpec /\ Fairness

-----------------------------------------------------------------------------
(* Properties. *)

\* Every cleanup in progress cleans the device of a session that is over for
\* good: none is started, or resumed after a restart, for a session whose tester
\* may still be there or come back.
WorkersBelong ==
    \A w \in Workers : worker[w].pc # "none" =>
        /\ Terminating(worker[w].session)
        /\ worker[w].device = session[worker[w].session].deviceId

\* What the reconciler has read stays true of the session until it acts on it.
RepairBelongs ==
    repair # NoRepair =>
        /\ repair.device \in Devices
        /\ repair.session # None =>
             /\ session[repair.session].state # "NONE"
             /\ session[repair.session].deviceId = repair.device

\* A device that cleanup puts back into the pool was cleaned after the session
\* that used it, also when the process was killed in the middle and several
\* workers clean after the restart.
FreedOnlyWhenClean ==
    [][\A d \in Devices :
         device[d].state = "CLEANING" /\ device'[d].state = "AVAILABLE" => d \notin dirty]_coreVars

\* A device is never AVAILABLE, let alone in use, while cleanup runs on it
\* (DESIGN.md, "A device is never AVAILABLE while cleanup runs").
OnlyCleansInCleaning ==
    \A w \in Workers :
        worker[w].pc = "cleaning" => device[worker[w].device].state = "CLEANING"

\* No device is forgotten: while the server is up, every device in CLEANING has
\* a worker for the session it is bound to, also after any number of restarts
\* in any phase of a termination, a cleanup or a bootstrap.
NoDeviceForgotten ==
    Up => \A d \in Devices :
        device[d].state = "CLEANING" =>
            \E w \in Workers : worker[w].device = d /\ worker[w].session = device[d].currentSessionId

\* The pump is work-conserving: nobody waits beside an available device while
\* the pump is idle and nothing is about to call it, however the calls of pump()
\* interleave with its own awaits (DESIGN.md, "any event that can create
\* capacity ... triggers it").
WorkConserving ==
    Up /\ pump = "idle" /\ calls = 0 =>
        (\A d \in Devices : device[d].state # "AVAILABLE") \/ (\A r \in RequestIds : ~Waiting(r))

\* Everybody who waits is served, unless they cancel: no session keeps its device
\* forever, every cleanup ends, and the pump is called once more after that
\* (ANSWERS.md, "every waiter is served in bounded position order").
EveryWaiterServed == \A r \in RequestIds : Waiting(r) ~> ~Waiting(r)

\* A device is not reserved for a session dirty (README.md, "instead of serving them dirty").
NeverServedDirty == \A d \in Devices : device[d].state = "RESERVED" => d \notin dirty

\* The process only changes the store as LabStore's callers may.
ImplementsStore == Spec
=============================================================================
