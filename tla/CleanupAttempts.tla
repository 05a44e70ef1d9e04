--------------------------- MODULE CleanupAttempts ---------------------------
(***************************************************************************)
(* One device under cleanupDevice (apps/server/src/core.ts), in seconds.   *)
(* An attempt is adapter.cleanup, a few adb commands one after the other,  *)
(* and then adapter.health, two more.  Each command is killed after its    *)
(* own timeout (execFile); withTimeout around the whole of an operation    *)
(* only stops waiting for it: what it abandons drives the device on, next  *)
(* to the retry or to the next session.  LabCore has all of this in one    *)
(* step, CleanupRuns; this module is why it may.                           *)
(***************************************************************************)
EXTENDS Integers

CONSTANTS
    ForceStop,       \* options.cleanupPackage is set (index.ts does not set it)
    AdbTimeout,      \* adbExec's default: 10 s
    HealthTimeout,   \* of each command of health(): 4 s
    CleanupTimeouts, \* the values of CLEANUP_TIMEOUT_MS considered; its default: 30 s
    RetryDelay,      \* the sleep after a failed attempt: 1 s
    MaxFailures      \* config.maxDeviceFailures

ASSUME TimesAssumption ==
    /\ ForceStop \in BOOLEAN
    /\ AdbTimeout \in Nat /\ HealthTimeout \in Nat /\ RetryDelay \in Nat
    /\ CleanupTimeouts \subseteq Nat
    /\ MaxFailures \in Nat \ {0}

VARIABLES
    limit,     \* config.cleanupTimeoutMs of this process
    device,    \* the state of the device in Redis, reservations included in IN_USE
    failures,  \* its failureCount
    pc,        \* where cleanupDevice is
    step,      \* which command of the operation it awaits is running
    left,      \* seconds until that command is killed
    timer,     \* seconds until withTimeout, or the sleep, is over
    strays,    \* abandoned cleanups: the command each is at, and its seconds left
    elapsed    \* history: seconds since the device entered CLEANING

attemptVars == <<limit, device, failures, pc, step, left, timer, strays, elapsed>>

-----------------------------------------------------------------------------

\* BACK, HOME, and am force-stop for a configured package.
Commands == IF ForceStop THEN 3 ELSE 2

\* getprop and echo.
Probes == 2

\* Mutated form of Limit: the longer timeout of typeText.
LimitOfText(operation) == IF operation = "cleaning" THEN 20 ELSE HealthTimeout

\* How long adbExec lets a command of an operation run.
Limit(operation) == IF operation = "cleaning" THEN AdbTimeout ELSE HealthTimeout

\* How many commands an operation has.
Length(operation) == IF operation = "cleaning" THEN Commands ELSE Probes

Awaiting == pc \in {"cleaning", "checking"}

AttemptInit ==
    /\ limit \in CleanupTimeouts
    /\ device = "IN_USE" /\ failures = 0
    /\ pc = "idle" /\ step = 0 /\ left = 0 /\ timer = 0
    /\ strays = {}
    /\ elapsed = 0

-----------------------------------------------------------------------------
(* cleanupDevice. *)

\* Mutated form of Call: the commands are counted from zero.
CallFromZero(operation) ==
    /\ pc' = operation /\ step' = 0
    /\ left' = Limit(operation)
    /\ timer' = limit

\* withTimeout(adapter.<operation>(ref), cleanupTimeoutMs)
Call(operation) ==
    /\ pc' = operation /\ step' = 1
    /\ left' = Limit(operation)
    /\ timer' = limit

\* The attempt is over, its outcome still to be reported; what is abandoned
\* goes on.
Settle(outcome) == pc' = outcome /\ step' = 0 /\ left' = 0 /\ timer' = 0

\* terminateSession
Terminated ==
    /\ device = "IN_USE"
    /\ device' = "CLEANING"
    /\ Call("cleaning")
    /\ elapsed' = 0
    /\ UNCHANGED <<limit, failures, strays>>

\* A command returns in time; the next one starts, or the operation is done.
CommandReturns ==
    /\ Awaiting
    /\ IF step < Length(pc)
         THEN /\ step' = step + 1 /\ left' = Limit(pc)
              /\ UNCHANGED <<pc, timer>>
         ELSE IF pc = "cleaning" THEN Call("checking") ELSE Settle("clean")
    /\ UNCHANGED <<limit, device, failures, strays, elapsed>>

\* A command fails or is killed at its timeout; so does a check that a device
\* answers wrongly.  health() turns the error into an answer.
CommandFails ==
    /\ Awaiting
    /\ Settle("failed")
    /\ UNCHANGED <<limit, device, failures, strays, elapsed>>

\* withTimeout gives up.
GivesUp ==
    /\ Awaiting /\ timer = 0
    /\ strays' = IF pc = "cleaning" THEN strays \cup {[step |-> step, left |-> left]} ELSE strays
    /\ Settle("failed")
    /\ UNCHANGED <<limit, device, failures, elapsed>>

\* Mutated form of Reported: the failures are not counted.
ReportedUncounted ==
    IF pc = "clean"
      THEN device' = "AVAILABLE" /\ failures' = 0 /\ pc' = "idle" /\ UNCHANGED timer
      ELSE /\ device' = "CLEANING" /\ failures' = failures
           /\ pc' = "sleeping" /\ timer' = RetryDelay

\* finishCleanup and what cleanupDevice does with its answer.
Reported ==
    IF pc = "clean"
      THEN device' = "AVAILABLE" /\ failures' = 0 /\ pc' = "idle" /\ UNCHANGED timer
      ELSE /\ failures' = failures + 1
           /\ IF failures + 1 >= MaxFailures
                THEN device' = "OFFLINE" /\ pc' = "idle" /\ UNCHANGED timer
                ELSE device' = "CLEANING" /\ pc' = "sleeping" /\ timer' = RetryDelay

Reports ==
    /\ pc \in {"clean", "failed"}
    /\ Reported
    /\ UNCHANGED <<limit, step, left, strays, elapsed>>

Retries ==
    /\ pc = "sleeping" /\ timer = 0
    /\ Call("cleaning")
    /\ UNCHANGED <<limit, device, failures, strays, elapsed>>

-----------------------------------------------------------------------------
(* What goes on beside it. *)

\* An abandoned cleanup: its command returns, and the next one starts; or it
\* was the last one, or it fails.
StrayGoesOn ==
    \E s \in strays :
        /\ \/ /\ s.step < Commands
              /\ strays' = (strays \ {s}) \cup {[step |-> s.step + 1, left |-> Limit("cleaning")]}
           \/ strays' = strays \ {s}
        /\ UNCHANGED <<limit, device, failures, pc, step, left, timer, elapsed>>

\* The allocator, and the health loop.
Allocated ==
    /\ device = "AVAILABLE"
    /\ device' = "IN_USE"
    /\ UNCHANGED <<limit, failures, pc, step, left, timer, strays, elapsed>>

Recovered ==
    /\ device = "OFFLINE"
    /\ device' = "AVAILABLE" /\ failures' = 0
    /\ UNCHANGED <<limit, pc, step, left, timer, strays, elapsed>>

\* A second passes, unless a timer is due.
Tick ==
    /\ Awaiting => left > 0 /\ timer > 0
    /\ pc = "sleeping" => timer > 0
    /\ pc \notin {"clean", "failed"}
    /\ device = "CLEANING" \/ strays # {}
    /\ \A s \in strays : s.left > 0
    /\ left' = IF Awaiting THEN left - 1 ELSE left
    /\ timer' = IF Awaiting \/ pc = "sleeping" THEN timer - 1 ELSE timer
    /\ strays' = {[s EXCEPT !.left = @ - 1] : s \in strays}
    /\ elapsed' = IF device = "CLEANING" THEN elapsed + 1 ELSE elapsed
    /\ UNCHANGED <<limit, device, failures, pc, step>>

AttemptNext ==
    \/ Terminated \/ CommandReturns \/ CommandFails \/ GivesUp \/ Reports \/ Retries
    \/ StrayGoesOn \/ Allocated \/ Recovered \/ Tick

AttemptSpec == AttemptInit /\ [][AttemptNext]_attemptVars

-----------------------------------------------------------------------------
(* Properties. *)

\* Every variable has its type; an operation that is awaited is at one of its
\* commands, with no more time left than it was given.
AttemptTypeOK ==
    /\ limit \in CleanupTimeouts
    /\ device \in {"IN_USE", "CLEANING", "AVAILABLE", "OFFLINE"}
    /\ failures \in 0 .. MaxFailures
    /\ pc \in {"idle", "cleaning", "checking", "clean", "failed", "sleeping"}
    /\ step \in Nat /\ left \in Nat /\ timer \in Nat /\ elapsed \in Nat
    /\ Awaiting => step \in 1 .. Length(pc) /\ left <= Limit(pc) /\ timer <= limit
    /\ strays \subseteq [step : 1 .. Commands, left : 0 .. Limit("cleaning")]

\* The commands of an attempt are over, each by its own timeout, before
\* withTimeout gives up, so that no cleanup is left to itself on a device that is
\* retried, released or in use again (DESIGN.md, "A device is never AVAILABLE
\* while cleanup runs").  It takes a CLEANUP_TIMEOUT_MS above the commands' sum,
\* which the default is, and would not be with a package to stop.
NoneAbandoned == limit > Commands * AdbTimeout => strays = {}

Shorter(a, b) == IF a < b THEN a ELSE b

\* The longest attempt, with the sleep after it.
Longest == Shorter(limit, Commands * AdbTimeout) + Shorter(limit, Probes * HealthTimeout) + RetryDelay

\* A device is back in the pool, or OFFLINE, within a time that is known in
\* advance, whatever hangs or fails (ANSWERS.md, "cleanup that terminates: bounded
\* retries, after which the device goes OFFLINE").
FinishesInTime == elapsed <= MaxFailures * Longest
=============================================================================
