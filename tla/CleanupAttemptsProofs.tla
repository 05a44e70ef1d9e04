------------------------ MODULE CleanupAttemptsProofs ------------------------
(* Proofs about CleanupAttempts, for every value of the timeouts.            *)
EXTENDS CleanupAttempts, TLAPS

\* The time an operation has been running is bounded in two ways: by withTimeout
\* and by the timeouts of its commands, those before the present one in full.
Running(operation, spent) ==
    /\ spent + timer <= limit
    /\ spent + left <= step * Limit(operation)

\* What the two parts of an attempt may take.
CleanupTime == Shorter(limit, Commands * AdbTimeout)
HealthTime == Shorter(limit, Probes * HealthTimeout)

\* What earlier attempts of this cleanup may have taken.
Earlier == failures * Longest

\* The device's record follows the worker.
Phases ==
    /\ device = "CLEANING" <=> pc # "idle"
    /\ device \in {"IN_USE", "AVAILABLE"} => failures = 0
    /\ device = "CLEANING" => failures < MaxFailures

\* The strengthening of FinishesInTime: where the time has gone, in each phase.
TimeSpent ==
    /\ pc = "cleaning" => Running("cleaning", elapsed - Earlier)
    /\ pc = "checking" => Running("checking", elapsed - Earlier - CleanupTime)
    /\ pc \in {"clean", "failed"} => elapsed <= Earlier + CleanupTime + HealthTime
    /\ pc = "sleeping" => elapsed + timer <= Earlier

\* The strengthening of NoneAbandoned: withTimeout has more time left than the
\* command under way and those still to come.
EnoughTime == limit > Commands * AdbTimeout
TimeLeft ==
    EnoughTime =>
        /\ strays = {}
        /\ pc = "cleaning" => timer + step * AdbTimeout >= limit + left

-----------------------------------------------------------------------------
(* Arithmetic, once. *)

\* The lengths and limits of the operations are natural numbers.
LEMMA Lengths ==
    /\ Commands \in 2 .. 3 /\ Probes = 2
    /\ \A op : Limit(op) \in Nat /\ Length(op) \in 2 .. 3
    /\ Limit("cleaning") = AdbTimeout /\ Limit("checking") = HealthTimeout
    /\ Length("cleaning") = Commands /\ Length("checking") = Probes
BY TimesAssumption DEF Commands, Probes, Limit, Length

\* What is multiplied here is a natural number, and a later multiple is larger.
LEMMA Multiples ==
    ASSUME NEW a \in Nat, NEW b \in Nat, NEW n \in Nat
    PROVE  /\ a * n \in Nat
           /\ (a + 1) * n = a * n + n
           /\ a <= b => a * n <= b * n
<1>1. a * n \in Nat /\ (a + 1) * n = a * n + n
  OBVIOUS
<1>2. ASSUME a <= b PROVE a * n <= b * n
  <2>1. PICK k \in Nat : b = a + k
    BY <1>2
  <2>2. b * n = a * n + k * n /\ k * n \in Nat
    BY <2>1
  <2>3. QED
    BY <1>1, <2>2
<1>3. QED
  BY <1>1, <1>2

\* The two parts of an attempt.
LEMMA Parts ==
    ASSUME AttemptTypeOK
    PROVE  /\ limit \in Nat
           /\ CleanupTime \in Nat /\ HealthTime \in Nat /\ Longest \in Nat
           /\ Commands * AdbTimeout \in Nat /\ Probes * HealthTimeout \in Nat
           /\ Longest = CleanupTime + HealthTime + RetryDelay
           /\ CleanupTime <= limit /\ CleanupTime <= Commands * AdbTimeout
           /\ HealthTime <= limit /\ HealthTime <= Probes * HealthTimeout
           /\ \A t \in Int : t <= limit /\ t <= Commands * AdbTimeout => t <= CleanupTime
           /\ \A t \in Int : t <= limit /\ t <= Probes * HealthTimeout => t <= HealthTime
<1>1. limit \in Nat /\ AdbTimeout \in Nat /\ HealthTimeout \in Nat /\ RetryDelay \in Nat
  BY TimesAssumption DEF AttemptTypeOK
<1>2. Commands * AdbTimeout \in Nat /\ Probes * HealthTimeout \in Nat
  BY <1>1, Lengths, Multiples
<1>3. QED
  BY <1>1, <1>2 DEF CleanupTime, HealthTime, Longest, Shorter

-----------------------------------------------------------------------------
(* Types. *)

LEMMA TypesNext ==
    AttemptTypeOK /\ Phases /\ [AttemptNext]_attemptVars => AttemptTypeOK' /\ Phases'
<1> SUFFICES ASSUME AttemptTypeOK, Phases, [AttemptNext]_attemptVars
             PROVE  AttemptTypeOK' /\ Phases'
  OBVIOUS
<1> DEFINE Stray == [step : 1 .. Commands, left : 0 .. Limit("cleaning")]
<1> USE Lengths, TimesAssumption DEF AttemptTypeOK, Phases, Awaiting
<1>1. CASE Terminated
  BY <1>1 DEF Terminated, Call
<1>2. CASE CommandReturns
  <2>1. CASE step < Length(pc)
    BY <1>2, <2>1 DEF CommandReturns
  <2>2. CASE ~(step < Length(pc)) /\ pc = "cleaning"
    BY <1>2, <2>2 DEF CommandReturns, Call
  <2>3. CASE ~(step < Length(pc)) /\ pc # "cleaning"
    BY <1>2, <2>3 DEF CommandReturns, Settle
  <2>4. QED
    BY <2>1, <2>2, <2>3
<1>3. CASE CommandFails
  BY <1>3 DEF CommandFails, Settle
<1>4. CASE GivesUp
  <2>1. pc = "cleaning" => [step |-> step, left |-> left] \in Stray
    BY <1>4 DEF GivesUp
  <2>2. strays' \subseteq Stray
    BY <1>4, <2>1 DEF GivesUp
  <2>3. QED
    BY <1>4, <2>2 DEF GivesUp, Settle
<1>5. CASE Reports
  <2>1. failures' \in 0 .. MaxFailures /\ (device' = "CLEANING" => failures' < MaxFailures)
    BY <1>5 DEF Reports, Reported
  <2>2. QED
    BY <1>5, <2>1 DEF Reports, Reported
<1>6. CASE Retries
  BY <1>6 DEF Retries, Call
<1>7. CASE StrayGoesOn
  <2>1. PICK s \in strays :
             \/ strays' = (strays \ {s}) \cup {[step |-> s.step + 1, left |-> Limit("cleaning")]}
                /\ s.step < Commands
             \/ strays' = strays \ {s}
    BY <1>7 DEF StrayGoesOn
  <2>2. s.step < Commands => [step |-> s.step + 1, left |-> Limit("cleaning")] \in Stray
    OBVIOUS
  <2>3. strays' \subseteq Stray
    BY <2>1, <2>2
  <2>4. QED
    BY <1>7, <2>3 DEF StrayGoesOn
<1>8. CASE Allocated
  BY <1>8 DEF Allocated
<1>9. CASE Recovered
  BY <1>9 DEF Recovered
<1>10. CASE Tick
  <2>1. \A s \in strays : [s EXCEPT !.left = @ - 1] \in Stray
    BY <1>10 DEF Tick
  <2>2. strays' \subseteq Stray
    BY <1>10, <2>1 DEF Tick
  <2>3. left' \in Nat /\ timer' \in Nat /\ elapsed' \in Nat
    BY <1>10 DEF Tick
  <2>4. QED
    BY <1>10, <2>2, <2>3 DEF Tick
<1>11. CASE UNCHANGED attemptVars
  BY <1>11 DEF attemptVars
<1>12. QED
  BY <1>1, <1>2, <1>3, <1>4, <1>5, <1>6, <1>7, <1>8, <1>9, <1>10, <1>11 DEF AttemptNext

LEMMA TypesInvariant == AttemptSpec => [](AttemptTypeOK /\ Phases)
<1>1. AttemptInit => AttemptTypeOK /\ Phases
  BY Lengths, TimesAssumption DEF AttemptInit, AttemptTypeOK, Phases, Awaiting
<1>2. QED
  BY <1>1, TypesNext, PTL DEF AttemptSpec

\* Every variable keeps its type, whatever the timeouts.
THEOREM AttemptTypeCorrect == AttemptSpec => []AttemptTypeOK
BY TypesInvariant, PTL

-----------------------------------------------------------------------------
(* No cleanup is abandoned. *)

LEMMA TimeLeftNext ==
    AttemptTypeOK /\ TimeLeft /\ [AttemptNext]_attemptVars => TimeLeft'
<1> SUFFICES ASSUME AttemptTypeOK, TimeLeft, [AttemptNext]_attemptVars, EnoughTime'
             PROVE  /\ strays' = {}
                    /\ pc' = "cleaning" => timer' + step' * AdbTimeout >= limit' + left'
  BY DEF TimeLeft
<1>1. limit' = limit /\ EnoughTime
  BY DEF AttemptNext, Terminated, CommandReturns, CommandFails, GivesUp, Reports, Retries,
         StrayGoesOn, Allocated, Recovered, Tick, attemptVars, EnoughTime
<1>2. strays = {} /\ (pc = "cleaning" => timer + step * AdbTimeout >= limit + left)
  BY <1>1 DEF TimeLeft
<1>3. AdbTimeout \in Nat /\ limit \in Nat /\ step \in Nat /\ left \in Nat /\ timer \in Nat
      /\ step * AdbTimeout \in Nat /\ (step + 1) * AdbTimeout = step * AdbTimeout + AdbTimeout
      /\ 1 * AdbTimeout = AdbTimeout
  BY TimesAssumption, Multiples DEF AttemptTypeOK
<1>4. pc = "cleaning" => step * AdbTimeout <= Commands * AdbTimeout
  <2>1. pc = "cleaning" => step <= Commands
    BY Lengths DEF AttemptTypeOK, Awaiting
  <2>2. QED
    BY <1>3, <2>1, Lengths, Multiples
<1> USE Lengths
<1>5. CASE Terminated
  BY <1>1, <1>2, <1>3, <1>5 DEF Terminated, Call
<1>6. CASE CommandReturns
  <2>1. CASE step < Length(pc)
    BY <1>1, <1>2, <1>3, <1>6, <2>1 DEF CommandReturns
  <2>2. CASE ~(step < Length(pc))
    BY <1>1, <1>2, <1>6, <2>2 DEF CommandReturns, Call, Settle
  <2>3. QED
    BY <2>1, <2>2
<1>7. CASE CommandFails
  BY <1>2, <1>7 DEF CommandFails, Settle
<1>8. CASE GivesUp
  <2>1. Commands * AdbTimeout \in Nat
    BY <1>3, Multiples
  <2>2. pc # "cleaning"
    BY <1>1, <1>2, <1>3, <1>4, <1>8, <2>1 DEF GivesUp, EnoughTime
  <2>3. QED
    BY <1>2, <1>8, <2>2 DEF GivesUp, Settle
<1>9. CASE Reports
  BY <1>2, <1>9 DEF Reports, Reported
<1>10. CASE Retries
  BY <1>1, <1>2, <1>3, <1>10 DEF Retries, Call
<1>11. CASE StrayGoesOn
  BY <1>2, <1>11 DEF StrayGoesOn
<1>12. CASE Allocated \/ Recovered
  BY <1>1, <1>2, <1>12 DEF Allocated, Recovered
<1>13. CASE Tick
  <2>1. strays' = {}
    BY <1>2, <1>13 DEF Tick
  <2>2. QED
    BY <1>1, <1>2, <1>3, <1>13, <2>1 DEF Tick, Awaiting
<1>14. CASE UNCHANGED attemptVars
  BY <1>1, <1>2, <1>14 DEF attemptVars
<1>15. QED
  BY <1>5, <1>6, <1>7, <1>8, <1>9, <1>10, <1>11, <1>12, <1>13, <1>14 DEF AttemptNext

\* With a CLEANUP_TIMEOUT_MS above the sum of the commands' timeouts, whatever
\* they are, withTimeout never abandons a cleanup.
THEOREM CleanupsEndThemselves == AttemptSpec => []NoneAbandoned
<1>1. AttemptInit => TimeLeft
  BY DEF AttemptInit, TimeLeft
<1>2. TimeLeft => NoneAbandoned
  BY DEF TimeLeft, EnoughTime, NoneAbandoned
<1>3. QED
  BY <1>1, <1>2, TimeLeftNext, AttemptTypeCorrect, PTL DEF AttemptSpec

-----------------------------------------------------------------------------
(* The cleanup of a device comes to an end. *)

\* The arithmetic of one state: multiples of the times, and what the phase implies.
LEMMA Sums ==
    ASSUME AttemptTypeOK, Phases
    PROVE  /\ limit \in Nat /\ step \in Nat /\ left \in Nat /\ timer \in Nat /\ elapsed \in Nat
           /\ Earlier \in Nat /\ CleanupTime \in Nat /\ HealthTime \in Nat /\ RetryDelay \in Nat
           /\ AdbTimeout \in Nat /\ HealthTimeout \in Nat
           /\ step * AdbTimeout \in Nat /\ (step + 1) * AdbTimeout = step * AdbTimeout + AdbTimeout
           /\ step * HealthTimeout \in Nat
           /\ (step + 1) * HealthTimeout = step * HealthTimeout + HealthTimeout
           /\ 1 * AdbTimeout = AdbTimeout /\ 1 * HealthTimeout = HealthTimeout
           /\ (failures + 1) * Longest = Earlier + CleanupTime + HealthTime + RetryDelay
           /\ device = "CLEANING" =>
                 Earlier + CleanupTime + HealthTime + RetryDelay <= MaxFailures * Longest
           /\ MaxFailures * Longest \in Nat
<1>1. limit \in Nat /\ step \in Nat /\ left \in Nat /\ timer \in Nat /\ elapsed \in Nat
      /\ failures \in Nat /\ MaxFailures \in Nat /\ AdbTimeout \in Nat /\ HealthTimeout \in Nat
      /\ RetryDelay \in Nat
  BY TimesAssumption DEF AttemptTypeOK
<1>2. CleanupTime \in Nat /\ HealthTime \in Nat /\ Longest \in Nat
      /\ Longest = CleanupTime + HealthTime + RetryDelay
  BY Parts
<1>3. Earlier \in Nat /\ (failures + 1) * Longest = Earlier + Longest
      /\ MaxFailures * Longest \in Nat
  BY <1>1, <1>2, Multiples DEF Earlier
<1>4. device = "CLEANING" => (failures + 1) * Longest <= MaxFailures * Longest
  <2>1. device = "CLEANING" => failures + 1 <= MaxFailures
    BY <1>1 DEF Phases
  <2>2. QED
    BY <1>1, <1>2, <2>1, Multiples
<1>5. step * AdbTimeout \in Nat /\ (step + 1) * AdbTimeout = step * AdbTimeout + AdbTimeout
      /\ step * HealthTimeout \in Nat /\ (step + 1) * HealthTimeout = step * HealthTimeout + HealthTimeout
      /\ 1 * AdbTimeout = AdbTimeout /\ 1 * HealthTimeout = HealthTimeout
  BY <1>1, Multiples
<1>6. QED
  BY <1>1, <1>2, <1>3, <1>4, <1>5

\* In each phase the attempt has taken no more than its parts so far may take.
LEMMA PhaseBounds ==
    ASSUME AttemptTypeOK, Phases, TimeSpent
    PROVE  /\ pc = "cleaning" => elapsed <= Earlier + CleanupTime
           /\ pc = "checking" => elapsed <= Earlier + CleanupTime + HealthTime
           /\ device = "CLEANING" => FinishesInTime
<1>1. pc = "cleaning" => elapsed - Earlier <= CleanupTime
  <2>1. pc = "cleaning" => step * AdbTimeout <= Commands * AdbTimeout
    BY Sums, Lengths, Multiples DEF AttemptTypeOK, Awaiting
  <2>2. QED
    BY <2>1, Sums, Lengths, Parts DEF TimeSpent, Running
<1>2. pc = "checking" => elapsed - Earlier - CleanupTime <= HealthTime
  <2>1. pc = "checking" => step * HealthTimeout <= Probes * HealthTimeout
    BY Sums, Lengths, Multiples DEF AttemptTypeOK, Awaiting
  <2>2. QED
    BY <2>1, Sums, Lengths, Parts DEF TimeSpent, Running
<1>3. device = "CLEANING" => elapsed <= Earlier + CleanupTime + HealthTime
  BY <1>1, <1>2, Sums DEF Phases, TimeSpent, AttemptTypeOK
<1>4. QED
  BY <1>1, <1>2, <1>3, Sums DEF FinishesInTime

LEMMA TimeSpentNext ==
    AttemptTypeOK /\ Phases /\ TimeSpent /\ [AttemptNext]_attemptVars => TimeSpent'
<1> SUFFICES ASSUME AttemptTypeOK, Phases, TimeSpent, [AttemptNext]_attemptVars PROVE TimeSpent'
  OBVIOUS
<1>1. limit' = limit /\ CleanupTime' = CleanupTime /\ HealthTime' = HealthTime /\ Longest' = Longest
  BY DEF AttemptNext, Terminated, CommandReturns, CommandFails, GivesUp, Reports, Retries,
         StrayGoesOn, Allocated, Recovered, Tick, attemptVars, CleanupTime, HealthTime, Longest
<1>2. failures' = failures => Earlier' = Earlier
  BY <1>1 DEF Earlier
<1> USE DEF TimeSpent, Running
<1>3. CASE Terminated
  <2>1. Earlier' = 0 /\ pc' = "cleaning" /\ elapsed' = 0 /\ step' = 1
        /\ left' = AdbTimeout /\ timer' = limit
    <3>1. failures' = 0 /\ 0 * Longest = 0
      BY <1>3, Parts, Multiples DEF Terminated, Phases
    <3>2. QED
      BY <1>1, <1>3, <3>1, Lengths DEF Terminated, Call, Earlier
  <2>2. QED
    BY <1>1, <2>1, Sums, Lengths
<1>4. CASE CommandReturns
  <2>1. failures' = failures /\ elapsed' = elapsed
    BY <1>4 DEF CommandReturns
  <2>2. CASE step < Length(pc)
    BY <1>1, <1>2, <1>4, <2>1, <2>2, Sums, Lengths DEF CommandReturns, Awaiting
  <2>3. CASE ~(step < Length(pc)) /\ pc = "cleaning"
    <3>1. pc' = "checking" /\ step' = 1 /\ left' = HealthTimeout /\ timer' = limit
      BY <1>4, <2>3, Lengths DEF CommandReturns, Call
    <3>2. QED
      BY <1>1, <1>2, <2>1, <2>3, <3>1, PhaseBounds, Sums, Lengths
  <2>4. CASE ~(step < Length(pc)) /\ pc # "cleaning"
    <3>1. pc = "checking" /\ pc' = "clean"
      BY <1>4, <2>4 DEF CommandReturns, Settle, Awaiting
    <3>2. QED
      BY <1>1, <1>2, <2>1, <3>1, PhaseBounds
  <2>5. QED
    BY <2>2, <2>3, <2>4
<1>5. CASE CommandFails \/ GivesUp
  <2>1. pc' = "failed" /\ elapsed' = elapsed /\ failures' = failures /\ Awaiting
    BY <1>5 DEF CommandFails, GivesUp, Settle
  <2>2. QED
    BY <1>1, <1>2, <2>1, PhaseBounds, Sums DEF Awaiting
<1>6. CASE Reports
  <2>1. CASE pc' = "sleeping"
    <3>1. failures' = failures + 1 /\ elapsed' = elapsed /\ timer' = RetryDelay
          /\ pc \in {"clean", "failed"}
      BY <1>6, <2>1 DEF Reports, Reported
    <3>2. Earlier' = Earlier + CleanupTime + HealthTime + RetryDelay
      BY <1>1, <3>1, Sums DEF Earlier
    <3>3. QED
      BY <2>1, <3>1, <3>2, Sums
  <2>2. CASE pc' # "sleeping"
    BY <1>6, <2>2 DEF Reports, Reported
  <2>3. QED
    BY <2>1, <2>2
<1>7. CASE Retries
  <2>1. pc = "sleeping" /\ timer = 0 /\ pc' = "cleaning" /\ step' = 1 /\ left' = AdbTimeout
        /\ timer' = limit /\ elapsed' = elapsed /\ failures' = failures
    BY <1>7, Lengths DEF Retries, Call
  <2>2. QED
    BY <1>1, <1>2, <2>1, Sums, Lengths
<1>8. CASE StrayGoesOn
  BY <1>1, <1>2, <1>8 DEF StrayGoesOn
<1>9. CASE Allocated \/ Recovered
  BY <1>9 DEF Allocated, Recovered, Phases
<1>10. CASE Tick
  <2>1. failures' = failures /\ pc' = pc /\ device' = device /\ step' = step
        /\ pc \notin {"clean", "failed"}
    BY <1>10 DEF Tick
  <2>2. Awaiting => left' = left - 1 /\ timer' = timer - 1 /\ elapsed' = elapsed + 1
    BY <1>10 DEF Tick, Awaiting, Phases
  <2>3. pc = "sleeping" => timer' = timer - 1 /\ elapsed' = elapsed + 1
    BY <1>10 DEF Tick, Phases
  <2>4. QED
    BY <1>1, <1>2, <2>1, <2>2, <2>3, Sums, Lengths DEF Awaiting
<1>11. CASE UNCHANGED attemptVars
  BY <1>1, <1>2, <1>11 DEF attemptVars
<1>12. QED
  BY <1>3, <1>4, <1>5, <1>6, <1>7, <1>8, <1>9, <1>10, <1>11 DEF AttemptNext

\* The bound while nothing is cleaned is that of the last cleanup.
Kept == device = "CLEANING" \/ FinishesInTime

LEMMA KeptNext ==
    AttemptTypeOK /\ Phases /\ TimeSpent /\ Kept /\ [AttemptNext]_attemptVars => Kept'
<1> SUFFICES ASSUME AttemptTypeOK, Phases, TimeSpent, Kept, [AttemptNext]_attemptVars,
                    device' # "CLEANING"
             PROVE  Kept'
  BY DEF Kept
<1>1. limit' = limit /\ elapsed' = elapsed
  <2>1. CASE Terminated \/ Retries
    BY <2>1 DEF Terminated, Retries, Call, Phases
  <2>2. CASE Tick
    BY <2>2 DEF Tick
  <2>3. CASE CommandReturns \/ CommandFails \/ GivesUp \/ Reports \/ StrayGoesOn
             \/ Allocated \/ Recovered \/ UNCHANGED attemptVars
    BY <2>3 DEF CommandReturns, CommandFails, GivesUp, Reports, StrayGoesOn, Allocated,
           Recovered, attemptVars
  <2>4. QED
    BY <2>1, <2>2, <2>3 DEF AttemptNext
<1>2. Longest' = Longest
  BY <1>1 DEF Longest
<1>3. FinishesInTime
  BY PhaseBounds DEF Kept
<1>4. QED
  BY <1>1, <1>2, <1>3 DEF FinishesInTime, Kept

\* A device leaves CLEANING within MaxFailures of the longest attempts, for every
\* choice of the timeouts and of what hangs or fails.
THEOREM CleanupsFinish == AttemptSpec => []FinishesInTime
<1>1. AttemptInit => TimeSpent /\ Kept
  <2>1. AttemptInit => AttemptTypeOK /\ Phases
    BY Lengths, TimesAssumption DEF AttemptInit, AttemptTypeOK, Phases, Awaiting
  <2>2. QED
    BY <2>1, Sums DEF AttemptInit, TimeSpent, FinishesInTime, Kept
<1>2. AttemptTypeOK /\ Phases /\ TimeSpent /\ Kept => FinishesInTime
  BY PhaseBounds DEF Kept
<1>3. QED
  BY <1>1, <1>2, TypesInvariant, TimeSpentNext, KeptNext, PTL DEF AttemptSpec
=============================================================================
