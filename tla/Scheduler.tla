------------------------------ MODULE Scheduler ------------------------------
(***************************************************************************)
(* cv_infra/scheduler.py: the dispatcher thread, the governor it asks      *)
(* (fixed K or adaptive), and the pool workers that run cases and, when a  *)
(* case loses its GPU, lower the governor's level from their own thread    *)
(* (cli/main.py _run_once -> governor.back_off).                           *)
(*                                                                         *)
(* A step is what runs between two points where CPython 3.11 (the only     *)
(* version pyproject.toml allows) may switch threads: the calls.  admit()  *)
(* reads the level for the refill test, then calls sum() and len(), then   *)
(* reads the ceiling and stores the level; back_off() reads the level,     *)
(* calls max(), then stores the level and the ceiling.                     *)
(***************************************************************************)
EXTENDS Integers, FiniteSets

CONSTANTS
    NItems,         \* how many cases the plan holds
    MaxParallel,    \* governor.max_parallel: pool threads
    Samples,        \* what a host probe may answer: [free, busy] records
    NoSample,       \* ... or this, when nvidia-smi or /proc/meminfo cannot be read
    InitialCase,    \* footprint assumed before any case is measured, per resource
    Reserve,        \* memory never planned away, per resource
    AdmitSpacing,   \* clock units between the last start and a growth of the level
    Deadlines,      \* the budgets a run may be given; above MaxTime: never reached
    Repeats,        \* runs of one case, each of which may lose its GPU once
    MaxTime         \* bound on the clock

Resources == {"vram", "ram"}

ASSUME SchedulerAssumption ==
    /\ NItems \in Nat
    /\ MaxParallel \in Nat \ {0}
    /\ Samples \subseteq [free : [Resources -> Int], busy : BOOLEAN]
    /\ NoSample \notin Samples
    /\ InitialCase \in [Resources -> Nat]
    /\ Reserve \in [Resources -> Nat]
    /\ AdmitSpacing \in Nat
    /\ Deadlines \subseteq Nat
    /\ Repeats \in Nat
    /\ MaxTime \in Nat

VARIABLES
    \* the dispatcher thread
    dpc,        \* where it is in its loop
    started,    \* len(futures): items 1 .. started were submitted
    running,    \* its own set of futures it last saw not done
    peak,       \* the largest that set has been
    truncated,  \* the deadline stopped it
    \* the governor
    mode,       \* "auto" or "fixed"
    level,      \* cases the host is held to take
    ceiling,    \* never grow above this
    lastAdmit,  \* when the governor last said yes
    blind,      \* the last probe failed
    latest,     \* the last sample that did not fail
    baseline,   \* the first one
    perCase,    \* largest footprint of a case seen, per resource
    \* the workers
    wpc,        \* per item: "queued", "running", "backing_off", "ok", "fault"
    seen,       \* per item: the level back_off() read and has not stored yet, else 1
    lost,       \* per item: how often it lost its GPU
    \* the clocks
    now, deadline,
    \* history: what the properties compare with, read by no action
    topLevel,   \* the highest level the run ever had
    lossLevel   \* the lowest level at which a back_off() has taken effect

dispatcherVars == <<dpc, started, running, peak, truncated>>
probeVars == <<blind, latest, baseline>>
levelVars == <<level, ceiling, topLevel, lossLevel>>
governorVars == <<mode, levelVars, lastAdmit, probeVars, perCase>>
workerVars == <<wpc, seen, lost>>
vars == <<dispatcherVars, governorVars, workerVars, now, deadline>>

Items == 1 .. NItems

Larger(a, b) == IF a >= b THEN a ELSE b
Smaller(a, b) == IF a <= b THEN a ELSE b

\* Items whose future is done.
Ended == {i \in Items : wpc[i] \in {"ok", "fault"}}

\* Items whose worker is really at work, which the dispatcher's `running` lags behind.
InFlight == {i \in Items : wpc[i] \in {"running", "backing_off"}}

NeverLost == MaxParallel + 1

Init ==
    /\ dpc = "poll"
    /\ started = 0
    /\ running = {}
    /\ peak = 0
    /\ truncated = FALSE
    /\ mode \in {"auto", "fixed"}
    /\ level = 1
    /\ ceiling = MaxParallel
    /\ lastAdmit = -AdmitSpacing
    /\ blind = FALSE
    /\ latest = NoSample
    /\ baseline = NoSample
    /\ perCase = InitialCase
    /\ wpc = [i \in Items |-> "queued"]
    /\ seen = [i \in Items |-> 1]
    /\ lost = [i \in Items |-> 0]
    /\ now = 0
    /\ deadline \in Deadlines
    /\ topLevel = 1
    /\ lossLevel = NeverLost

-----------------------------------------------------------------------------
(* The dispatcher.                                                         *)

\* The futures still not done.
StillRunning == running \ Ended

\* Top of the loop: drop the futures that are done, and see if more may start.
Poll ==
    /\ dpc = "poll"
    /\ running' = StillRunning
    /\ dpc' = IF started < NItems /\ ~truncated THEN "observe" ELSE "wait"
    /\ UNCHANGED <<started, peak, truncated, governorVars, workerVars, now, deadline>>

\* governor.observe(): one probe of the host, which may fail.
Observe ==
    /\ dpc = "observe"
    /\ dpc' = "admit"
    /\ \/ mode = "fixed" /\ UNCHANGED probeVars
       \/ /\ mode = "auto"
          /\ blind' = TRUE
          /\ UNCHANGED <<latest, baseline>>
       \/ /\ mode = "auto"
          /\ blind' = FALSE
          /\ latest' \in Samples
          /\ baseline' = IF baseline = NoSample THEN latest' ELSE baseline
    /\ UNCHANGED <<started, running, peak, truncated, mode, levelVars, lastAdmit,
                   perCase, workerVars, now, deadline>>

\* FixedGovernor.admit(): K at once, no probing.
Room(n) == n < MaxParallel

AdmitFixed ==
    /\ dpc = "admit" /\ mode = "fixed"
    /\ dpc' = IF Room(Cardinality(running)) THEN "start" ELSE "wait"
    /\ UNCHANGED <<started, running, peak, truncated, governorVars, workerVars,
                   now, deadline>>

\* AdaptiveGovernor._learn(): the footprint estimates only grow.
Learned(n) ==
    [r \in Resources |->
        Larger(perCase[r], (baseline.free[r] - latest.free[r]) \div n)]

\* One more case, taken 5/4 as large as the largest seen, leaves the reserve free.
Fits(cost) ==
    \A r \in Resources : 4 * latest.free[r] - 5 * cost[r] >= 4 * Reserve[r]

\* What admit() needs before it looks at memory.  (Bug variant: it goes by the last
\* good sample while the probe is failing.)
StaleGrounds(n) == latest # NoSample /\ baseline # NoSample /\ n < MaxParallel
Grounds(n) == ~blind /\ latest # NoSample /\ baseline # NoSample /\ n < MaxParallel

\* AdaptiveGovernor.admit() up to the refill test: yes to an idle host, no without
\* evidence, threads or memory, yes to a refill, and otherwise the level must grow.
AdmitAuto ==
    LET n == Cardinality(running)
    IN /\ dpc = "admit" /\ mode = "auto"
       /\ \/ /\ n = 0
             /\ dpc' = "start" /\ lastAdmit' = now
             /\ UNCHANGED perCase
          \/ /\ n > 0 /\ ~Grounds(n)
             /\ dpc' = "wait"
             /\ UNCHANGED <<lastAdmit, perCase>>
          \/ /\ n > 0 /\ Grounds(n)
             /\ perCase' = Learned(n)
             /\ \/ ~Fits(perCase') /\ dpc' = "wait" /\ UNCHANGED lastAdmit
                \/ Fits(perCase') /\ n < level /\ dpc' = "start" /\ lastAdmit' = now
                \/ Fits(perCase') /\ n >= level /\ dpc' = "grow" /\ UNCHANGED lastAdmit
       /\ UNCHANGED <<started, running, peak, truncated, mode, levelVars, probeVars,
                      workerVars, now, deadline>>

\* The evidence a growth needs.
MayGrow(n) == now - lastAdmit >= AdmitSpacing /\ ~latest.busy /\ n + 1 <= ceiling

\* The level a growth stores.  (Bug variant: counted from the case being added.)
GrownTwice(n) == n + 2
Grown(n) == n + 1

\* The growth test of a full level, and the store of the new one.
Grow ==
    LET n == Cardinality(running)
    IN /\ dpc = "grow"
       /\ \/ ~MayGrow(n) /\ dpc' = "wait" /\ UNCHANGED <<lastAdmit, level, topLevel>>
          \/ /\ MayGrow(n)
             /\ dpc' = "start"
             /\ lastAdmit' = now
             /\ level' = Grown(n)
             /\ topLevel' = Larger(topLevel, Grown(n))
       /\ UNCHANGED <<started, running, peak, truncated, mode, ceiling, lossLevel,
                      probeVars, perCase, workerVars, now, deadline>>

\* The budget is read once the governor has said yes; then the next item in
\* array order goes to the pool.
Start ==
    /\ dpc = "start"
    /\ dpc' = "poll"
    /\ \/ /\ now >= deadline
          /\ truncated' = TRUE
          /\ UNCHANGED <<started, running, peak, wpc>>
       \/ /\ now < deadline
          /\ started' = started + 1
          /\ running' = running \cup {started + 1}
          /\ peak' = Larger(peak, Cardinality(running'))
          /\ wpc' = [wpc EXCEPT ![started + 1] = "running"]
          /\ UNCHANGED truncated
    /\ UNCHANGED <<governorVars, seen, lost, now, deadline>>

\* The loop is left once nothing is running.  (Bug variant: a fault ends it at once.)
MayLeaveOnFault == running = {} \/ \E i \in 1 .. started : wpc[i] = "fault"
MayLeave == running = {}

\* Nothing in flight: leave the loop and collect, where the first fault in item
\* order is raised.  Otherwise wait for a future or the tick, and look again.
Wait ==
    /\ dpc = "wait"
    /\ dpc' = IF ~MayLeave THEN "poll"
              ELSE IF \E i \in 1 .. started : wpc[i] = "fault" THEN "raised"
              ELSE "returned"
    /\ UNCHANGED <<started, running, peak, truncated, governorVars, workerVars,
                   now, deadline>>

Dispatcher ==
    Poll \/ Observe \/ AdmitFixed \/ AdmitAuto \/ Grow \/ Start \/ Wait

-----------------------------------------------------------------------------
(* The workers: _run_case, which calls governor.back_off() on a lost GPU.  *)

\* The case's container lost its GPU: back_off() reads the level and computes
\* max(1, level - 1).  A fixed governor's back_off() does nothing.
LoseGpu(i) ==
    /\ wpc[i] = "running"
    /\ lost[i] < Repeats
    /\ lost' = [lost EXCEPT ![i] = @ + 1]
    /\ IF mode = "auto"
       THEN wpc' = [wpc EXCEPT ![i] = "backing_off"] /\ seen' = [seen EXCEPT ![i] = level]
       ELSE UNCHANGED <<wpc, seen>>
    /\ UNCHANGED <<dispatcherVars, governorVars, now, deadline>>

\* One level less, and never below one.  (Bug variant: no floor.)
LoweredBelowOne(l) == l - 1
Lowered(l) == Larger(1, l - 1)

\* The ceiling follows the level down.  (Bug variant: it stays where it was.)
UncappedAt(l) == ceiling
CappedAt(l) == l

\* The rest of back_off(): both stores; then the run is retried.
BackOff(i) ==
    /\ wpc[i] = "backing_off"
    /\ level' = Lowered(seen[i])
    /\ ceiling' = CappedAt(level')
    /\ lossLevel' = Smaller(lossLevel, seen[i])
    /\ wpc' = [wpc EXCEPT ![i] = "running"]
    /\ seen' = [seen EXCEPT ![i] = 1]
    /\ UNCHANGED <<dispatcherVars, mode, lastAdmit, topLevel, probeVars, perCase,
                   lost, now, deadline>>

\* The future is done: with a result, or with an exception of the platform.
End(i) ==
    /\ wpc[i] = "running"
    /\ \E r \in {"ok", "fault"} : wpc' = [wpc EXCEPT ![i] = r]
    /\ UNCHANGED <<dispatcherVars, governorVars, seen, lost, now, deadline>>

Worker(i) == LoseGpu(i) \/ BackOff(i) \/ End(i)

Tick ==
    /\ now < MaxTime
    /\ now' = now + 1
    /\ UNCHANGED <<dispatcherVars, governorVars, workerVars, deadline>>

Finished == dpc \in {"returned", "raised"}

\* dispatch() has come back: nothing more happens.
Terminated == Finished /\ UNCHANGED vars

Next == Dispatcher \/ (\E i \in Items : Worker(i)) \/ Tick \/ Terminated

\* The dispatcher's loop keeps turning, and a worker comes to its end: every wait
\* of run_sim_case and run_oracle is bounded by a timeout.
Fairness == WF_vars(Dispatcher) /\ \A i \in Items : WF_vars(Worker(i))

Spec == Init /\ [][Next]_vars /\ Fairness

-----------------------------------------------------------------------------
(* Properties.                                                             *)

\* The types of the variables.
TypeOK ==
    /\ dpc \in {"poll", "observe", "admit", "grow", "start", "wait", "returned", "raised"}
    /\ started \in 0 .. NItems
    /\ running \subseteq 1 .. started
    /\ peak \in 0 .. MaxParallel
    /\ truncated \in BOOLEAN
    /\ mode \in {"auto", "fixed"}
    /\ level \in 1 .. MaxParallel
    /\ ceiling \in 1 .. MaxParallel
    /\ lastAdmit \in -AdmitSpacing .. MaxTime
    /\ blind \in BOOLEAN
    /\ latest \in Samples \cup {NoSample}
    /\ baseline \in Samples \cup {NoSample}
    /\ perCase \in [Resources -> Nat]
    /\ wpc \in [Items -> {"queued", "running", "backing_off", "ok", "fault"}]
    /\ seen \in [Items -> 1 .. MaxParallel]
    /\ lost \in [Items -> 0 .. Repeats]
    /\ now \in 0 .. MaxTime
    /\ deadline \in Deadlines
    /\ topLevel \in 1 .. MaxParallel
    /\ lossLevel \in 1 .. NeverLost

\* At most max_parallel cases are at work, and the peak the report gives is never
\* less than what was: scheduler.py's `running` lags the workers, never the reverse.
InFlightWithinPeak ==
    /\ Cardinality(InFlight) <= peak
    /\ peak <= MaxParallel

\* However growth and the workers' back-offs interleave, the level the next refill
\* goes up to never stands above the ceiling (admit() tests the ceiling and stores
\* the level with no thread switch between).
LevelWithinCeiling == level <= ceiling

\* "A refill: the host already took this many" - the level is one that was really
\* in flight, except while the case that raised it is being started.
LevelWasReached ==
    dpc # "start" /\ ~truncated => level <= Larger(1, peak)

\* A run that lost a GPU never goes back to its highest level, even when the
\* back-offs of several workers overlap.
TopLevelLostForGood ==
    lossLevel # NeverLost => level <= Larger(1, topLevel - 1)

\* "No evidence means ONE case at a time": while the last probe has failed, a case
\* only starts alone.
BlindMeansSerial ==
    [][mode = "auto" /\ blind /\ started' > started => InFlight' = {started'}]_vars

\* dispatch's promise to its caller, with its termination: Dispatch.tla.
D == INSTANCE Dispatch WITH
        Limit <- MaxParallel,
        result <- [i \in Items |-> IF wpc[i] \in {"ok", "fault"} THEN wpc[i] ELSE "none"],
        outcome <- IF dpc = "raised" THEN "raised"
                   ELSE IF dpc # "returned" THEN "running"
                   ELSE IF truncated THEN "truncated" ELSE "complete"

ImplementsDispatch == D!Spec

\* back_off(), scheduler.py:217: "never back up to the level it happened at".
NeverBackUp == lossLevel > 1 => level < lossLevel
=============================================================================
