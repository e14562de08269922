--------------------------- MODULE SchedulerProofs ---------------------------
(***************************************************************************)
(* The safety of the scheduler for every number of cases, of threads and   *)
(* of repeats, every set of host samples and every clock bound.            *)
(***************************************************************************)
EXTENDS Scheduler, FiniteSetTheorems, TLAPS

(* The inductive invariant.                                                *)

\* Exactly the first `started` items have been handed to the pool.
Submitted == \A i \in Items : wpc[i] = "queued" <=> i > started

\* The dispatcher's set holds every case at work, within the peak.
Tracked ==
    /\ InFlight \subseteq running
    /\ Cardinality(running) <= peak

\* What the dispatcher has established where it stands in its loop.
Loop ==
    /\ dpc \in {"observe", "admit", "grow", "start"} => started < NItems /\ ~truncated
    /\ truncated => started < NItems
    /\ dpc \in {"grow", "start"} => Cardinality(running) < MaxParallel
    /\ dpc = "grow" => running # {} /\ latest # NoSample /\ ~blind
    /\ dpc = "start" /\ mode = "auto" /\ blind => running = {}
    /\ dpc \in {"returned", "raised"} => running = {}
    /\ dpc = "raised" <=> (dpc \in {"returned", "raised"}
                             /\ \E i \in 1 .. started : wpc[i] = "fault")
    /\ dpc = "returned" /\ ~truncated => started = NItems
    /\ dpc = "wait" /\ running = {} /\ ~truncated => started = NItems

\* The order the level, what a back_off() has read of it, the peak and the ceiling keep.
Levels ==
    /\ level <= ceiling
    /\ level <= topLevel
    /\ level <= peak + 1
    /\ dpc # "start" /\ ~truncated => level <= Larger(1, peak)
    /\ dpc = "start" => level <= Larger(1, Larger(peak, Cardinality(running) + 1))
    /\ \A i \in Items : seen[i] <= topLevel /\ seen[i] <= peak + 1
    /\ lossLevel # NeverLost => ceiling <= Larger(1, topLevel - 1)

IInv == TypeOK /\ Submitted /\ Tracked /\ Loop /\ Levels

-----------------------------------------------------------------------------
(* Finite sets of items.                                                   *)

\* A set of submitted items is finite and has a natural number of members.
LEMMA SubmittedFinite ==
    ASSUME NEW k \in Nat, NEW S \in SUBSET (1 .. k)
    PROVE  IsFiniteSet(S) /\ Cardinality(S) \in Nat
  <1>1. IsFiniteSet(1 .. k)
    BY FS_Interval
  <1>2. IsFiniteSet(S)
    BY <1>1, FS_Subset
  <1> QED
    BY <1>2, FS_CardinalityType

\* Dropping members never makes a set larger.
LEMMA SubsetNotLarger ==
    ASSUME NEW k \in Nat, NEW S \in SUBSET (1 .. k), NEW T \in SUBSET S
    PROVE  Cardinality(T) <= Cardinality(S)
  BY SubmittedFinite, FS_Subset

\* The next item is new, and makes the set one larger.
LEMMA NextItemCounts ==
    ASSUME NEW k \in Nat, NEW S \in SUBSET (1 .. k)
    PROVE  Cardinality(S \cup {k + 1}) = Cardinality(S) + 1
  <1>1. k + 1 \notin S
    OBVIOUS
  <1> QED
    BY <1>1, SubmittedFinite, FS_AddElement

\* Only the empty set has no members.
LEMMA EmptyIffZero ==
    ASSUME NEW k \in Nat, NEW S \in SUBSET (1 .. k)
    PROVE  Cardinality(S) = 0 <=> S = {}
  BY SubmittedFinite, FS_EmptySet

-----------------------------------------------------------------------------
(* The invariant is established and kept.                                  *)

\* The initial states satisfy the invariant.
LEMMA Initially == Init => IInv
  <1> SUFFICES ASSUME Init PROVE IInv
    OBVIOUS
  <1>1. Cardinality({}) = 0
    BY FS_EmptySet
  <1>2. TypeOK
    <2>1. 1 \in 1 .. MaxParallel /\ NeverLost \in 1 .. NeverLost
      BY SchedulerAssumption DEF NeverLost
    <2>2. lastAdmit \in -AdmitSpacing .. MaxTime
      BY SchedulerAssumption DEF Init
    <2>3. wpc \in [Items -> {"queued", "running", "backing_off", "ok", "fault"}]
      BY DEF Init
    <2>4. seen \in [Items -> 1 .. MaxParallel]
      BY <2>1 DEF Init
    <2>5. lost \in [Items -> 0 .. Repeats]
      BY SchedulerAssumption DEF Init
    <2>6. started \in 0 .. NItems /\ running \subseteq 1 .. started /\ peak \in 0 .. MaxParallel
      BY SchedulerAssumption DEF Init
    <2>7. now \in 0 .. MaxTime
      BY SchedulerAssumption DEF Init
    <2>8. level \in 1 .. MaxParallel /\ ceiling \in 1 .. MaxParallel
          /\ topLevel \in 1 .. MaxParallel /\ lossLevel \in 1 .. NeverLost
      BY SchedulerAssumption DEF Init, NeverLost
    <2>9. perCase \in [Resources -> Nat] /\ deadline \in Deadlines
      BY SchedulerAssumption DEF Init
    <2> QED
      BY <2>2, <2>3, <2>4, <2>5, <2>6, <2>7, <2>8, <2>9 DEF Init, TypeOK
  <1>3. Submitted /\ Tracked /\ Loop /\ Levels
    BY SchedulerAssumption, <1>1
    DEF Init, Submitted, Tracked, Loop, Levels, Items, InFlight, NeverLost, Larger
  <1> QED
    BY <1>2, <1>3 DEF IInv

\* Looking at the futures keeps the invariant.
LEMMA PollKeeps == IInv /\ Poll => IInv'
  <1> SUFFICES ASSUME IInv, Poll PROVE IInv'
    OBVIOUS
  <1> USE SchedulerAssumption
  <1> USE DEF IInv, Poll, StillRunning, Ended, dispatcherVars, governorVars, levelVars,
              probeVars, workerVars
  <1>1. running \in SUBSET (1 .. started) /\ running' \in SUBSET running /\ started \in Nat
    BY DEF TypeOK
  <1>2. Cardinality(running') <= Cardinality(running)
    BY <1>1, SubsetNotLarger
  <1>3. Cardinality(running) \in Nat /\ Cardinality(running') \in Nat
    BY <1>1, SubmittedFinite
  <1>4. TypeOK'
    BY DEF TypeOK
  <1>5. Submitted'
    BY DEF Submitted, Items
  <1>6. Tracked'
    <2>1. InFlight' \subseteq running'
      BY DEF Tracked, InFlight
    <2>2. Cardinality(running') <= peak'
      BY <1>2, <1>3 DEF Tracked, TypeOK
    <2> QED
      BY <2>1, <2>2 DEF Tracked
  <1>7. Loop'
    BY DEF Loop, TypeOK
  <1>8. Levels'
    BY DEF Levels, Items
  <1> QED
    BY <1>4, <1>5, <1>6, <1>7, <1>8

\* A probe, failed or not, keeps the invariant.
LEMMA ObserveKeeps == IInv /\ Observe => IInv'
  <1> SUFFICES ASSUME IInv, Observe PROVE IInv'
    OBVIOUS
  <1> USE SchedulerAssumption
  <1> USE DEF IInv, Observe, dispatcherVars, governorVars, levelVars, probeVars, workerVars
  <1>1. TypeOK'
    BY DEF TypeOK
  <1>2. Submitted' /\ Tracked'
    BY DEF Submitted, Tracked, InFlight
  <1>3. Loop'
    BY DEF Loop
  <1>4. Levels'
    BY DEF Levels
  <1> QED
    BY <1>1, <1>2, <1>3, <1>4

\* A fixed governor's answer keeps the invariant.
LEMMA AdmitFixedKeeps == IInv /\ AdmitFixed => IInv'
  <1> SUFFICES ASSUME IInv, AdmitFixed PROVE IInv'
    OBVIOUS
  <1> USE SchedulerAssumption
  <1> USE DEF IInv, AdmitFixed, Room, dispatcherVars, governorVars, levelVars, probeVars,
              workerVars
  <1>0. Cardinality(running) \in Nat
    <2>1. running \in SUBSET (1 .. started) /\ started \in Nat
      BY DEF TypeOK
    <2> QED
      BY <2>1, SubmittedFinite
  <1>1. TypeOK'
    BY DEF TypeOK
  <1>2. Submitted' /\ Tracked'
    BY DEF Submitted, Tracked, InFlight
  <1>3. Loop'
    <2>1. Cardinality({}) = 0
      BY FS_EmptySet
    <2>2. running = {} => dpc' = "start"
      BY <2>1
    <2> QED
      BY <2>2 DEF Loop, TypeOK
  <1>4. Levels'
    BY <1>0 DEF Levels, Loop, TypeOK, Larger
  <1> QED
    BY <1>1, <1>2, <1>3, <1>4

\* The footprint estimates stay natural numbers.
LEMMA LearnedType ==
    ASSUME TypeOK, latest \in Samples, baseline \in Samples, NEW n \in Nat \ {0}
    PROVE  Learned(n) \in [Resources -> Nat]
  <1>1. ASSUME NEW r \in Resources
        PROVE  Larger(perCase[r], (baseline.free[r] - latest.free[r]) \div n) \in Nat
    <2>1. baseline.free[r] \in Int /\ latest.free[r] \in Int /\ perCase[r] \in Nat
      BY <1>1, SchedulerAssumption DEF TypeOK
    <2>2. (baseline.free[r] - latest.free[r]) \div n \in Int
      BY <2>1
    <2> QED
      BY <2>1, <2>2 DEF Larger
  <1> QED
    BY <1>1 DEF Learned

\* The adaptive governor's answer, short of growth, keeps the invariant.
LEMMA AdmitAutoKeeps == IInv /\ AdmitAuto => IInv'
  <1> SUFFICES ASSUME IInv, AdmitAuto PROVE IInv'
    OBVIOUS
  <1> USE SchedulerAssumption
  <1> USE DEF IInv, dispatcherVars, governorVars, levelVars, probeVars, workerVars
  <1> DEFINE n == Cardinality(running)
  <1>1. running \in SUBSET (1 .. started) /\ started \in Nat
    BY DEF TypeOK
  <1>2. n \in Nat /\ (n = 0 <=> running = {})
    BY <1>1, SubmittedFinite, EmptyIffZero
  <1>3. perCase' \in [Resources -> Nat]
    <2>1. CASE Grounds(n) /\ n > 0 /\ perCase' = Learned(n)
      BY <2>1, <1>2, LearnedType DEF Grounds, TypeOK
    <2>2. CASE UNCHANGED perCase
      BY <2>2 DEF TypeOK
    <2> QED
      BY <2>1, <2>2 DEF AdmitAuto
  <1>4. TypeOK'
    BY <1>3 DEF TypeOK, AdmitAuto
  <1>5. Submitted' /\ Tracked'
    BY DEF Submitted, Tracked, InFlight, AdmitAuto
  <1>6. Loop'
    BY <1>2 DEF Loop, AdmitAuto, Grounds, TypeOK
  <1>7. Levels'
    BY <1>2 DEF Levels, AdmitAuto, TypeOK, Loop, Larger
  <1> QED
    BY <1>4, <1>5, <1>6, <1>7

\* The growth test and the store of the level keep the invariant.
LEMMA GrowKeeps == IInv /\ Grow => IInv'
  <1> SUFFICES ASSUME IInv, Grow PROVE IInv'
    OBVIOUS
  <1> USE SchedulerAssumption
  <1> USE DEF IInv, Grow, Grown, MayGrow, dispatcherVars, governorVars, levelVars,
              probeVars, workerVars
  <1> DEFINE n == Cardinality(running)
  <1>1. running \in SUBSET (1 .. started) /\ started \in Nat
    BY DEF TypeOK
  <1>2. n \in Nat /\ (n = 0 <=> running = {})
    BY <1>1, SubmittedFinite, EmptyIffZero
  <1>3. level' \in 1 .. MaxParallel /\ topLevel' \in 1 .. MaxParallel
    BY <1>2 DEF TypeOK, Larger
  <1>4. TypeOK'
    BY <1>3 DEF TypeOK
  <1>5. Submitted' /\ Tracked'
    BY DEF Submitted, Tracked, InFlight
  <1>6. Loop'
    BY <1>2 DEF Loop, TypeOK
  <1>7. Levels'
    <2>1. CASE dpc' = "wait" /\ UNCHANGED <<level, topLevel>>
      BY <2>1 DEF Levels, TypeOK
    <2>2. CASE MayGrow(n) /\ dpc' = "start" /\ level' = n + 1 /\ topLevel' = Larger(topLevel, n + 1)
      BY <2>2, <1>2 DEF Levels, TypeOK, Tracked, Larger, NeverLost
    <2> QED
      BY <2>1, <2>2
  <1> QED
    BY <1>4, <1>5, <1>6, <1>7

\* Starting the next item, or truncating the run, keeps the invariant.
LEMMA StartKeeps == IInv /\ Start => IInv'
  <1> SUFFICES ASSUME IInv, Start PROVE IInv'
    OBVIOUS
  <1> USE SchedulerAssumption
  <1> USE DEF IInv, Start, dispatcherVars, governorVars, levelVars, probeVars, workerVars
  <1>1. running \in SUBSET (1 .. started) /\ started \in Nat
    BY DEF TypeOK
  <1>2. Cardinality(running) \in Nat
    BY <1>1, SubmittedFinite
  <1>3. CASE truncated' = TRUE /\ UNCHANGED <<started, running, peak, wpc>>
    <2>1. TypeOK'
      BY <1>3 DEF TypeOK
    <2>2. Submitted' /\ Tracked'
      BY <1>3 DEF Submitted, Tracked, InFlight
    <2>3. Loop'
      BY <1>3 DEF Loop
    <2>4. Levels'
      BY <1>3 DEF Levels
    <2> QED
      BY <2>1, <2>2, <2>3, <2>4
  <1>4. CASE /\ started' = started + 1
             /\ running' = running \cup {started + 1}
             /\ peak' = Larger(peak, Cardinality(running'))
             /\ wpc' = [wpc EXCEPT ![started + 1] = "running"]
             /\ UNCHANGED truncated
    <2>1. started + 1 \in Items /\ started < NItems /\ ~truncated
      BY DEF Loop, TypeOK, Items
    <2>2. Cardinality(running') = Cardinality(running) + 1
      BY <1>1, <1>4, NextItemCounts
    <2>3. peak' \in 0 .. MaxParallel /\ Cardinality(running') <= peak'
      BY <1>2, <1>4, <2>2 DEF Loop, TypeOK, Larger
    <2>4. TypeOK'
      BY <1>4, <2>1, <2>3 DEF TypeOK
    <2>5. Submitted'
      BY <1>4, <2>1 DEF Submitted, TypeOK, Items
    <2>6. Tracked'
      BY <1>4, <2>1, <2>3 DEF Tracked, InFlight, TypeOK
    <2>7. Loop'
      BY <1>4, <2>1 DEF Loop, TypeOK
    <2>8. Levels'
      <3>1. peak' = Larger(peak, Cardinality(running) + 1) /\ peak \in 0 .. MaxParallel
        BY <1>4, <2>2 DEF TypeOK
      <3>2. peak <= peak' /\ peak' \in Nat
        BY <1>2, <3>1 DEF Larger
      <3>3. level <= Larger(1, peak') /\ level <= peak' + 1
        BY <3>1, <3>2 DEF Levels, TypeOK, Larger
      <3>4. \A i \in Items : seen[i] <= topLevel /\ seen[i] <= peak' + 1
        BY <3>1, <3>2 DEF Levels, TypeOK
      <3> QED
        BY <3>3, <3>4 DEF Levels
    <2> QED
      BY <2>4, <2>5, <2>6, <2>7, <2>8
  <1> QED
    BY <1>3, <1>4

\* Waiting, or leaving the loop, keeps the invariant.
LEMMA WaitKeeps == IInv /\ Wait => IInv'
  <1> SUFFICES ASSUME IInv, Wait PROVE IInv'
    OBVIOUS
  <1> USE SchedulerAssumption
  <1> USE DEF IInv, Wait, MayLeave, dispatcherVars, governorVars, levelVars, probeVars,
              workerVars
  <1>1. TypeOK'
    BY DEF TypeOK
  <1>2. Submitted' /\ Tracked'
    BY DEF Submitted, Tracked, InFlight
  <1>3. Loop'
    BY DEF Loop
  <1>4. Levels'
    BY DEF Levels
  <1> QED
    BY <1>1, <1>2, <1>3, <1>4

\* The first half of a back-off, at any point of the dispatcher, keeps the invariant.
LEMMA LoseGpuKeeps ==
    ASSUME IInv, NEW i \in Items, LoseGpu(i)
    PROVE  IInv'
  <1> USE SchedulerAssumption
  <1> USE DEF IInv, LoseGpu, dispatcherVars, governorVars, levelVars, probeVars, workerVars
  <1>1. TypeOK'
    BY DEF TypeOK
  <1>2. Submitted' /\ Tracked'
    BY DEF Submitted, Tracked, InFlight, TypeOK
  <1>3. Loop'
    BY DEF Loop, Tracked, InFlight, TypeOK, Items
  <1>4. Levels'
    BY DEF Levels, TypeOK
  <1> QED
    BY <1>1, <1>2, <1>3, <1>4

\* The stores of a back-off, at any point of the dispatcher, keep the invariant.
LEMMA BackOffKeeps ==
    ASSUME IInv, NEW i \in Items, BackOff(i)
    PROVE  IInv'
  <1> USE SchedulerAssumption
  <1> USE DEF IInv, BackOff, Lowered, CappedAt, dispatcherVars, governorVars, levelVars,
              probeVars, workerVars
  <1>1. seen[i] \in 1 .. MaxParallel /\ level' = Larger(1, seen[i] - 1) /\ ceiling' = level'
    BY DEF TypeOK
  <1>2. level' \in 1 .. MaxParallel /\ lossLevel' \in 1 .. MaxParallel
    BY <1>1 DEF TypeOK, Larger, Smaller, NeverLost
  <1>3. TypeOK'
    BY <1>1, <1>2 DEF TypeOK, NeverLost
  <1>4. Submitted' /\ Tracked'
    BY DEF Submitted, Tracked, InFlight, TypeOK
  <1>5. Loop'
    BY DEF Loop, Tracked, InFlight, TypeOK, Items
  <1>6. Levels'
    <2>1. seen[i] <= topLevel /\ seen[i] <= peak + 1
      BY DEF Levels
    <2>2. /\ topLevel \in 1 .. MaxParallel /\ peak \in 0 .. MaxParallel
          /\ topLevel' = topLevel /\ peak' = peak
          /\ \A j \in Items : seen'[j] = seen[j] \/ seen'[j] = 1
      BY DEF TypeOK
    <2>0. /\ running' = running /\ dpc' = dpc /\ Cardinality(running) \in Nat
      <3>1. running \in SUBSET (1 .. started) /\ started \in Nat
        BY DEF TypeOK
      <3> QED
        BY <3>1, SubmittedFinite
    <2>3. level' <= Larger(1, topLevel - 1) /\ level' <= Larger(1, peak) /\ level' <= peak + 1
      BY <1>1, <2>1, <2>2 DEF Larger
    <2>4. \A j \in Items : seen'[j] <= topLevel /\ seen'[j] <= peak + 1
      BY <2>2 DEF Levels
    <2> QED
      BY <1>1, <1>2, <2>0, <2>2, <2>3, <2>4 DEF Levels, Larger, Items
  <1> QED
    BY <1>3, <1>4, <1>5, <1>6

\* The end of an item keeps the invariant.
LEMMA EndKeeps ==
    ASSUME IInv, NEW i \in Items, End(i)
    PROVE  IInv'
  <1> USE SchedulerAssumption
  <1> USE DEF IInv, End, dispatcherVars, governorVars, levelVars, probeVars, workerVars
  <1>1. TypeOK'
    BY DEF TypeOK
  <1>2. Submitted' /\ Tracked'
    BY DEF Submitted, Tracked, InFlight, TypeOK
  <1>3. Loop'
    BY DEF Loop, Tracked, InFlight, TypeOK, Items
  <1>4. Levels'
    BY DEF Levels
  <1> QED
    BY <1>1, <1>2, <1>3, <1>4

\* Every step, and stuttering, keeps the invariant.
LEMMA StepKeeps == IInv /\ [Next]_vars => IInv'
  <1> SUFFICES ASSUME IInv, [Next]_vars PROVE IInv'
    OBVIOUS
  <1>1. CASE Dispatcher
    BY <1>1, PollKeeps, ObserveKeeps, AdmitFixedKeeps, AdmitAutoKeeps, GrowKeeps,
       StartKeeps, WaitKeeps DEF Dispatcher
  <1>2. CASE \E i \in Items : Worker(i)
    BY <1>2, LoseGpuKeeps, BackOffKeeps, EndKeeps DEF Worker
  <1>3. CASE Tick
    BY <1>3, SchedulerAssumption
    DEF IInv, TypeOK, Submitted, Tracked, Loop, Levels, InFlight, Tick, dispatcherVars,
        governorVars, levelVars, probeVars, workerVars
  <1>4. CASE UNCHANGED vars
    BY <1>4 DEF IInv, TypeOK, Submitted, Tracked, Loop, Levels, InFlight, vars,
        dispatcherVars, governorVars, levelVars, probeVars, workerVars
  <1> QED
    BY <1>1, <1>2, <1>3, <1>4 DEF Next, Terminated

\* The inductive invariant holds throughout.
LEMMA Invariance == Spec => []IInv
  BY Initially, StepKeeps, PTL DEF Spec

-----------------------------------------------------------------------------
(* What follows from it.                                                   *)

\* The variables keep their types, for every number of cases and threads.
THEOREM TypeCorrect == Spec => []TypeOK
  <1>1. IInv => TypeOK
    BY DEF IInv
  <1> QED
    BY <1>1, Invariance, PTL

\* scheduler.py's promise "never oversubscribed": no more cases at work than the
\* peak it reports, and no more than max_parallel.
THEOREM NeverOversubscribed == Spec => []InFlightWithinPeak
  <1>1. IInv => InFlightWithinPeak
    <2> SUFFICES ASSUME IInv PROVE InFlightWithinPeak
      OBVIOUS
    <2>1. /\ running \in SUBSET (1 .. started) /\ started \in Nat
          /\ InFlight \in SUBSET running /\ peak \in 0 .. MaxParallel
          /\ Cardinality(running) <= peak
      BY SchedulerAssumption DEF IInv, TypeOK, Tracked
    <2>2. Cardinality(InFlight) <= Cardinality(running)
      BY <2>1, SubsetNotLarger
    <2>3. InFlight \in SUBSET (1 .. started)
      BY <2>1
    <2>4. Cardinality(InFlight) \in Nat /\ Cardinality(running) \in Nat
      BY <2>1, <2>3, SubmittedFinite
    <2> QED
      BY <2>1, <2>2, <2>4, SchedulerAssumption DEF InFlightWithinPeak
  <1> QED
    BY <1>1, Invariance, PTL

\* However growth and back-offs interleave, the level stays under the ceiling.
THEOREM LevelStaysWithinCeiling == Spec => []LevelWithinCeiling
  <1>1. IInv => LevelWithinCeiling
    BY DEF IInv, Levels, LevelWithinCeiling
  <1> QED
    BY <1>1, Invariance, PTL

\* Refills only ever go up to a level that was in flight before.
THEOREM RefillsAreProven == Spec => []LevelWasReached
  <1>1. IInv => LevelWasReached
    BY DEF IInv, Levels, LevelWasReached
  <1> QED
    BY <1>1, Invariance, PTL

\* After a lost GPU the highest level is out of reach for the rest of the run.
THEOREM TopLevelStaysLost == Spec => []TopLevelLostForGood
  <1>1. IInv => TopLevelLostForGood
    BY SchedulerAssumption DEF IInv, TypeOK, Levels, TopLevelLostForGood, Larger
  <1> QED
    BY <1>1, Invariance, PTL

\* Without evidence a case only starts alone, whatever the probe does meanwhile.
THEOREM BlindStartsAlone == Spec => BlindMeansSerial
  <1>1. IInv /\ [Next]_vars =>
          [mode = "auto" /\ blind /\ started' > started => InFlight' = {started'}]_vars
    <2> SUFFICES ASSUME IInv, [Next]_vars, mode = "auto", blind, started' > started
                 PROVE  InFlight' = {started'}
      OBVIOUS
    <2> USE SchedulerAssumption
    <2>1. CASE Start
      <3>1. started \in Nat /\ started' = started + 1 /\ started' \in Items /\ running = {}
        BY <2>1 DEF Start, IInv, TypeOK, Loop, Items
      <3>2. wpc' = [wpc EXCEPT ![started + 1] = "running"]
        BY <2>1, <3>1 DEF Start, IInv, TypeOK
      <3>3. InFlight = {}
        BY <3>1 DEF IInv, Tracked
      <3> QED
        BY <3>1, <3>2, <3>3 DEF InFlight, IInv, TypeOK
    <2>2. CASE ~Start
      <3>1. started' = started
        BY <2>2 DEF Next, Dispatcher, Poll, Observe, AdmitFixed, AdmitAuto, Grow, Wait,
           Worker, LoseGpu, BackOff, End, Tick, Terminated, vars, dispatcherVars
      <3> QED
        BY <3>1 DEF IInv, TypeOK
    <2> QED
      BY <2>1, <2>2
  <1> QED
    BY <1>1, Invariance, PTL DEF Spec, BlindMeansSerial

-----------------------------------------------------------------------------
(* The scheduler implements Dispatch: its steps are Dispatch's, or stutter. *)

\* The items Dispatch holds in flight are those a worker is at.
LEMMA SameInFlight == IInv => D!InFlight = InFlight
  BY SchedulerAssumption DEF IInv, TypeOK, Submitted, D!InFlight, InFlight, Items

\* Dispatch counts with the same Cardinality.
LEMMA SameCardinality ==
    ASSUME NEW S
    PROVE  D!Cardinality(S) = Cardinality(S)
  BY Zenon DEF D!Cardinality, Cardinality, D!IsFiniteSet, IsFiniteSet

\* What Dispatch sees of the workers.
Results == [i \in Items |-> IF wpc[i] \in {"ok", "fault"} THEN wpc[i] ELSE "none"]

\* Every step of the scheduler is a step of Dispatch, or leaves what it sees alone.
LEMMA StepImplements == IInv /\ [Next]_vars => [D!Next]_(D!vars)
  <1> SUFFICES ASSUME IInv, [Next]_vars PROVE [D!Next]_(D!vars)
    OBVIOUS
  <1> USE SchedulerAssumption
  <1>1. CASE Poll \/ Observe \/ AdmitFixed \/ AdmitAuto \/ Grow \/ Tick \/ UNCHANGED vars
    <2>1. UNCHANGED <<started, wpc, truncated>>
      BY <1>1 DEF Poll, Observe, AdmitFixed, AdmitAuto, Grow, Tick, vars, workerVars,
         dispatcherVars
    <2>2. (dpc' = dpc) \/ (dpc' \notin {"returned", "raised"} /\ dpc \notin {"returned", "raised"})
      BY <1>1 DEF Poll, Observe, AdmitFixed, AdmitAuto, Grow, Tick, vars, dispatcherVars
    <2> QED
      BY <2>1, <2>2 DEF D!vars
  <1>2. CASE Start
    <2>1. CASE UNCHANGED <<started, wpc>>
      BY <1>2, <2>1 DEF Start, D!vars
    <2>2. CASE started' = started + 1 /\ wpc' = [wpc EXCEPT ![started + 1] = "running"]
      <3>1. started < NItems /\ started \in Nat /\ started + 1 \in Items
        BY <1>2 DEF Start, IInv, TypeOK, Loop, Items
      <3>2. Cardinality(D!InFlight) < MaxParallel
        <4>1. /\ running \in SUBSET (1 .. started) /\ InFlight \in SUBSET running
              /\ Cardinality(running) < MaxParallel
          BY <1>2, <3>1 DEF Start, IInv, TypeOK, Tracked, Loop
        <4>2. Cardinality(InFlight) <= Cardinality(running)
          BY <3>1, <4>1, SubsetNotLarger
        <4>3. Cardinality(InFlight) \in Nat /\ Cardinality(running) \in Nat
          BY <3>1, <4>1, SubmittedFinite
        <4> QED
          BY <4>1, <4>2, <4>3, SameInFlight
      <3>3. dpc = "start" /\ dpc' = "poll"
        BY <1>2 DEF Start
      <3>4. wpc[started + 1] = "queued"
        BY <3>1 DEF IInv, Submitted
      <3>5. Results' = Results
        <4>1. \A i \in Items : wpc'[i] = wpc[i] \/ {wpc[i], wpc'[i]} \subseteq {"queued", "running"}
          BY <2>2, <3>1, <3>4 DEF IInv, TypeOK
        <4> QED
          BY <4>1 DEF Results
      <3>6. D!Start
        BY <2>2, <3>1, <3>2, <3>3, <3>5, SameCardinality DEF D!Start, Results
      <3> QED
        BY <3>6 DEF D!Next
    <2> QED
      BY <1>2, <2>1, <2>2 DEF Start
  <1>3. CASE Wait
    <2>1. CASE running # {}
      BY <1>3, <2>1 DEF Wait, MayLeave, D!vars, workerVars
    <2>2. CASE running = {}
      <3>1. dpc = "wait" /\ dpc' = (IF \E i \in 1 .. started : wpc[i] = "fault"
                                    THEN "raised" ELSE "returned")
        BY <1>3, <2>2 DEF Wait, MayLeave
      <3>2. UNCHANGED <<started, truncated, wpc>>
        BY <1>3 DEF Wait, workerVars
      <3>3. D!InFlight = {}
        BY <2>2, SameInFlight DEF IInv, Tracked
      <3>4. IF truncated THEN started < NItems ELSE started = NItems
        BY <2>2, <3>1 DEF IInv, Loop
      <3>5. started \in 0 .. NItems
        BY DEF IInv, TypeOK
      <3>6. (\E i \in 1 .. started : Results[i] = "fault")
              <=> \E i \in 1 .. started : wpc[i] = "fault"
        <4>1. \A i \in Items : Results[i] = "fault" <=> wpc[i] = "fault"
          BY DEF Results
        <4> QED
          BY <3>5, <4>1 DEF Items
      <3>7. Results' = Results
        BY <3>2 DEF Results
      <3>8. D!Return
        BY <3>1, <3>2, <3>3, <3>4, <3>6, <3>7 DEF D!Return, Results
      <3> QED
        BY <3>8 DEF D!Next
    <2> QED
      BY <2>1, <2>2
  <1>4. ASSUME NEW i \in Items, LoseGpu(i) \/ BackOff(i)
        PROVE  UNCHANGED D!vars
    <2>1. /\ UNCHANGED <<started, truncated, dpc>>
          /\ \A j \in Items : wpc'[j] = wpc[j]
               \/ {wpc[j], wpc'[j]} \subseteq {"running", "backing_off"}
      BY <1>4 DEF LoseGpu, BackOff, dispatcherVars, IInv, TypeOK
    <2> QED
      BY <2>1 DEF D!vars
  <1>5. ASSUME NEW i \in Items, End(i)
        PROVE  D!End(i)
    <2>1. UNCHANGED <<started, truncated, dpc>>
      BY <1>5 DEF End, dispatcherVars
    <2>2. PICK r \in {"ok", "fault"} : wpc' = [wpc EXCEPT ![i] = r]
      BY <1>5 DEF End
    <2>3. i \in D!InFlight /\ wpc \in [Items -> {"queued", "running", "backing_off", "ok", "fault"}]
      BY <1>5, SameInFlight DEF End, InFlight, IInv, TypeOK
    <2>4. dpc \notin {"returned", "raised"}
      BY <2>3, SameInFlight DEF IInv, Loop, Tracked
    <2> QED
      BY <2>1, <2>2, <2>3, <2>4 DEF D!End
  <1>6. CASE \E i \in Items : Worker(i)
    BY <1>4, <1>5, <1>6 DEF Worker, D!Next, D!Items, Items
  <1> QED
    BY <1>1, <1>2, <1>3, <1>6 DEF Next, Dispatcher, Terminated

\* The safety half of ImplementsDispatch: a prefix in array order, never more than
\* max_parallel at once, and no return before every started case has ended.
THEOREM DispatchSafety == Spec => D!Init /\ [][D!Next]_(D!vars)
  <1>1. Init => D!Init
    BY SchedulerAssumption DEF Init, D!Init, D!Items, Items
  <1> QED
    BY <1>1, StepImplements, Invariance, PTL DEF Spec
=============================================================================
