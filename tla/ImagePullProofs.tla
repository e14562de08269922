--------------------------- MODULE ImagePullProofs ---------------------------
(* What ImagePull.tla promises, for any number of calls, events and faults, *)
(* and for any window, interval and turn.                                   *)
EXTENDS ImagePull, TLAPS

USE ImagePullAssumption

\* Where a call and its thread can be, and what a stream that has ended left behind.
Pulling ==
    \A c \in Calls :
        /\ caller[c] = "look" => drain[c] = "none" /\ result[c] = "none"
        /\ caller[c] \in Watching => drain[c] # "none" /\ result[c] = "none"
        /\ drain[c] = "stamping" => events[c] < MaxEvents
        /\ drain[c] \in {"none", "reading", "stamping", "except"} => box[c] = FALSE
        /\ drain[c] \in {"finally", "over"} /\ box[c] = FALSE => present = TRUE \/ told[c] = TRUE
        /\ result[c] = "pulled" => drain[c] = "over" /\ box[c] = FALSE

\* The stored time is that of the last event, but while one is being stored; and how old
\* it may be at each step of a caller, who looks at it once in an interval.
Timed ==
    \A c \in Calls :
        /\ silent[c] <= at[c]
        /\ drain[c] # "stamping" => at[c] = silent[c]
        /\ caller[c] = "wait" => turn[c] <= Poll /\ at[c] <= StallAfter + Turn + turn[c]
        /\ caller[c] = "expired" =>
             turn[c] <= Turn /\ at[c] <= StallAfter + Turn + Poll + turn[c]
        /\ caller[c] = "compare" =>
             turn[c] <= Turn /\ at[c] <= StallAfter + Turn + Poll + Turn + turn[c]

IInv == TypeOK /\ Pulling /\ Timed

USE DEF vars, callerVars, drainVars, Fault, NoFault, Goto, Return, Watching

-----------------------------------------------------------------------------
(* Every action keeps IInv.                                                *)

\* The call looks for its image.
LEMMA LookKeeps == ASSUME IInv, NEW c \in Calls, Look(c) PROVE IInv'
<1>1. TypeOK'
  BY DEF IInv, TypeOK, Pulling, Look
<1>2. Pulling'
  BY DEF IInv, TypeOK, Pulling, Look
<1>3. Timed'
  BY DEF IInv, TypeOK, Pulling, Timed, Look
<1> QED
  BY <1>1, <1>2, <1>3 DEF IInv

\* It is woken.
LEMMA WakeKeeps == ASSUME IInv, NEW c \in Calls, Wake(c) PROVE IInv'
<1>1. TypeOK'
  BY DEF IInv, TypeOK, Pulling, Wake, Finished
<1>2. Pulling'
  BY DEF IInv, TypeOK, Pulling, Wake, Finished
<1>3. Timed'
  BY DEF IInv, TypeOK, Pulling, Timed, Wake, Finished
<1> QED
  BY <1>1, <1>2, <1>3 DEF IInv

\* Its interval is over.
LEMMA ExpireKeeps == ASSUME IInv, NEW c \in Calls, Expire(c) PROVE IInv'
<1>1. TypeOK'
  BY DEF IInv, TypeOK, Pulling, Expire, Finished
<1>2. Pulling'
  BY DEF IInv, TypeOK, Pulling, Expire, Finished
<1>3. Timed'
  BY DEF IInv, TypeOK, Pulling, Timed, Expire, Finished
<1> QED
  BY <1>1, <1>2, <1>3 DEF IInv

\* It reads the clock.
LEMMA ReadClockKeeps == ASSUME IInv, NEW c \in Calls, ReadClock(c) PROVE IInv'
<1>1. TypeOK'
  BY DEF IInv, TypeOK, Pulling, ReadClock
<1>2. Pulling'
  BY DEF IInv, TypeOK, Pulling, ReadClock
<1>3. Timed'
  BY DEF IInv, TypeOK, Pulling, Timed, ReadClock
<1> QED
  BY <1>1, <1>2, <1>3 DEF IInv

\* It gives the pull up, or waits again.
LEMMA CompareKeeps == ASSUME IInv, NEW c \in Calls, Compare(c) PROVE IInv'
<1>1. TypeOK'
  BY DEF IInv, TypeOK, Pulling, Compare, Elapsed
<1>2. Pulling'
  BY DEF IInv, TypeOK, Pulling, Compare, Elapsed
<1>3. Timed'
  BY DEF IInv, TypeOK, Pulling, Timed, Compare, Elapsed
<1> QED
  BY <1>1, <1>2, <1>3 DEF IInv

\* It starts its container.
LEMMA RunKeeps == ASSUME IInv, NEW c \in Calls, Run(c) PROVE IInv'
<1>1. TypeOK'
  BY DEF IInv, TypeOK, Pulling, Run
<1>2. Pulling'
  BY DEF IInv, TypeOK, Pulling, Run
<1>3. Timed'
  BY DEF IInv, TypeOK, Pulling, Timed, Run
<1> QED
  BY <1>1, <1>2, <1>3 DEF IInv

\* The pull of containers.run ends.
LEMMA ImplicitPullEndsKeeps == ASSUME IInv, NEW c \in Calls, ImplicitPullEnds(c) PROVE IInv'
<1>1. TypeOK'
  <2>1. present' \in BOOLEAN
    BY Zenon DEF IInv, TypeOK, ImplicitPullEnds
  <2>2. faults' \in 0 .. MaxFaults
    BY DEF IInv, TypeOK, ImplicitPullEnds
  <2> QED
    BY <2>1, <2>2 DEF IInv, TypeOK, ImplicitPullEnds
<1>2. Pulling'
  BY DEF IInv, TypeOK, Pulling, ImplicitPullEnds
<1>3. Timed'
  BY DEF IInv, TypeOK, Pulling, Timed, ImplicitPullEnds
<1> QED
  BY <1>1, <1>2, <1>3 DEF IInv

\* The thread reads an event.
LEMMA EventKeeps == ASSUME IInv, NEW c \in Calls, Event(c) PROVE IInv'
<1>1. TypeOK'
  <2>1. told' \in [Calls -> BOOLEAN]
    BY Zenon DEF IInv, TypeOK, Event
  <2>2. faults' \in 0 .. MaxFaults
    BY DEF IInv, TypeOK, Event
  <2> QED
    BY <2>1, <2>2 DEF IInv, TypeOK, Event
<1>2. Pulling'
  BY DEF IInv, TypeOK, Pulling, Event
<1>3. Timed'
  BY DEF IInv, TypeOK, Pulling, Timed, Event
<1> QED
  BY <1>1, <1>2, <1>3 DEF IInv

\* It stores the time.
LEMMA StampKeeps == ASSUME IInv, NEW c \in Calls, Stamp(c) PROVE IInv'
<1>1. TypeOK'
  BY DEF IInv, TypeOK, Pulling, Stamp, Stamped
<1>2. Pulling'
  BY DEF IInv, TypeOK, Pulling, Stamp, Stamped
<1>3. Timed'
  BY DEF IInv, TypeOK, Pulling, Timed, Stamp, Stamped
<1> QED
  BY <1>1, <1>2, <1>3 DEF IInv

\* The stream ends.
LEMMA StreamEndsKeeps == ASSUME IInv, NEW c \in Calls, StreamEnds(c) PROVE IInv'
<1>1. TypeOK'
  <2>1. present' \in BOOLEAN
    BY Zenon DEF IInv, TypeOK, StreamEnds
  <2>2. faults' \in 0 .. MaxFaults
    BY DEF IInv, TypeOK, StreamEnds
  <2> QED
    BY <2>1, <2>2 DEF IInv, TypeOK, StreamEnds
<1>2. Pulling'
  BY DEF IInv, TypeOK, Pulling, StreamEnds
<1>3. Timed'
  BY DEF IInv, TypeOK, Pulling, Timed, StreamEnds
<1> QED
  BY <1>1, <1>2, <1>3 DEF IInv

\* The thread stores the exception.
LEMMA StoreKeeps == ASSUME IInv, NEW c \in Calls, Store(c) PROVE IInv'
<1>1. TypeOK'
  BY DEF IInv, TypeOK, Pulling, Store
<1>2. Pulling'
  BY DEF IInv, TypeOK, Pulling, Store
<1>3. Timed'
  BY DEF IInv, TypeOK, Pulling, Timed, Store
<1> QED
  BY <1>1, <1>2, <1>3 DEF IInv

\* It sets the event.
LEMMA FinishKeeps == ASSUME IInv, NEW c \in Calls, Finish(c) PROVE IInv'
<1>1. TypeOK'
  BY DEF IInv, TypeOK, Pulling, Finish
<1>2. Pulling'
  BY DEF IInv, TypeOK, Pulling, Finish
<1>3. Timed'
  BY DEF IInv, TypeOK, Pulling, Timed, Finish
<1> QED
  BY <1>1, <1>2, <1>3 DEF IInv

\* Time passes, and held back by who has a step to take.
LEMMA TickKeeps == ASSUME IInv, Tick PROVE IInv'
<1>1. \A n \in Nat : Aged(n) \in Nat /\ Aged(n) <= n + 1
  BY DEF Aged, Patience
<1>2. \A n, m \in Nat : n <= m => Aged(n) <= Aged(m)
  BY DEF Aged, Patience
<1>3. TypeOK'
  BY <1>1 DEF IInv, TypeOK, Tick, Older
<1>4. Pulling'
  BY DEF IInv, TypeOK, Pulling, Tick
<1>5. Timed'
  <2> SUFFICES ASSUME NEW c \in Calls PROVE Timed!(c)'
    BY DEF Timed
  <2>1. turn[c] \in Nat /\ at[c] \in Nat /\ silent[c] \in Nat
    BY DEF IInv, TypeOK
  <2>2. UNCHANGED <<caller, drain>>
    BY DEF Tick
  <2>3. CASE caller[c] \in {"wait", "expired", "compare"}
    <3>1. turn'[c] = Aged(turn[c]) /\ at'[c] = Aged(at[c]) /\ silent'[c] = Aged(silent[c])
      BY <2>3 DEF Tick, Older
    <3>2. InTime(c)
      BY DEF Tick
    <3>3. turn[c] <= Patience
      BY <2>1, <2>3, <3>2 DEF InTime, Patience
    <3>4. turn'[c] = turn[c] + 1
      BY <3>1, <3>3 DEF Aged
    <3>5. at'[c] \in Nat /\ at'[c] <= at[c] + 1 /\ silent'[c] <= at'[c]
      BY <1>1, <1>2, <2>1, <3>1 DEF IInv, Timed
    <3>6. drain[c] # "stamping" => at'[c] = silent'[c]
      BY <3>1 DEF IInv, Timed
    <3> QED
      BY <2>1, <2>2, <3>2, <3>4, <3>5, <3>6 DEF IInv, Timed, InTime
  <2>4. CASE caller[c] \notin {"wait", "expired", "compare"}
    BY <2>1, <2>2, <2>4 DEF IInv, TypeOK, Timed, Tick, Older
  <2> QED
    BY <2>3, <2>4
<1> QED
  BY <1>3, <1>4, <1>5 DEF IInv

LEMMA InitKeeps == ASSUME Init PROVE IInv
  BY DEF Init, IInv, TypeOK, Pulling, Timed

LEMMA NextKeeps == ASSUME IInv, [Next]_vars PROVE IInv'
<1>1. CASE \E c \in Calls : Caller(c)
  BY <1>1, LookKeeps, WakeKeeps, ExpireKeeps, ReadClockKeeps, CompareKeeps, RunKeeps DEF Caller
<1>2. CASE \E c \in Calls : Drain(c)
  BY <1>2, StampKeeps, StoreKeeps, FinishKeeps DEF Drain
<1>3. CASE \E c \in Calls : Daemon(c)
  BY <1>3, EventKeeps, StreamEndsKeeps, ImplicitPullEndsKeeps DEF Daemon
<1>4. CASE Tick
  BY <1>4, TickKeeps
<1>5. CASE Done \/ UNCHANGED vars
  BY <1>5 DEF Done, IInv, TypeOK, Pulling, Timed
<1> QED
  BY <1>1, <1>2, <1>3, <1>4, <1>5 DEF Next

-----------------------------------------------------------------------------
(* The theorems.                                                           *)

\* IInv holds in every state of every run.
THEOREM Inductive == Spec => []IInv
<1>1. Init => IInv
  BY InitKeeps
<1>2. IInv /\ [Next]_vars => IInv'
  BY NextKeeps
<1> QED
  BY <1>1, <1>2, PTL DEF Spec

\* The variables have their types.
THEOREM TypeCorrect == Spec => []TypeOK
<1>1. IInv => TypeOK
  BY DEF IInv
<1> QED
  BY <1>1, Inductive, PTL

\* "pulled" is only said of a pull that ended without raising: the error is stored before
\* the event is set, whoever runs in between.
THEOREM PullsAreBacked == Spec => []PulledIsBacked
<1>1. IInv => PulledIsBacked
  BY DEF IInv, TypeOK, Pulling, PulledIsBacked
<1> QED
  BY <1>1, Inductive, PTL

\* A silent pull is watched for the window, an interval and three turns at most.
THEOREM SilenceIsGivenUp == Spec => []GivenUpInTime
<1>1. IInv => GivenUpInTime
  BY DEF IInv, TypeOK, Timed, GivenUpInTime, Patience
<1> QED
  BY <1>1, Inductive, PTL

\* A pull that is given up was silent for the whole window, but for an event whose time
\* is just being stored: the clock is read before the time of the last progress, so that
\* what the other thread does in between can only make the difference smaller.
THEOREM StallsAreSilence == Spec => StallIsSilence
<1> DEFINE Stalls ==
      \A c \in Calls : result'[c] = "stalled" /\ result[c] # "stalled" =>
        silent[c] >= StallAfter \/ drain[c] = "stamping"
<1>1. IInv /\ [Next]_vars => [Stalls]_vars
  <2> SUFFICES ASSUME IInv, [Next]_vars, NEW c \in Calls,
                      result'[c] = "stalled", result[c] # "stalled"
               PROVE  silent[c] >= StallAfter \/ drain[c] = "stamping"
    BY Zenon
  <2>1. Compare(c)
    BY DEF IInv, TypeOK, Next, Caller, Drain, Daemon, Look, Wake, Expire, ReadClock, Compare, Run,
           ImplicitPullEnds, Event, Stamp, StreamEnds, Store, Finish, Tick, Done
  <2>2. Elapsed(c) >= StallAfter
    BY <2>1 DEF Compare
  <2> QED
    BY <2>1, <2>2 DEF IInv, TypeOK, Timed, Elapsed
<1> QED
  BY <1>1, Inductive, PTL DEF Spec, StallIsSilence

-----------------------------------------------------------------------------
(* When containers.run() pulls, unwatched, what the gate has let through.  *)

\* The gate lets a call through with its image, or with a pull that was told of an error.
LetThrough ==
    \A c \in Calls :
        /\ result[c] = "present" => present = TRUE
        /\ caller[c] \in {"run", "implicit_pull"} => result[c] \in {"present", "pulled"}
        /\ caller[c] = "implicit_pull" => result[c] = "pulled" /\ told[c] = TRUE
        /\ told[c] = TRUE => faults > 0

\* The unbounded pull that the gate is there to avoid (NoImplicitPull) is only ever made by
\* a call that has just pulled, in whose stream the daemon had reported an error: without
\* a fault never, and never after a pull that stalled or raised.
OnlyToldPullsRunWild ==
    \A c \in Calls : caller[c] = "implicit_pull" =>
        /\ result[c] = "pulled" /\ drain[c] = "over" /\ ~box[c]
        /\ told[c] /\ faults > 0

\* The other calls' steps, and time, take no image away.
LEMMA LetThroughKept == ASSUME IInv, LetThrough, [Next]_vars PROVE LetThrough'
<1>0. /\ present \in BOOLEAN /\ faults \in Nat
      /\ caller \in [Calls -> {"look", "run", "implicit_pull", "over"} \cup Watching]
      /\ result \in [Calls -> {"none", "present", "pulled", "stalled", "error"}]
      /\ told \in [Calls -> BOOLEAN]
  BY DEF IInv, TypeOK
<1>1. CASE Tick \/ Done \/ UNCHANGED vars
  BY <1>1 DEF LetThrough, Tick, Done
<1>2. ASSUME NEW c \in Calls, Look(c) \/ Expire(c) \/ ReadClock(c) \/ Compare(c)
      PROVE  LetThrough'
  BY <1>0, <1>2 DEF LetThrough, Look, Expire, ReadClock, Compare
<1>3. ASSUME NEW c \in Calls, Wake(c) PROVE LetThrough'
  BY <1>0, <1>3 DEF LetThrough, Wake
<1>4. ASSUME NEW c \in Calls, Run(c) PROVE LetThrough'
  <2>1. result[c] = "pulled" /\ present # TRUE => told[c] = TRUE
    BY <1>4 DEF IInv, Pulling
  <2> QED
    BY <1>0, <1>4, <2>1 DEF LetThrough, Run
<1>5. ASSUME NEW c \in Calls, ImplicitPullEnds(c) PROVE LetThrough'
  BY <1>0, <1>5 DEF LetThrough, ImplicitPullEnds
<1>6. ASSUME NEW c \in Calls, Event(c) PROVE LetThrough'
  BY <1>0, <1>6 DEF LetThrough, Event
<1>7. ASSUME NEW c \in Calls, Drain(c) PROVE LetThrough'
  BY <1>0, <1>7 DEF LetThrough, Drain, Stamp, Store, Finish
<1>8. ASSUME NEW c \in Calls, StreamEnds(c) PROVE LetThrough'
  BY <1>0, <1>8 DEF LetThrough, StreamEnds
<1> QED
  BY <1>1, <1>2, <1>3, <1>4, <1>5, <1>6, <1>7, <1>8 DEF Next, Caller, Daemon

\* For any number of calls: an image that is absent at containers.run() was lost to an
\* error that the stream reported as one of its events.
THEOREM WildPullsWereTold == Spec => []OnlyToldPullsRunWild
<1>1. Init => LetThrough
  BY DEF Init, LetThrough
<1>2. IInv /\ LetThrough /\ [Next]_vars => LetThrough'
  BY LetThroughKept
<1>3. IInv /\ LetThrough => OnlyToldPullsRunWild
  BY DEF IInv, TypeOK, Pulling, LetThrough, OnlyToldPullsRunWild
<1> QED
  BY <1>1, <1>2, <1>3, Inductive, PTL DEF Spec
=============================================================================
