----------------------------- MODULE ImagePull -----------------------------
(***************************************************************************)
(* The image gate of execution.py: calls of _ensure_image_present() for    *)
(* one image, each by a case worker of some process, with the daemon they  *)
(* share.  An absent image is pulled by a thread of its own (_drain),      *)
(* which the caller watches: a pull without progress is given up, and its  *)
(* thread, which nothing can cancel, goes on behind the caller's back.     *)
(* Then the caller starts its container (run_sim_case).                    *)
(*                                                                         *)
(* Time is kept as ages, in units of a part of the poll interval.          *)
(***************************************************************************)
EXTENDS Integers

CONSTANTS
    Calls,      \* calls of _ensure_image_present
    StallAfter, \* stall_timeout_s
    Poll,       \* poll_interval_s
    Turn,       \* the longest a caller takes from one of its steps to the next
    MaxEvents,  \* bound: progress events of one pull
    MaxFaults   \* bound: faults of the daemon or the registry

ASSUME ImagePullAssumption ==
    /\ StallAfter \in Nat /\ Poll \in Nat /\ Turn \in Nat
    /\ MaxEvents \in Nat /\ MaxFaults \in Nat

VARIABLES
    present,    \* the image is in the daemon's store
    caller,     \* per call: the caller's next step
    result,     \* per call: what it returned or raised, or "none"
    turn,       \* per call: how long the caller has been at this step
    drain,      \* per call: where its _drain thread is, "none" without a pull
    box,        \* per call: "error" in box
    at,         \* per call: the age of progress["at"]
    silent,     \* per call: the age of the daemon's last event, or of the pull's start
    events,     \* per call: progress["events"]
    told,       \* per call: the daemon reported an error as an event of the stream
    faults

callerVars == <<caller, result, turn>>
drainVars == <<drain, box, at, silent, events, told>>
vars == <<present, callerVars, drainVars, faults>>

Watching == {"wait", "expired", "compare"}

Init ==
    /\ present \in BOOLEAN
    /\ caller = [c \in Calls |-> "look"]
    /\ result = [c \in Calls |-> "none"]
    /\ turn = [c \in Calls |-> 0]
    /\ drain = [c \in Calls |-> "none"]
    /\ box = [c \in Calls |-> FALSE]
    /\ at = [c \in Calls |-> 0]
    /\ silent = [c \in Calls |-> 0]
    /\ events = [c \in Calls |-> 0]
    /\ told = [c \in Calls |-> FALSE]
    /\ faults = 0

Fault == faults < MaxFaults /\ faults' = faults + 1
NoFault == UNCHANGED faults

Goto(c, step) == caller' = [caller EXCEPT ![c] = step] /\ turn' = [turn EXCEPT ![c] = 0]
Return(c, r, step) == result' = [result EXCEPT ![c] = r] /\ Goto(c, step)

-----------------------------------------------------------------------------
(* The caller                                                              *)

\* images.get(): there, or not, or a fault that is not read as absence.  An absent
\* image is pulled by a new thread.
Look(c) ==
    /\ caller[c] = "look"
    /\ \/ present /\ Return(c, "present", "run") /\ UNCHANGED drainVars /\ NoFault
       \/ /\ ~present
          /\ drain' = [drain EXCEPT ![c] = "reading"]
          /\ at' = [at EXCEPT ![c] = 0]
          /\ silent' = [silent EXCEPT ![c] = 0]
          /\ Goto(c, "wait")
          /\ UNCHANGED <<result, box, events, told>> /\ NoFault
       \/ Fault /\ Return(c, "error", "over") /\ UNCHANGED drainVars
    /\ UNCHANGED present

\* The event the caller waits for.  (Bug variant: set as soon as the stream has ended,
\* before an error is stored.)
FinishedBeforeStored(c) == drain[c] \in {"except", "finally", "over"}
Finished(c) == drain[c] = "over"

\* finished.wait() is answered: the stored error is raised, or the pull is done.
Wake(c) ==
    /\ caller[c] = "wait" /\ Finished(c)
    /\ IF box[c] THEN Return(c, "error", "over") ELSE Return(c, "pulled", "run")
    /\ UNCHANGED <<present, drainVars>> /\ NoFault

\* It is not, for the whole interval.
Expire(c) ==
    /\ caller[c] = "wait" /\ ~Finished(c)
    /\ turn[c] >= Poll
    /\ Goto(c, "expired")
    /\ UNCHANGED <<present, result, drainVars>> /\ NoFault

\* time.monotonic() is called before progress["at"] is read.
ReadClock(c) ==
    /\ caller[c] = "expired"
    /\ Goto(c, "compare")
    /\ UNCHANGED <<present, result, drainVars>> /\ NoFault

\* The time from the last progress to the clock's reading.  (Bug variant: an interval
\* that could not be over.)
NeverLong(c) == 0
Elapsed(c) == at[c] - turn[c]

\* A pull without progress is given up; its thread goes on.
Compare(c) ==
    /\ caller[c] = "compare"
    /\ \/ Elapsed(c) >= StallAfter /\ Return(c, "stalled", "over")
       \/ Elapsed(c) < StallAfter /\ Goto(c, "wait") /\ UNCHANGED result
    /\ UNCHANGED <<present, drainVars>> /\ NoFault

\* containers.run(): with an image, the container starts.  Without one, docker-py pulls
\* it first, and nothing watches that pull.
Run(c) ==
    /\ caller[c] = "run"
    /\ Goto(c, IF present THEN "over" ELSE "implicit_pull")
    /\ UNCHANGED <<present, result, drainVars>> /\ NoFault

ImplicitPullEnds(c) ==
    /\ caller[c] = "implicit_pull"
    /\ \/ present' = TRUE /\ NoFault
       \/ UNCHANGED present /\ Fault
    /\ Goto(c, "over")
    /\ UNCHANGED <<result, drainVars>>

Caller(c) ==
    Look(c) \/ Wake(c) \/ Expire(c) \/ ReadClock(c) \/ Compare(c) \/ Run(c)

-----------------------------------------------------------------------------
(* The _drain thread, and the daemon that feeds it                         *)

\* An event is read: the clock is read, then the time is stored.
Event(c) ==
    /\ drain[c] = "reading" /\ events[c] < MaxEvents
    /\ drain' = [drain EXCEPT ![c] = "stamping"]
    /\ silent' = [silent EXCEPT ![c] = 0]
    /\ UNCHANGED <<present, callerVars, box, at, events>>
    /\ \/ UNCHANGED told /\ NoFault
       \/ told' = [told EXCEPT ![c] = TRUE] /\ Fault

\* The age of the time that is stored.  (Bug variants: the window is not reset;
\* a clock that may be set back.)
NotReset(c) == at[c]
ClockSetBack(c) == silent[c] - 1
Stamped(c) == silent[c]

Stamp(c) ==
    /\ drain[c] = "stamping"
    /\ at' = [at EXCEPT ![c] = Stamped(c)]
    /\ events' = [events EXCEPT ![c] = @ + 1]
    /\ drain' = [drain EXCEPT ![c] = "reading"]
    /\ UNCHANGED <<present, callerVars, box, silent, told>> /\ NoFault

\* The stream ends: the image is there, unless an error was reported on the way; or
\* reading it raises.
StreamEnds(c) ==
    /\ drain[c] = "reading"
    /\ \/ /\ present' = (present \/ ~told[c])
          /\ drain' = [drain EXCEPT ![c] = "finally"]
          /\ NoFault
       \/ /\ drain' = [drain EXCEPT ![c] = "except"]
          /\ UNCHANGED present /\ Fault
    /\ UNCHANGED <<callerVars, box, at, silent, events, told>>

\* box["error"] = exc, and finished.set().
Store(c) ==
    /\ drain[c] = "except"
    /\ box' = [box EXCEPT ![c] = TRUE]
    /\ drain' = [drain EXCEPT ![c] = "finally"]
    /\ UNCHANGED <<present, callerVars, at, silent, events, told>> /\ NoFault

Finish(c) ==
    /\ drain[c] = "finally"
    /\ drain' = [drain EXCEPT ![c] = "over"]
    /\ UNCHANGED <<present, callerVars, box, at, silent, events, told>> /\ NoFault

Drain(c) == Stamp(c) \/ Store(c) \/ Finish(c)
Daemon(c) == Event(c) \/ StreamEnds(c) \/ ImplicitPullEnds(c)

-----------------------------------------------------------------------------

\* A wait ends with its interval; every other step of a caller takes no longer than Turn.
InTime(c) ==
    /\ caller[c] = "wait" => turn[c] < Poll
    /\ caller[c] \in {"expired", "compare"} => turn[c] < Turn

\* The longest a silent pull is watched; ages beyond it are all alike.
Patience == StallAfter + Poll + 3 * Turn
Aged(age) == IF age <= Patience THEN age + 1 ELSE age
Older(age) == [c \in Calls |-> IF caller[c] \in Watching THEN Aged(age[c]) ELSE age[c]]

Tick ==
    /\ \E c \in Calls : caller[c] \in Watching
    /\ \A c \in Calls : InTime(c)
    /\ turn' = Older(turn) /\ at' = Older(at) /\ silent' = Older(silent)
    /\ UNCHANGED <<present, caller, result, drain, box, events, told, faults>>

Answered(c) == caller[c] \in {"over", "implicit_pull"}

Done ==
    /\ \A c \in Calls : Answered(c)
    /\ UNCHANGED vars

Next == (\E c \in Calls : Caller(c) \/ Drain(c) \/ Daemon(c)) \/ Tick \/ Done

\* The threads go on and time passes.  Nothing is asked of the daemon.
Fairness ==
    /\ \A c \in Calls : WF_vars(Caller(c)) /\ WF_vars(Drain(c))
    /\ WF_vars(Tick)

Spec == Init /\ [][Next]_vars /\ Fairness

-----------------------------------------------------------------------------
(* Properties                                                              *)

TypeOK ==
    /\ present \in BOOLEAN
    /\ caller \in [Calls -> {"look", "run", "implicit_pull", "over"} \cup Watching]
    /\ result \in [Calls -> {"none", "present", "pulled", "stalled", "error"}]
    /\ turn \in [Calls -> Nat]
    /\ drain \in [Calls -> {"none", "reading", "stamping", "except", "finally", "over"}]
    /\ box \in [Calls -> BOOLEAN]
    /\ at \in [Calls -> Nat]
    /\ silent \in [Calls -> Nat]
    /\ events \in [Calls -> 0 .. MaxEvents]
    /\ told \in [Calls -> BOOLEAN]
    /\ faults \in 0 .. MaxFaults

\* A pull that progresses is not given up: a call is only answered "stalled" when the
\* daemon has said nothing for the whole window, or an event of this moment has been
\* read and its time not stored yet.  The caller looks at progress of another thread,
\* between two reads of a clock; the end of the stream is not progress.
StallIsSilence ==
    [][\A c \in Calls : result'[c] = "stalled" /\ result[c] # "stalled" =>
         silent[c] >= StallAfter \/ drain[c] = "stamping"]_vars

\* A call that answers "pulled" does so of a pull whose stream ended without raising,
\* and the image is there unless the daemon had reported an error in the stream: an
\* exception in the other thread is never lost, whenever the caller wakes up.
PulledIsBacked ==
    \A c \in Calls : result[c] = "pulled" =>
        /\ drain[c] = "over" /\ ~box[c]
        /\ present \/ told[c]

\* A pull the daemon says nothing about is given up in finite time: nobody watches a
\* silent pull for longer than the window, an interval and the caller's own turns.
GivenUpInTime ==
    \A c \in Calls : caller[c] \in Watching => silent[c] <= Patience

\* Every call is answered although the daemon may fall silent at any point.
EveryCallIsAnswered == \A c \in Calls : <>Answered(c)

-----------------------------------------------------------------------------
(* What a comment of the code says and the code does not do                *)

\* _ensure_image_present(): "a stalled/failed pull is a finite case ERROR instead of the
\* unbounded hang the implicit containers.run pull produces".
NoImplicitPull == \A c \in Calls : caller[c] # "implicit_pull"
=============================================================================
