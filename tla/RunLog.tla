------------------------------- MODULE RunLog -------------------------------
(***************************************************************************)
(* The run history of cv_infra/history.py: one verify process that records *)
(* its run (RunRecorder, with the main thread, the case workers and the    *)
(* sampler all writing over one connection), and a dashboard that reads it *)
(* and calls a run that has gone quiet "stale".  The log is best effort:   *)
(* the first write that fails turns it off for this run.                   *)
(*                                                                         *)
(* Time is kept as ages, in units of MaxGap-th parts of the longest time   *)
(* between two samples: a wait of 5 s, a probe of 10 s and a busy timeout  *)
(* of 5 s for each writer, well below STALE_AFTER_S.                       *)
(***************************************************************************)
EXTENDS Integers

CONSTANTS
    Cases,      \* the case runs of the plan
    MaxGap,     \* the longest a thread takes from one sample, or phase, to the next
    StaleAfter, \* STALE_AFTER_S
    MaxFaults   \* bound: a crash, failing writes

ASSUME RunLogAssumption ==
    /\ {"main", "sampler"} \cap Cases = {}
    /\ MaxGap \in Nat \ {0}
    /\ StaleAfter \in Nat /\ StaleAfter >= 3 * MaxGap
    /\ MaxFaults \in Nat

VARIABLES
    pc,         \* the main thread, from RunRecorder.begin to the end of the process
    case,       \* per case run: "queued", "running", "recording", "ended", "raised"
    sampler,    \* the sampler thread: "off", "waiting", "probing", "over"
    stop,       \* the event that ends it
    act,        \* per thread: where it is in _write and _fail
    log,        \* recorder._store is not None
    open,       \* the connection is open
    row,        \* the run's row: "none", "running", "done"
    recorded,   \* the case runs with a row
    sampled,    \* the run has a sample
    quiet,      \* the age of its newest sample, or else of its start
    since,      \* per thread: time since its last sample or the begin of its phase
    reader,     \* the dashboard: "idle", or has read a "running" row
    answer,     \* what it last said of the run
    faults

threadVars == <<pc, case, sampler, stop>>
recorderVars == <<log, open>>
dbVars == <<row, recorded, sampled, quiet>>
readerVars == <<reader, answer>>
vars == <<threadVars, act, recorderVars, dbVars, since, readerVars, faults>>

Timed == {"main", "sampler"}
Threads == Timed \cup Cases

Phases == {"begin", "first_sample", "dispatch", "join", "report", "finish", "close"}
Over == pc \in {"exit", "dead"}

Init ==
    /\ pc = "begin"
    /\ case = [c \in Cases |-> "queued"]
    /\ sampler = "off"
    /\ stop = FALSE
    /\ act = [t \in Threads |-> "idle"]
    /\ log = FALSE /\ open = FALSE
    /\ row = "none" /\ recorded = {} /\ sampled = FALSE /\ quiet = 0
    /\ since = [t \in Timed |-> 0]
    /\ reader = "idle" /\ answer = "none"
    /\ faults = 0

Fault == faults < MaxFaults /\ faults' = faults + 1
NoFault == UNCHANGED faults

Smaller(a, b) == IF a <= b THEN a ELSE b

Enter(t) == act' = [act EXCEPT ![t] = "writing"]
Restarted(t) == [since EXCEPT ![t] = 0]

\* What a thread does once its write is over, whatever became of it.  The sampler
\* starts with the first case, after the main thread's own first sample.
Proceed(t) ==
    /\ act' = [act EXCEPT ![t] = "idle"]
    /\ IF t \in Cases
       THEN case' = [case EXCEPT ![t] = "ended"] /\ UNCHANGED <<pc, sampler, since>>
       ELSE /\ UNCHANGED case
            /\ IF t = "main"
               THEN pc' = CASE pc = "begin" -> "first_sample"
                            [] pc = "first_sample" -> "dispatch"
                            [] pc = "finish" -> "close"
               ELSE UNCHANGED pc
            /\ IF t = "main" /\ pc = "first_sample"
               THEN sampler' = "waiting" /\ since' = Restarted("sampler")
               ELSE UNCHANGED <<sampler, since>>

-----------------------------------------------------------------------------
(* RunRecorder._write and _fail, of any thread                             *)

\* The clock of a sample is read before the store's lock is had.  (Bug variant: a
\* stamp of the time the next one is due.)
StampedAhead(t) == since[t] - 1
Stamped(t) == since[t]

\* The statement that this thread executes under the store's lock.
Store(t) ==
    IF t \in Cases THEN recorded' = recorded \cup {t} /\ UNCHANGED <<row, sampled, quiet>>
    ELSE IF t = "main" /\ pc = "begin"
    THEN row' = "running" /\ quiet' = Stamped(t) /\ UNCHANGED <<recorded, sampled>>
    ELSE IF t = "main" /\ pc = "finish"
    THEN row' = "done" /\ UNCHANGED <<recorded, sampled, quiet>>
    ELSE sampled' = TRUE /\ quiet' = Smaller(quiet, Stamped(t)) /\ UNCHANGED <<row, recorded>>

\* A closed connection takes no statement.  (Bug variant: no lock, so that a statement
\* beside another thread's fails too.)
BrokenBesideAnother(t) == ~open \/ \E u \in Threads \ {t} : act[u] = "writing"
Broken(t) == ~open

Write(t) ==
    /\ ~Over /\ act[t] = "writing"
    /\ \/ /\ ~Broken(t)
          /\ Store(t)
          /\ Proceed(t)
          /\ NoFault
       \/ /\ IF Broken(t) THEN NoFault ELSE Fault
          /\ act' = [act EXCEPT ![t] = "failing"]
          /\ UNCHANGED <<pc, case, sampler, since, dbVars>>
    /\ UNCHANGED <<stop, recorderVars, readerVars>>

\* _fail(): close the store unless another thread has turned the log off.  (Bug
\* variant: the write is lost and no more.)
OnlyThisIsLost(t) == Proceed(t) /\ UNCHANGED recorderVars
FirstClosesIt(t) ==
    IF log
    THEN /\ act' = [act EXCEPT ![t] = "closed"]
         /\ open' = FALSE
         /\ UNCHANGED <<log, pc, case, sampler, since>>
    ELSE Proceed(t) /\ UNCHANGED recorderVars

Fail(t) ==
    /\ ~Over /\ act[t] = "failing"
    /\ FirstClosesIt(t)
    /\ UNCHANGED <<stop, dbVars, readerVars, faults>>

\* The store is None only after close() has returned.
TurnOff(t) ==
    /\ ~Over /\ act[t] = "closed"
    /\ log' = FALSE
    /\ Proceed(t)
    /\ UNCHANGED <<stop, open, dbVars, readerVars, faults>>

Recorder(t) == Write(t) \/ Fail(t) \/ TurnOff(t)

-----------------------------------------------------------------------------
(* The main thread: run_verify and _run_cases                              *)

\* begin(): open the store and write the run's row.
Begin ==
    /\ pc = "begin" /\ act["main"] = "idle"
    /\ \/ /\ log' = TRUE /\ open' = TRUE
          /\ Enter("main")
          /\ UNCHANGED <<pc, sampler>> /\ NoFault
       \/ /\ Fault
          /\ pc' = "first_sample"
          /\ UNCHANGED <<sampler, act, recorderVars>>
    /\ UNCHANGED <<case, stop, dbVars, since, readerVars>>

\* sampling(): one sample of its own, then the thread, then the cases.
FirstSample ==
    /\ pc = "first_sample" /\ act["main"] = "idle"
    /\ IF log
       THEN Enter("main") /\ since' = Restarted("main") /\ UNCHANGED <<pc, case, sampler>>
       ELSE Proceed("main")
    /\ UNCHANGED <<stop, recorderVars, dbVars, readerVars, faults>>

\* dispatch() comes back when no case is in flight, the budget having left some queued.
EndDispatch ==
    /\ pc = "dispatch"
    /\ \A c \in Cases : case[c] \notin {"running", "recording"}
    /\ pc' = "join"
    /\ stop' = TRUE
    /\ since' = Restarted("main")
    /\ UNCHANGED <<case, sampler, act, recorderVars, dbVars, readerVars, faults>>

\* The join of the sampler has a timeout: the sampler may go on.  A worker's exception
\* goes through the finally and ends the process.
Join ==
    /\ pc = "join"
    /\ pc' = IF \E c \in Cases : case[c] = "raised" THEN "exit" ELSE "report"
    /\ UNCHANGED <<case, sampler, stop, act, recorderVars, dbVars, since, readerVars, faults>>

\* Baselines, report and run directory; an exception ends the process.
Report ==
    /\ pc = "report"
    /\ \/ pc' = "finish" /\ NoFault
       \/ pc' = "exit" /\ Fault
    /\ UNCHANGED <<case, sampler, stop, act, recorderVars, dbVars, since, readerVars>>

\* finish(): the row once more, with the result ...
Finish ==
    /\ pc = "finish" /\ act["main"] = "idle"
    /\ IF log THEN Enter("main") /\ UNCHANGED pc ELSE pc' = "exit" /\ UNCHANGED act
    /\ UNCHANGED <<case, sampler, stop, recorderVars, dbVars, since, readerVars, faults>>

\* ... and the connection is closed, but the log is not turned off.
Close ==
    /\ pc = "close"
    /\ pc' = "exit"
    /\ open' = IF log THEN FALSE ELSE open
    /\ UNCHANGED <<case, sampler, stop, act, log, dbVars, since, readerVars, faults>>

Main ==
    Begin \/ FirstSample \/ EndDispatch \/ Join \/ Report \/ Finish \/ Close \/ Recorder("main")

Crash ==
    /\ ~Over /\ Fault
    /\ pc' = "dead"
    /\ UNCHANGED <<case, sampler, stop, act, recorderVars, dbVars, since, readerVars>>

-----------------------------------------------------------------------------
(* The workers and the sampler                                             *)

StartCase(c) ==
    /\ pc = "dispatch" /\ case[c] = "queued"
    /\ case' = [case EXCEPT ![c] = "running"]
    /\ UNCHANGED <<pc, sampler, stop, act, recorderVars, dbVars, since, readerVars, faults>>

\* A case run ends and is recorded, or the platform fails it with an exception.
EndCase(c) ==
    /\ pc = "dispatch" /\ case[c] = "running"
    /\ \/ /\ log
          /\ case' = [case EXCEPT ![c] = "recording"]
          /\ Enter(c)
       \/ /\ ~log
          /\ case' = [case EXCEPT ![c] = "ended"]
          /\ UNCHANGED act
       \/ /\ case' = [case EXCEPT ![c] = "raised"]
          /\ UNCHANGED act
    /\ UNCHANGED <<pc, sampler, stop, recorderVars, dbVars, since, readerVars, faults>>

Worker(c) == StartCase(c) \/ EndCase(c) \/ Recorder(c)

\* The event is looked at before the probe, not after it.
Sample ==
    /\ ~Over /\ act["sampler"] = "idle"
    /\ \/ /\ sampler = "waiting"
          /\ sampler' = IF stop THEN "over" ELSE "probing"
          /\ UNCHANGED <<act, since>>
       \/ /\ sampler = "probing"
          /\ sampler' = "waiting"
          /\ since' = Restarted("sampler")
          /\ IF log THEN Enter("sampler") ELSE UNCHANGED act
    /\ UNCHANGED <<pc, case, stop, recorderVars, dbVars, readerVars, faults>>

Sampler == Sample \/ Recorder("sampler")

-----------------------------------------------------------------------------
(* Store.runs and _with_status, and the clock                              *)

\* A "running" row is stale when its newest sample, or else its start, is too old.
\* (Bug variants: one sample missed; only a run that has samples.)
OneMissed == quiet > MaxGap
OnlyIfSampled == sampled /\ quiet > StaleAfter
IsStale == quiet > StaleAfter

\* Two statements, with no snapshot over both.
Look ==
    /\ \/ /\ reader = "idle"
          /\ IF row = "running" THEN reader' = "running" /\ UNCHANGED answer
                                ELSE answer' = row /\ UNCHANGED reader
       \/ /\ reader = "running"
          /\ reader' = "idle"
          /\ answer' = IF IsStale THEN "stale" ELSE "running"
    /\ UNCHANGED <<threadVars, act, recorderVars, dbVars, since, faults>>

\* What the timeouts of the code bound: the main thread outside dispatch, the sampler
\* from one sample to the next, and the dashboard between its two statements.
InTime ==
    /\ ~Over /\ pc # "dispatch" => since["main"] < MaxGap
    /\ ~Over /\ sampler \in {"waiting", "probing"} => since["sampler"] < MaxGap
    /\ reader = "idle"

Tick ==
    /\ InTime
    /\ quiet' = Smaller(quiet + 1, StaleAfter + 1)
    /\ since' = [t \in Timed |-> Smaller(since[t] + 1, MaxGap)]
    /\ UNCHANGED <<threadVars, act, recorderVars, row, recorded, sampled, readerVars, faults>>

Next ==
    \/ Main \/ Crash \/ Sampler \/ Look \/ Tick
    \/ \E c \in Cases : Worker(c)

\* Timeouts end every wait of the threads, an operator looks again, and time passes
\* between the looks.  Nothing is asked of the sampler.
Fairness ==
    /\ WF_vars(Main) /\ WF_vars(Look) /\ SF_vars(Tick)
    /\ \A c \in Cases : WF_vars(Worker(c))

Spec == Init /\ [][Next]_vars /\ Fairness

-----------------------------------------------------------------------------
(* Properties                                                              *)

\* The types of the variables.
TypeOK ==
    /\ pc \in Phases \cup {"exit", "dead"}
    /\ case \in [Cases -> {"queued", "running", "recording", "ended", "raised"}]
    /\ sampler \in {"off", "waiting", "probing", "over"}
    /\ stop \in BOOLEAN
    /\ act \in [Threads -> {"idle", "writing", "failing", "closed"}]
    /\ log \in BOOLEAN /\ open \in BOOLEAN
    /\ row \in {"none", "running", "done"}
    /\ recorded \subseteq Cases
    /\ sampled \in BOOLEAN
    /\ quiet \in 0 .. StaleAfter + 1
    /\ since \in [Timed -> 0 .. MaxGap]
    /\ reader \in {"idle", "running"}
    /\ answer \in {"none", "running", "done", "stale"}
    /\ faults \in 0 .. MaxFaults

\* A run that is recorded as done is recorded with every case run that ended: no write
\* of a worker is lost and the result written all the same.
DoneIsComplete ==
    row = "done" => recorded = {c \in Cases : case[c] = "ended"}

\* A run that reads as stale has lost its process or its log, and no result of it is
\* ever recorded: a slow probe, a full lock or the work after the cases is not death.
StaleIsDeadOrOff ==
    answer = "stale" => row = "running" /\ (Over \/ ~log)

\* Without a fault every run is recorded, also if the sampler outlives its join and
\* writes to the store that finish() has closed.
CleanRunIsRecorded ==
    faults = 0 /\ pc = "exit" /\ (\A c \in Cases : case[c] # "raised") => row = "done"

\* The dashboard never brings a run that it called stale back to life.
StaleIsForGood == [][answer = "stale" => answer' = "stale"]_answer

\* The history is a journal (Journal.tla), kept from begin() until the write of some thread
\* closes the connection or the process is over: no interleaving of the threads' writes
\* loses one end of a case and records the next fact, and none of the dashboard's two reads
\* makes it take an answer back.
JournalOf == INSTANCE Journal WITH
    log <- IF Over THEN "given_up"
           ELSE IF pc = "begin" /\ act["main"] = "idle" THEN "new"
           ELSE IF open THEN "kept" ELSE "given_up",
    ended <- {c \in Cases : case[c] = "ended"}

ImplementsJournal == JournalOf!Spec

\* A process that ended without a result is called stale in the end, also one that died
\* before its first sample.
DeadIsSeen == Over /\ row = "running" ~> answer = "stale"
=============================================================================
