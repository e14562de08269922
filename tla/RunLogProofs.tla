---------------------------- MODULE RunLogProofs ----------------------------
(* What RunLog.tla promises, for any number of case runs and faults and for *)
(* any gap and stale bound that RunLogAssumption allows.                    *)
EXTENDS RunLog, TLAPS

USE RunLogAssumption

AllEnded == {c \in Cases : case[c] = "ended"}

\* Which threads there are in which phase, and where they can be in a write.
Threading ==
    /\ pc \in {"begin", "first_sample"} =>
         sampler = "off" /\ \A c \in Cases : case[c] = "queued"
    /\ pc \in {"begin", "first_sample", "dispatch"} => stop = FALSE
    /\ pc \in {"join", "report", "finish", "close", "exit"} =>
         \A c \in Cases : case[c] \notin {"running", "recording"}
    /\ sampler = "over" => stop = TRUE
    /\ sampler = "off" => pc \in {"begin", "first_sample", "dead"}
    /\ act["sampler"] # "idle" => sampler = "waiting"
    /\ act["main"] # "idle" => pc \in {"begin", "first_sample", "finish", "dead"}
    /\ \A c \in Cases : act[c] # "idle" => case[c] = "recording"

Unopened == pc = "begin" /\ act["main"] = "idle"

\* While the connection is open nothing that ended is missing, and a result is only
\* written over an open one.
Logged ==
    /\ open = TRUE => log = TRUE
    /\ \A t \in Threads : act[t] = "closed" => open = FALSE
    /\ pc = "begin" => row = "none"
    /\ Unopened => log = FALSE
    /\ recorded \subseteq AllEnded
    /\ open = TRUE => AllEnded \subseteq recorded
    /\ row = "done" =>
         /\ AllEnded \subseteq recorded
         /\ pc \in {"close", "exit", "dead"}
         /\ \A c \in Cases : case[c] \notin {"running", "recording"}

\* Without a fault the log is on from begin() to the end.
Clean ==
    faults = 0 =>
        /\ pc # "dead"
        /\ ~Unopened => log = TRUE
        /\ ~Unopened /\ pc # "exit" => open = TRUE
        /\ \A t \in Threads : act[t] \in {"idle", "writing"}
        /\ pc = "close" => row = "done"
        /\ pc = "exit" /\ (\A c \in Cases : case[c] # "raised") => row = "done"

\* How old the newest sample may be while the process lives and has its log: each
\* thread that stands for the run in turn is at most one gap late, and the one before
\* it left a sample that was at most two gaps old.
Timely ==
    row = "running" /\ ~Over /\ log = TRUE =>
        /\ pc = "first_sample" /\ act["main"] = "idle" => quiet <= since["main"]
        /\ pc = "first_sample" => quiet <= since["main"] + MaxGap
        /\ sampler \in {"waiting", "probing"} /\ act["sampler"] = "idle" =>
             quiet <= since["sampler"] + MaxGap
        /\ sampler \in {"waiting", "probing"} => quiet <= since["sampler"] + MaxGap + MaxGap
        /\ sampler = "over" => quiet <= since["main"] + MaxGap + MaxGap

\* What the dashboard has said and is about to say.
Answered ==
    /\ reader = "running" => row = "running" \/ quiet <= StaleAfter
    /\ answer = "stale" => row = "running" /\ quiet > StaleAfter /\ (Over \/ log = FALSE)

IInv == TypeOK /\ Threading /\ Logged /\ Clean /\ Timely /\ Answered

USE DEF vars, threadVars, recorderVars, dbVars, readerVars, Over, Fault, NoFault

-----------------------------------------------------------------------------
(* The threads, and what Proceed does for each of them.                    *)

LEMMA ThreadsAre ==
    /\ "main" \in Threads /\ "main" \in Timed /\ "main" \notin Cases
    /\ "sampler" \in Threads /\ "sampler" \in Timed /\ "sampler" \notin Cases
    /\ \A c \in Cases : c \in Threads /\ c # "main" /\ c # "sampler"
    /\ \A t \in Threads : t \in Cases \/ t = "main" \/ t = "sampler"
  BY DEF Threads, Timed

LEMMA ProceedOfCase ==
    ASSUME NEW c \in Cases, Proceed(c)
    PROVE  /\ act' = [act EXCEPT ![c] = "idle"]
           /\ case' = [case EXCEPT ![c] = "ended"]
           /\ UNCHANGED <<pc, sampler, since>>
  BY DEF Proceed

LEMMA ProceedOfSampler ==
    ASSUME Proceed("sampler")
    PROVE  /\ act' = [act EXCEPT !["sampler"] = "idle"]
           /\ UNCHANGED <<case, pc, sampler, since>>
  BY ThreadsAre DEF Proceed

LEMMA ProceedOfMain ==
    ASSUME Proceed("main")
    PROVE  /\ act' = [act EXCEPT !["main"] = "idle"]
           /\ UNCHANGED case
           /\ pc = "begin" => pc' = "first_sample" /\ UNCHANGED <<sampler, since>>
           /\ pc = "first_sample" =>
                /\ pc' = "dispatch" /\ sampler' = "waiting"
                /\ since' = [since EXCEPT !["sampler"] = 0]
           /\ pc = "finish" => pc' = "close" /\ UNCHANGED <<sampler, since>>
<1>1. act' = [act EXCEPT !["main"] = "idle"] /\ UNCHANGED case
  BY ThreadsAre DEF Proceed
<1>2. CASE pc = "begin"
  BY <1>1, <1>2, ThreadsAre DEF Proceed
<1>3. CASE pc = "first_sample"
  BY <1>1, <1>3, ThreadsAre DEF Proceed, Restarted
<1>4. CASE pc = "finish"
  BY <1>1, <1>4, ThreadsAre DEF Proceed
<1> QED
  BY <1>1, <1>2, <1>3, <1>4

\* What of TypeOK and Threading Proceed is about.
ThreadTypes ==
    /\ pc \in Phases \cup {"exit", "dead"}
    /\ case \in [Cases -> {"queued", "running", "recording", "ended", "raised"}]
    /\ sampler \in {"off", "waiting", "probing", "over"}
    /\ stop \in BOOLEAN
    /\ act \in [Threads -> {"idle", "writing", "failing", "closed"}]
    /\ since \in [Timed -> 0 .. MaxGap]

LEMMA ProceedKeeps ==
    ASSUME TypeOK, Threading, ~Over, NEW t \in Threads, Proceed(t), UNCHANGED stop,
           act[t] # "idle" \/ (t = "main" /\ pc = "first_sample")
    PROVE  ThreadTypes' /\ Threading'
<1>1. CASE t \in Cases
  <2>1. /\ act' = [act EXCEPT ![t] = "idle"] /\ case' = [case EXCEPT ![t] = "ended"]
        /\ UNCHANGED <<pc, sampler, since>>
    BY <1>1, ProceedOfCase
  <2>2. ThreadTypes'
    BY <1>1, <2>1, ThreadsAre DEF ThreadTypes, TypeOK
  <2>3. Threading'
    BY <1>1, <2>1, ThreadsAre DEF Threading, TypeOK
  <2> QED
    BY <2>2, <2>3
<1>2. CASE t = "sampler"
  <2>1. act' = [act EXCEPT !["sampler"] = "idle"] /\ UNCHANGED <<case, pc, sampler, since>>
    BY <1>2, ProceedOfSampler
  <2>2. ThreadTypes'
    BY <2>1, ThreadsAre DEF ThreadTypes, TypeOK
  <2>3. Threading'
    BY <2>1, ThreadsAre DEF Threading, TypeOK
  <2> QED
    BY <2>2, <2>3
<1>3. CASE t = "main"
  <2>1. pc \in {"begin", "first_sample", "finish"}
    BY <1>3 DEF Threading
  <2>2. /\ act' = [act EXCEPT !["main"] = "idle"] /\ UNCHANGED case
        /\ pc = "begin" => pc' = "first_sample" /\ UNCHANGED <<sampler, since>>
        /\ pc = "first_sample" => /\ pc' = "dispatch" /\ sampler' = "waiting"
                                  /\ since' = [since EXCEPT !["sampler"] = 0]
        /\ pc = "finish" => pc' = "close" /\ UNCHANGED <<sampler, since>>
    BY <1>3, ProceedOfMain
  <2>3. ThreadTypes'
    BY <2>1, <2>2, ThreadsAre DEF ThreadTypes, TypeOK, Phases
  <2>4. Threading'
    BY <2>1, <2>2, ThreadsAre DEF Threading, TypeOK
  <2> QED
    BY <2>3, <2>4
<1> QED
  BY <1>1, <1>2, <1>3, ThreadsAre

\* A run whose process lives with its log is not stale.
LEMMA LiveIsNotStale ==
    ASSUME IInv, row = "running", ~Over, log = TRUE
    PROVE  quiet <= StaleAfter
<1>1. since["main"] \in 0 .. MaxGap /\ since["sampler"] \in 0 .. MaxGap /\ quiet \in Int
  BY ThreadsAre DEF IInv, TypeOK
<1>2. pc # "begin"
  BY DEF IInv, Logged
<1>3. CASE pc = "first_sample"
  BY <1>1, <1>3 DEF IInv, Timely
<1>4. CASE pc # "first_sample"
  <2>1. sampler \in {"waiting", "probing", "over"}
    BY <1>2, <1>4 DEF IInv, TypeOK, Threading
  <2> QED
    BY <1>1, <2>1 DEF IInv, Timely
<1> QED
  BY <1>3, <1>4

-----------------------------------------------------------------------------
(* The steps of a write, of each thread.                                   *)

LEMMA InitKeeps == Init => IInv
<1> SUFFICES ASSUME Init PROVE IInv
  OBVIOUS
<1> USE DEF Init
<1>1. TypeOK
  <2>1. /\ pc \in Phases \cup {"exit", "dead"} /\ sampler = "off" /\ row = "none"
        /\ case \in [Cases -> {"queued", "running", "recording", "ended", "raised"}]
        /\ act \in [Threads -> {"idle", "writing", "failing", "closed"}]
        /\ reader = "idle" /\ answer = "none"
    BY DEF Phases
  <2>2. recorded \subseteq Cases /\ quiet \in 0 .. StaleAfter + 1 /\ faults \in 0 .. MaxFaults
    OBVIOUS
  <2>3. since \in [Timed -> 0 .. MaxGap]
    <3>1. 0 \in 0 .. MaxGap
      OBVIOUS
    <3> QED
      BY <3>1
  <2>4. stop \in BOOLEAN /\ log \in BOOLEAN /\ open \in BOOLEAN /\ sampled \in BOOLEAN
    OBVIOUS
  <2> QED
    BY <2>1, <2>2, <2>3, <2>4 DEF TypeOK
<1>2. Threading
  BY ThreadsAre DEF Threading
<1>3. Logged
  BY ThreadsAre DEF Logged, AllEnded, Unopened
<1>4. Clean
  BY ThreadsAre DEF Clean, Unopened
<1>5. Timely
  BY DEF Timely
<1>6. Answered
  BY DEF Answered
<1> QED
  BY <1>1, <1>2, <1>3, <1>4, <1>5, <1>6 DEF IInv

\* A statement that succeeds: the store is open, so the log is on and not stale.
LEMMA StoreOfCaseKeeps ==
    ASSUME IInv, NEW c \in Cases, Write(c), open = TRUE, Store(c), Proceed(c), NoFault
    PROVE  IInv'
<1>1. /\ ~Over /\ act[c] = "writing" /\ log = TRUE
      /\ UNCHANGED <<stop, log, open, reader, answer, faults>>
  BY DEF Write, IInv, Logged
<1>2. recorded' = recorded \cup {c} /\ UNCHANGED <<row, sampled, quiet>>
  BY DEF Store
<1>3. /\ act' = [act EXCEPT ![c] = "idle"] /\ case' = [case EXCEPT ![c] = "ended"]
      /\ UNCHANGED <<pc, sampler, since>>
  BY ProceedOfCase
<1>4. case[c] = "recording" /\ pc = "dispatch"
  BY <1>1, ThreadsAre DEF IInv, Threading, TypeOK, Phases
<1>5. ThreadTypes' /\ Threading'
  BY <1>1, ThreadsAre, ProceedKeeps DEF IInv
<1>6. TypeOK'
  BY <1>1, <1>2, <1>5 DEF IInv, TypeOK, ThreadTypes
<1>7. AllEnded' = AllEnded \cup {c}
  BY <1>3 DEF AllEnded, IInv, TypeOK
<1>8. Logged'
  BY <1>1, <1>2, <1>3, <1>4, <1>7, ThreadsAre DEF IInv, TypeOK, Logged, Unopened
<1>9. Clean'
  BY <1>1, <1>2, <1>3, <1>4, ThreadsAre DEF IInv, TypeOK, Clean, Unopened
<1>10. Timely'
  BY <1>1, <1>2, <1>3, <1>4, ThreadsAre DEF IInv, TypeOK, Timely
<1>11. Answered'
  BY <1>1, <1>2, <1>3 DEF IInv, Answered
<1> QED
  BY <1>5, <1>6, <1>8, <1>9, <1>10, <1>11 DEF IInv

LEMMA StoreOfSamplerKeeps ==
    ASSUME IInv, Write("sampler"), open = TRUE, Store("sampler"), Proceed("sampler"), NoFault
    PROVE  IInv'
<1>1. /\ ~Over /\ act["sampler"] = "writing" /\ log = TRUE
      /\ UNCHANGED <<stop, log, open, reader, answer, faults>>
  BY DEF Write, IInv, Logged
<1>2. /\ sampled' = TRUE /\ quiet' = Smaller(quiet, since["sampler"])
      /\ UNCHANGED <<row, recorded>>
  BY ThreadsAre DEF Store, Stamped
<1>3. act' = [act EXCEPT !["sampler"] = "idle"] /\ UNCHANGED <<case, pc, sampler, since>>
  BY ProceedOfSampler
<1>4. sampler = "waiting" /\ pc \notin {"begin", "first_sample"}
  BY <1>1, ThreadsAre DEF IInv, Threading
<1>5. ThreadTypes' /\ Threading'
  BY <1>1, ThreadsAre, ProceedKeeps DEF IInv
<1>6. /\ since["sampler"] \in 0 .. MaxGap /\ quiet \in 0 .. StaleAfter + 1
      /\ quiet' \in 0 .. StaleAfter + 1 /\ quiet' <= quiet /\ quiet' <= since["sampler"]
  BY <1>2, ThreadsAre DEF IInv, TypeOK, Smaller
<1>7. TypeOK'
  BY <1>1, <1>2, <1>5, <1>6 DEF IInv, TypeOK, ThreadTypes
<1>8. Logged'
  BY <1>1, <1>2, <1>3, <1>4, ThreadsAre DEF IInv, TypeOK, Logged, Unopened, AllEnded
<1>9. Clean'
  BY <1>1, <1>2, <1>3, <1>4, ThreadsAre DEF IInv, TypeOK, Clean, Unopened
<1>10. Timely'
  BY <1>1, <1>2, <1>3, <1>4, <1>6, ThreadsAre DEF Timely
<1>11. Answered'
  BY <1>1, <1>2, <1>3, <1>6 DEF IInv, Answered
<1> QED
  BY <1>5, <1>7, <1>8, <1>9, <1>10, <1>11 DEF IInv

LEMMA StoreOfMainKeeps ==
    ASSUME IInv, Write("main"), open = TRUE, Store("main"), Proceed("main"), NoFault
    PROVE  IInv'
<1>1. /\ ~Over /\ act["main"] = "writing" /\ log = TRUE
      /\ UNCHANGED <<stop, log, open, reader, answer, faults>>
  BY DEF Write, IInv, Logged
<1>2. pc \in {"begin", "first_sample", "finish"}
  BY <1>1 DEF IInv, Threading
<1>3. /\ act' = [act EXCEPT !["main"] = "idle"] /\ UNCHANGED case
      /\ pc = "begin" => pc' = "first_sample" /\ UNCHANGED <<sampler, since>>
      /\ pc = "first_sample" => /\ pc' = "dispatch" /\ sampler' = "waiting"
                                /\ since' = [since EXCEPT !["sampler"] = 0]
      /\ pc = "finish" => pc' = "close" /\ UNCHANGED <<sampler, since>>
  BY ProceedOfMain
<1>4. ThreadTypes' /\ Threading'
  BY <1>1, ThreadsAre, ProceedKeeps DEF IInv
<1>5. /\ since["main"] \in 0 .. MaxGap /\ since["sampler"] \in 0 .. MaxGap
      /\ quiet \in 0 .. StaleAfter + 1
  BY ThreadsAre DEF IInv, TypeOK
<1>6. AllEnded' = AllEnded
  BY <1>3 DEF AllEnded
<1>7. CASE pc = "begin"
  <2>1. row' = "running" /\ quiet' = since["main"] /\ UNCHANGED <<recorded, sampled>>
    BY <1>7, ThreadsAre DEF Store, Stamped
  <2>2. TypeOK'
    BY <1>1, <1>4, <1>5, <2>1 DEF IInv, TypeOK, ThreadTypes
  <2>3. Logged'
    BY <1>1, <1>3, <1>6, <1>7, <2>1, ThreadsAre DEF IInv, TypeOK, Logged, Unopened
  <2>4. Clean'
    BY <1>1, <1>3, <1>7, <2>1, ThreadsAre DEF IInv, TypeOK, Clean, Unopened
  <2>5. Timely'
    BY <1>1, <1>3, <1>5, <1>7, <2>1, ThreadsAre DEF IInv, TypeOK, Threading, Timely
  <2>6. Answered'
    BY <1>1, <1>5, <1>7, <2>1 DEF IInv, Answered, Logged
  <2> QED
    BY <1>4, <2>2, <2>3, <2>4, <2>5, <2>6 DEF IInv
<1>8. CASE pc = "first_sample"
  <2>1. /\ sampled' = TRUE /\ quiet' = Smaller(quiet, since["main"])
        /\ UNCHANGED <<row, recorded>>
    BY <1>8, ThreadsAre DEF Store, Stamped
  <2>2. /\ quiet' \in 0 .. StaleAfter + 1 /\ quiet' <= quiet /\ quiet' <= since["main"]
    BY <1>5, <2>1 DEF Smaller
  <2>3. TypeOK'
    BY <1>1, <1>4, <2>1, <2>2 DEF IInv, TypeOK, ThreadTypes
  <2>4. Logged'
    BY <1>1, <1>3, <1>6, <1>8, <2>1, ThreadsAre DEF IInv, TypeOK, Logged, Unopened
  <2>5. Clean'
    BY <1>1, <1>3, <1>8, <2>1, ThreadsAre DEF IInv, TypeOK, Clean, Unopened
  <2>6. since'["sampler"] = 0 /\ since'["main"] = since["main"]
    BY <1>3, <1>8, ThreadsAre DEF IInv, TypeOK
  <2>7. Timely'
    BY <1>3, <1>5, <1>8, <2>2, <2>6 DEF Timely
  <2>8. Answered'
    BY <1>1, <1>3, <1>5, <1>8, <2>1, <2>2 DEF IInv, Answered
  <2> QED
    BY <1>4, <2>3, <2>4, <2>5, <2>7, <2>8 DEF IInv
<1>9. CASE pc = "finish"
  <2>1. row' = "done" /\ UNCHANGED <<recorded, sampled, quiet>>
    BY <1>9, ThreadsAre DEF Store
  <2>2. TypeOK'
    BY <1>1, <1>4, <2>1 DEF IInv, TypeOK, ThreadTypes
  <2>3. /\ AllEnded \subseteq recorded
        /\ \A c \in Cases : case[c] \notin {"running", "recording"}
    BY <1>9 DEF IInv, Logged, Threading
  <2>4. Logged'
    BY <1>1, <1>3, <1>6, <1>9, <2>1, <2>3, ThreadsAre DEF IInv, TypeOK, Logged, Unopened
  <2>5. Clean'
    BY <1>1, <1>3, <1>9, <2>1, ThreadsAre DEF IInv, TypeOK, Clean, Unopened
  <2>6. Timely'
    BY <2>1 DEF Timely
  <2>7. row = "running" => quiet <= StaleAfter
    BY <1>1, LiveIsNotStale
  <2>8. Answered'
    BY <1>1, <2>1, <2>7 DEF IInv, Answered
  <2> QED
    BY <1>4, <2>2, <2>4, <2>5, <2>6, <2>8 DEF IInv
<1> QED
  BY <1>2, <1>7, <1>8, <1>9

\* A statement that fails: only of a store that is closed, when nothing is wrong.
LEMMA FailedWriteKeeps ==
    ASSUME IInv, NEW t \in Threads, ~Over, act[t] = "writing",
           IF Broken(t) THEN NoFault ELSE Fault,
           act' = [act EXCEPT ![t] = "failing"],
           UNCHANGED <<pc, case, sampler, stop, since, log, open, row, recorded, sampled,
                       quiet, reader, answer>>
    PROVE  IInv'
<1>1. \A u \in Threads : act'[u] = IF u = t THEN "failing" ELSE act[u]
  BY DEF IInv, TypeOK
<1>2. faults \in 0 .. MaxFaults /\ faults' \in 0 .. MaxFaults
  BY DEF IInv, TypeOK
<1>3. TypeOK'
  BY <1>2 DEF IInv, TypeOK
<1>4. Threading'
  BY <1>1, ThreadsAre DEF IInv, TypeOK, Threading
<1>5. Logged'
  BY <1>1, ThreadsAre DEF IInv, TypeOK, Logged, Unopened, AllEnded
<1>6. faults' # 0
  <2> SUFFICES ASSUME faults' = 0 PROVE FALSE
    OBVIOUS
  <2>1. faults = 0 /\ open = FALSE
    BY <1>2 DEF Broken, IInv, TypeOK
  <2>2. Unopened
    BY <2>1 DEF IInv, Clean
  <2>3. act["main"] = "idle" /\ pc = "begin"
    BY <2>2 DEF Unopened
  <2> QED
    BY <2>3, ThreadsAre DEF IInv, Threading
<1>7. Clean'
  BY <1>6 DEF Clean
<1>8. Timely'
  BY <1>1, ThreadsAre DEF IInv, Timely
<1>9. Answered'
  BY DEF IInv, Answered
<1> QED
  BY <1>3, <1>4, <1>5, <1>7, <1>8, <1>9 DEF IInv

LEMMA WriteKeeps ==
    ASSUME IInv, NEW t \in Threads, Write(t)
    PROVE  IInv'
<1>1. CASE ~Broken(t) /\ Store(t) /\ Proceed(t) /\ NoFault
  <2>1. open = TRUE
    BY <1>1 DEF Broken, IInv, TypeOK
  <2> QED
    BY <1>1, <2>1, ThreadsAre, StoreOfCaseKeeps, StoreOfSamplerKeeps, StoreOfMainKeeps
<1>2. CASE /\ IF Broken(t) THEN NoFault ELSE Fault
           /\ act' = [act EXCEPT ![t] = "failing"]
           /\ UNCHANGED <<pc, case, sampler, since, dbVars>>
  BY <1>2, FailedWriteKeeps DEF Write
<1> QED
  BY <1>1, <1>2 DEF Write

\* A thread that goes on without its write, the log being off.
LEMMA OffKeeps ==
    ASSUME IInv, NEW t \in Threads, ~Over, act[t] # "idle", Proceed(t), open = FALSE,
           log' = FALSE, UNCHANGED <<stop, open, row, recorded, sampled, quiet, reader,
                                     answer, faults>>,
           ThreadTypes', Threading', Clean'
    PROVE  IInv'
<1>1. TypeOK'
  BY DEF IInv, TypeOK, ThreadTypes
<1>2. Timely'
  BY DEF Timely
<1>3. Answered'
  BY DEF IInv, Answered
<1>4. CASE t \in Cases
  <2>1. /\ act' = [act EXCEPT ![t] = "idle"] /\ case' = [case EXCEPT ![t] = "ended"]
        /\ UNCHANGED <<pc, sampler, since>>
    BY <1>4, ProceedOfCase
  <2>2. AllEnded \subseteq AllEnded' /\ case[t] = "recording"
    BY <1>4, <2>1 DEF AllEnded, IInv, TypeOK, Threading
  <2>3. pc = "dispatch"
    BY <1>4, <2>2 DEF IInv, Threading, TypeOK, Phases
  <2>4. row # "done"
    BY <2>3 DEF IInv, Logged
  <2> QED
    BY <2>1, <2>2, <2>3, <2>4, <1>1, <1>2, <1>3, ThreadsAre
    DEF IInv, TypeOK, Logged, Unopened
<1>5. CASE t = "sampler"
  <2>1. act' = [act EXCEPT !["sampler"] = "idle"] /\ UNCHANGED <<case, pc, sampler, since>>
    BY <1>5, ProceedOfSampler
  <2>2. Logged'
    BY <1>5, <2>1, ThreadsAre DEF IInv, TypeOK, Logged, Unopened, AllEnded
  <2> QED
    BY <2>2, <1>1, <1>2, <1>3 DEF IInv
<1>6. CASE t = "main"
  <2>1. pc \in {"begin", "first_sample", "finish"}
    BY <1>6 DEF IInv, Threading
  <2>2. /\ act' = [act EXCEPT !["main"] = "idle"] /\ UNCHANGED case
        /\ pc' \in {"first_sample", "dispatch", "close"}
    BY <1>6, <2>1, ProceedOfMain
  <2>3. row # "done"
    BY <2>1 DEF IInv, Logged
  <2>4. Logged'
    BY <1>6, <2>2, <2>3, ThreadsAre DEF IInv, TypeOK, Logged, Unopened, AllEnded
  <2> QED
    BY <2>4, <1>1, <1>2, <1>3 DEF IInv
<1> QED
  BY <1>4, <1>5, <1>6, ThreadsAre

LEMMA FailKeeps ==
    ASSUME IInv, NEW t \in Threads, Fail(t)
    PROVE  IInv'
<1>1. /\ ~Over /\ act[t] = "failing" /\ FirstClosesIt(t)
      /\ UNCHANGED <<stop, row, recorded, sampled, quiet, reader, answer, faults>>
  BY DEF Fail
<1>2. faults # 0
  BY <1>1 DEF IInv, Clean
<1>3. Clean'
  BY <1>1, <1>2 DEF Clean
<1>4. CASE log = TRUE
  <2>1. /\ act' = [act EXCEPT ![t] = "closed"] /\ open' = FALSE
        /\ UNCHANGED <<log, pc, case, sampler, since>>
    BY <1>1, <1>4 DEF FirstClosesIt
  <2>2. \A u \in Threads : act'[u] = IF u = t THEN "closed" ELSE act[u]
    BY <2>1 DEF IInv, TypeOK
  <2>3. TypeOK'
    <3>1. act' \in [Threads -> {"idle", "writing", "failing", "closed"}]
      BY <2>1 DEF IInv, TypeOK
    <3>2. open' \in BOOLEAN
      BY <2>1
    <3> QED
      BY <1>1, <2>1, <3>1, <3>2 DEF IInv, TypeOK
  <2>4. Threading'
    BY <1>1, <2>1, <2>2, ThreadsAre DEF IInv, TypeOK, Threading
  <2>5. Logged'
    BY <1>1, <2>1, <2>2, ThreadsAre DEF IInv, TypeOK, Logged, Unopened, AllEnded
  <2>6. Timely'
    BY <1>1, <2>1, <2>2, ThreadsAre DEF IInv, Timely
  <2>7. Answered'
    BY <1>1, <2>1 DEF IInv, Answered
  <2> QED
    BY <1>3, <2>3, <2>4, <2>5, <2>6, <2>7 DEF IInv
<1>5. CASE log = FALSE
  <2>1. Proceed(t) /\ UNCHANGED <<log, open>>
    BY <1>1, <1>5 DEF FirstClosesIt
  <2>2. ThreadTypes' /\ Threading'
    BY <1>1, <2>1, ProceedKeeps DEF IInv
  <2>3. open = FALSE /\ log' = FALSE
    BY <1>5, <2>1 DEF IInv, TypeOK, Logged
  <2> QED
    BY <1>1, <1>3, <2>1, <2>2, <2>3, OffKeeps
<1> QED
  BY <1>4, <1>5 DEF IInv, TypeOK

\* The log is off only once the connection is closed.
LEMMA TurnOffKeeps ==
    ASSUME IInv, NEW t \in Threads, TurnOff(t)
    PROVE  IInv'
<1>1. /\ ~Over /\ act[t] = "closed" /\ log' = FALSE /\ Proceed(t)
      /\ UNCHANGED <<stop, open, row, recorded, sampled, quiet, reader, answer, faults>>
  BY DEF TurnOff
<1>2. faults # 0 /\ open = FALSE
  BY <1>1 DEF IInv, Clean, Logged
<1>3. Clean'
  BY <1>1, <1>2 DEF Clean
<1>4. ThreadTypes' /\ Threading'
  BY <1>1, ProceedKeeps DEF IInv
<1> QED
  BY <1>1, <1>2, <1>3, <1>4, OffKeeps

LEMMA RecorderKeeps ==
    ASSUME IInv, NEW t \in Threads, Recorder(t)
    PROVE  IInv'
  BY WriteKeeps, FailKeeps, TurnOffKeeps DEF Recorder

-----------------------------------------------------------------------------
(* The main thread.                                                        *)

LEMMA BeginKeeps ==
    ASSUME IInv, Begin
    PROVE  IInv'
<1>1. /\ pc = "begin" /\ act["main"] = "idle" /\ row = "none"
      /\ sampler = "off" /\ log = FALSE /\ AllEnded = {}
      /\ UNCHANGED <<case, stop, row, recorded, sampled, quiet, since, reader, answer>>
  BY DEF Begin, IInv, Threading, Logged, Unopened, AllEnded
<1>2. \A t \in Threads : act[t] = "idle"
  BY <1>1, ThreadsAre DEF IInv, Threading
<1>3. Timely'
  BY <1>1 DEF Timely
<1>4. CASE /\ log' = TRUE /\ open' = TRUE /\ Enter("main") /\ UNCHANGED <<pc, sampler>>
           /\ NoFault
  <2>1. /\ act' \in [Threads -> {"idle", "writing", "failing", "closed"}]
        /\ \A t \in Threads : act'[t] = IF t = "main" THEN "writing" ELSE "idle"
    BY <1>2, <1>4, ThreadsAre DEF Enter, IInv, TypeOK
  <2>2. TypeOK'
    BY <1>1, <1>4, <2>1 DEF IInv, TypeOK
  <2>3. Threading'
    BY <1>1, <1>4, <2>1, ThreadsAre DEF IInv, TypeOK, Threading
  <2>4. Logged'
    BY <1>1, <1>4, <2>1, ThreadsAre DEF IInv, TypeOK, Logged, Unopened, AllEnded
  <2>5. Clean'
    BY <1>1, <1>4, <2>1, ThreadsAre DEF Clean, Unopened
  <2>6. Answered'
    BY <1>1 DEF IInv, Answered
  <2> QED
    BY <1>3, <2>2, <2>3, <2>4, <2>5, <2>6 DEF IInv
<1>5. CASE Fault /\ pc' = "first_sample" /\ UNCHANGED <<sampler, act, log, open>>
  <2>1. faults' \in 0 .. MaxFaults /\ faults' # 0
    BY <1>5 DEF IInv, TypeOK
  <2>2. TypeOK'
    BY <1>1, <1>5, <2>1 DEF IInv, TypeOK, Phases
  <2>3. Threading'
    BY <1>1, <1>2, <1>5, ThreadsAre DEF IInv, TypeOK, Threading
  <2>4. Logged'
    BY <1>1, <1>2, <1>5, ThreadsAre DEF IInv, TypeOK, Logged, Unopened, AllEnded
  <2>5. Clean'
    BY <2>1 DEF Clean
  <2>6. Answered'
    BY <1>1 DEF IInv, Answered
  <2> QED
    BY <1>3, <2>2, <2>3, <2>4, <2>5, <2>6 DEF IInv
<1> QED
  BY <1>4, <1>5 DEF Begin

LEMMA FirstSampleKeeps ==
    ASSUME IInv, FirstSample
    PROVE  IInv'
<1>1. /\ pc = "first_sample" /\ act["main"] = "idle" /\ row # "done"
      /\ UNCHANGED <<stop, log, open, row, recorded, sampled, quiet, reader, answer, faults>>
  BY DEF FirstSample, IInv, Logged
<1>2. CASE log = TRUE
  <2>1. /\ Enter("main") /\ since' = Restarted("main") /\ UNCHANGED <<pc, case, sampler>>
    BY <1>2 DEF FirstSample
  <2>2. /\ act' \in [Threads -> {"idle", "writing", "failing", "closed"}]
        /\ \A t \in Threads : act'[t] = IF t = "main" THEN "writing" ELSE act[t]
    BY <2>1, ThreadsAre DEF Enter, IInv, TypeOK
  <2>3. /\ since' \in [Timed -> 0 .. MaxGap]
        /\ since'["main"] = 0 /\ since'["sampler"] = since["sampler"]
    BY <2>1, ThreadsAre DEF Restarted, IInv, TypeOK
  <2>4. TypeOK'
    BY <1>1, <2>1, <2>2, <2>3 DEF IInv, TypeOK
  <2>5. Threading'
    BY <1>1, <2>1, <2>2, ThreadsAre DEF IInv, TypeOK, Threading
  <2>6. Logged'
    BY <1>1, <2>1, <2>2, ThreadsAre DEF IInv, TypeOK, Logged, Unopened, AllEnded
  <2>7. Clean'
    BY <1>1, <1>2, <2>1, <2>2, ThreadsAre DEF IInv, Clean, Unopened
  <2>8. since["main"] \in 0 .. MaxGap /\ quiet \in 0 .. StaleAfter + 1
    BY ThreadsAre DEF IInv, TypeOK
  <2>9. sampler = "off"
    BY <1>1 DEF IInv, Threading
  <2>10. Timely'
    BY <1>1, <1>2, <2>1, <2>2, <2>3, <2>8, <2>9, ThreadsAre DEF IInv, Timely
  <2>11. Answered'
    BY <1>1, <2>1 DEF IInv, Answered
  <2> QED
    BY <2>4, <2>5, <2>6, <2>7, <2>10, <2>11 DEF IInv
<1>3. CASE log = FALSE
  <2>1. Proceed("main")
    BY <1>3 DEF FirstSample
  <2>2. /\ act' = [act EXCEPT !["main"] = "idle"] /\ UNCHANGED case /\ pc' = "dispatch"
    BY <1>1, <2>1, ProceedOfMain
  <2>3. ThreadTypes' /\ Threading'
    BY <1>1, <2>1, ThreadsAre, ProceedKeeps DEF IInv
  <2>4. TypeOK'
    BY <1>1, <2>3 DEF IInv, TypeOK, ThreadTypes
  <2>5. Logged'
    BY <1>1, <2>2, ThreadsAre DEF IInv, TypeOK, Logged, Unopened, AllEnded
  <2>6. Clean'
    BY <1>1, <1>3, <2>2 DEF IInv, Clean, Unopened
  <2>7. Timely'
    BY <1>1, <1>3 DEF Timely
  <2>8. Answered'
    BY <1>1, <1>3, <2>2 DEF IInv, Answered
  <2> QED
    BY <2>3, <2>4, <2>5, <2>6, <2>7, <2>8 DEF IInv
<1> QED
  BY <1>2, <1>3 DEF IInv, TypeOK

LEMMA EndDispatchKeeps ==
    ASSUME IInv, EndDispatch
    PROVE  IInv'
<1>1. /\ pc = "dispatch" /\ pc' = "join" /\ stop' = TRUE /\ since' = Restarted("main")
      /\ \A c \in Cases : case[c] \notin {"running", "recording"}
      /\ UNCHANGED <<case, sampler, act, log, open, row, recorded, sampled, quiet, reader,
                     answer, faults>>
  BY DEF EndDispatch
<1>2. /\ since' \in [Timed -> 0 .. MaxGap]
      /\ since'["main"] = 0 /\ since'["sampler"] = since["sampler"]
  BY <1>1, ThreadsAre DEF Restarted, IInv, TypeOK
<1>3. TypeOK'
  BY <1>1, <1>2 DEF IInv, TypeOK, Phases
<1>4. Threading'
  BY <1>1, ThreadsAre DEF IInv, TypeOK, Threading
<1>5. Logged'
  BY <1>1, ThreadsAre DEF IInv, Logged, Unopened, AllEnded
<1>6. Clean'
  BY <1>1 DEF IInv, Clean, Unopened
<1>7. Timely'
  BY <1>1, <1>2, ThreadsAre DEF IInv, Threading, Timely
<1>8. Answered'
  BY <1>1 DEF IInv, Answered
<1> QED
  BY <1>3, <1>4, <1>5, <1>6, <1>7, <1>8 DEF IInv

\* Join, Report and a crash only move pc.
LEMMA MainEndsKeeps ==
    ASSUME IInv, Join \/ Report \/ Crash
    PROVE  IInv'
<1>1. /\ ~Over
      /\ UNCHANGED <<case, sampler, stop, act, log, open, row, recorded, sampled, quiet,
                     since, reader, answer>>
  BY DEF Join, Report, Crash
<1>2. /\ pc' \in {"report", "finish", "exit", "dead"}
      /\ pc' # "dead" => pc \in {"join", "report"}
  BY DEF Join, Report, Crash
<1>3. /\ faults' \in 0 .. MaxFaults
      /\ faults' = 0 => faults = 0 /\ (Join \/ (Report /\ pc' = "finish"))
  BY DEF Join, Report, Crash, IInv, TypeOK
<1>4. TypeOK'
  BY <1>1, <1>2, <1>3 DEF IInv, TypeOK, Phases
<1>5. Threading'
  BY <1>1, <1>2, ThreadsAre DEF IInv, Threading
<1>6. Logged'
  BY <1>1, <1>2 DEF IInv, Logged, Unopened, AllEnded
<1>7. Clean'
  <2> SUFFICES ASSUME faults' = 0 PROVE Clean'
    BY DEF Clean
  <2>1. /\ faults = 0 /\ pc \in {"join", "report"} /\ log = TRUE /\ open = TRUE
        /\ \A t \in Threads : act[t] \in {"idle", "writing"}
    BY <1>3 DEF Join, Report, IInv, Clean, Unopened
  <2>2. /\ pc' \in {"report", "exit", "finish"}
        /\ pc' = "exit" => \E c \in Cases : case[c] = "raised"
    BY <1>3 DEF Join, Report
  <2> QED
    BY <1>1, <2>1, <2>2 DEF Clean, Unopened
<1>8. Timely'
  <2> SUFFICES ASSUME row = "running", pc' \notin {"exit", "dead"}, log = TRUE PROVE Timely'
    BY <1>1 DEF Timely
  <2>1. pc' \notin {"begin", "first_sample"}
    BY <1>2
  <2> QED
    BY <1>1, <2>1 DEF IInv, Timely
<1>9. Answered'
  <2>1. answer = "stale" => log = FALSE
    BY <1>1 DEF IInv, Answered
  <2> QED
    BY <1>1, <2>1 DEF IInv, Answered
<1> QED
  BY <1>4, <1>5, <1>6, <1>7, <1>8, <1>9 DEF IInv

LEMMA FinishKeeps ==
    ASSUME IInv, Finish
    PROVE  IInv'
<1>1. /\ pc = "finish" /\ act["main"] = "idle"
      /\ UNCHANGED <<case, sampler, stop, log, open, row, recorded, sampled, quiet, since,
                     reader, answer, faults>>
  BY DEF Finish
<1>2. CASE log = TRUE
  <2>1. Enter("main") /\ UNCHANGED pc
    BY <1>2 DEF Finish
  <2>2. /\ act' \in [Threads -> {"idle", "writing", "failing", "closed"}]
        /\ \A t \in Threads : act'[t] = IF t = "main" THEN "writing" ELSE act[t]
    BY <2>1, ThreadsAre DEF Enter, IInv, TypeOK
  <2>3. TypeOK'
    BY <1>1, <2>1, <2>2 DEF IInv, TypeOK
  <2>4. Threading'
    BY <1>1, <2>1, <2>2, ThreadsAre DEF IInv, Threading
  <2>5. Logged'
    BY <1>1, <2>1, <2>2, ThreadsAre DEF IInv, Logged, Unopened, AllEnded
  <2>6. Clean'
    BY <1>1, <2>1, <2>2, ThreadsAre DEF IInv, Clean, Unopened
  <2>7. Timely'
    BY <1>1, <2>1, <2>2, ThreadsAre DEF IInv, Timely
  <2>8. Answered'
    BY <1>1, <2>1 DEF IInv, Answered
  <2> QED
    BY <2>3, <2>4, <2>5, <2>6, <2>7, <2>8 DEF IInv
<1>3. CASE log = FALSE
  <2>1. pc' = "exit" /\ UNCHANGED act
    BY <1>3 DEF Finish
  <2>2. TypeOK'
    BY <1>1, <2>1 DEF IInv, TypeOK
  <2>3. Threading'
    BY <1>1, <2>1, ThreadsAre DEF IInv, Threading
  <2>4. Logged'
    BY <1>1, <2>1 DEF IInv, Logged, Unopened, AllEnded
  <2>5. Clean'
    BY <1>1, <1>3 DEF IInv, Clean, Unopened
  <2>6. Timely'
    BY <2>1 DEF Timely
  <2>7. Answered'
    BY <1>1, <2>1 DEF IInv, Answered
  <2> QED
    BY <2>2, <2>3, <2>4, <2>5, <2>6, <2>7 DEF IInv
<1> QED
  BY <1>2, <1>3 DEF IInv, TypeOK

LEMMA CloseKeeps ==
    ASSUME IInv, Close
    PROVE  IInv'
<1>1. /\ pc = "close" /\ pc' = "exit"
      /\ UNCHANGED <<case, sampler, stop, act, log, row, recorded, sampled, quiet, since,
                     reader, answer, faults>>
  BY DEF Close
<1>2. open' = FALSE
  BY DEF Close, IInv, TypeOK, Logged
<1>3. TypeOK'
  BY <1>1, <1>2 DEF IInv, TypeOK
<1>4. Threading'
  BY <1>1, ThreadsAre DEF IInv, Threading
<1>5. Logged'
  BY <1>1, <1>2 DEF IInv, Logged, Unopened, AllEnded
<1>6. Clean'
  BY <1>1 DEF IInv, Clean, Unopened
<1>7. Timely'
  BY <1>1 DEF Timely
<1>8. Answered'
  BY <1>1 DEF IInv, Answered
<1> QED
  BY <1>3, <1>4, <1>5, <1>6, <1>7, <1>8 DEF IInv

-----------------------------------------------------------------------------
(* The workers, the sampler, the dashboard and the clock.                  *)

LEMMA StartCaseKeeps ==
    ASSUME IInv, NEW c \in Cases, StartCase(c)
    PROVE  IInv'
<1>1. /\ pc = "dispatch" /\ case[c] = "queued"
      /\ UNCHANGED <<pc, sampler, stop, act, log, open, row, recorded, sampled, quiet, since,
                     reader, answer, faults>>
  BY DEF StartCase
<1>2. /\ case' \in [Cases -> {"queued", "running", "recording", "ended", "raised"}]
      /\ \A d \in Cases : case'[d] = IF d = c THEN "running" ELSE case[d]
  BY DEF StartCase, IInv, TypeOK
<1>3. AllEnded' = AllEnded /\ row # "done"
  BY <1>1, <1>2 DEF AllEnded, IInv, Logged
<1>4. TypeOK'
  BY <1>1, <1>2 DEF IInv, TypeOK
<1>5. Threading'
  BY <1>1, <1>2, ThreadsAre DEF IInv, Threading
<1>6. Logged'
  BY <1>1, <1>3 DEF IInv, Logged, Unopened
<1>7. Clean'
  BY <1>1 DEF IInv, Clean, Unopened
<1>8. Timely'
  BY <1>1 DEF IInv, Timely
<1>9. Answered'
  BY <1>1 DEF IInv, Answered
<1> QED
  BY <1>4, <1>5, <1>6, <1>7, <1>8, <1>9 DEF IInv

LEMMA EndCaseKeeps ==
    ASSUME IInv, NEW c \in Cases, EndCase(c)
    PROVE  IInv'
<1>1. /\ pc = "dispatch" /\ case[c] = "running" /\ row # "done"
      /\ UNCHANGED <<pc, sampler, stop, log, open, row, recorded, sampled, quiet, since,
                     reader, answer, faults>>
  BY DEF EndCase, IInv, Logged
<1>2. act[c] = "idle"
  BY <1>1 DEF IInv, Threading
<1>3. PICK s \in {"recording", "ended", "raised"} :
        /\ case' = [case EXCEPT ![c] = s]
        /\ s = "recording" => log = TRUE /\ Enter(c)
        /\ s = "ended" => log = FALSE
        /\ s # "recording" => UNCHANGED act
  BY DEF EndCase
<1>4. /\ case' \in [Cases -> {"queued", "running", "recording", "ended", "raised"}]
      /\ \A d \in Cases : case'[d] = IF d = c THEN s ELSE case[d]
  BY <1>3 DEF IInv, TypeOK
<1>5. /\ act' \in [Threads -> {"idle", "writing", "failing", "closed"}]
      /\ \A t \in Threads : act'[t] = act[t] \/ (t = c /\ s = "recording" /\ act'[t] = "writing")
  BY <1>2, <1>3, ThreadsAre DEF Enter, IInv, TypeOK
<1>6. AllEnded \subseteq AllEnded' /\ (log = TRUE => AllEnded' = AllEnded)
  BY <1>1, <1>3, <1>4 DEF AllEnded
<1>7. TypeOK'
  BY <1>1, <1>4, <1>5 DEF IInv, TypeOK
<1>8. Threading'
  BY <1>1, <1>4, <1>5, ThreadsAre DEF IInv, Threading
<1>9. Logged'
  BY <1>1, <1>5, <1>6, ThreadsAre DEF IInv, Logged, Unopened
<1>10. Clean'
  BY <1>1, <1>5, ThreadsAre DEF IInv, Clean, Unopened
<1>11. Timely'
  BY <1>1, <1>5, ThreadsAre DEF IInv, Timely
<1>12. Answered'
  BY <1>1 DEF IInv, Answered
<1> QED
  BY <1>7, <1>8, <1>9, <1>10, <1>11, <1>12 DEF IInv

LEMMA SampleKeeps ==
    ASSUME IInv, Sample
    PROVE  IInv'
<1>1. /\ ~Over /\ act["sampler"] = "idle" /\ sampler \in {"waiting", "probing"}
      /\ pc \notin {"begin", "first_sample"}
      /\ UNCHANGED <<pc, case, stop, log, open, row, recorded, sampled, quiet, reader,
                     answer, faults>>
  BY DEF Sample, IInv, Threading
<1>2. /\ since["main"] \in 0 .. MaxGap /\ since["sampler"] \in 0 .. MaxGap
      /\ quiet \in 0 .. StaleAfter + 1
  BY ThreadsAre DEF IInv, TypeOK
<1>3. row = "running" /\ log = TRUE => quiet <= since["sampler"] + MaxGap
  BY <1>1 DEF IInv, Timely
<1>4. Answered'
  BY <1>1 DEF IInv, Answered
<1>5. CASE /\ sampler = "waiting" /\ sampler' = (IF stop THEN "over" ELSE "probing")
           /\ UNCHANGED <<act, since>>
  <2>1. sampler' \in {"probing", "over"} /\ (sampler' = "over" => stop = TRUE)
    BY <1>5 DEF IInv, TypeOK
  <2>2. TypeOK'
    BY <1>1, <1>5, <2>1 DEF IInv, TypeOK
  <2>3. Threading'
    BY <1>1, <1>5, <2>1, ThreadsAre DEF IInv, Threading
  <2>4. Logged'
    BY <1>1, <1>5 DEF IInv, Logged, Unopened, AllEnded
  <2>5. Clean'
    BY <1>1, <1>5 DEF IInv, Clean, Unopened
  <2>6. Timely'
    BY <1>1, <1>2, <1>3, <1>5, <2>1 DEF Timely
  <2> QED
    BY <1>4, <2>2, <2>3, <2>4, <2>5, <2>6 DEF IInv
<1>6. CASE /\ sampler = "probing" /\ sampler' = "waiting" /\ since' = Restarted("sampler")
           /\ IF log THEN Enter("sampler") ELSE UNCHANGED act
  <2>1. /\ act' \in [Threads -> {"idle", "writing", "failing", "closed"}]
        /\ \A t \in Threads : act'[t] = act[t] \/ (t = "sampler" /\ act'[t] = "writing")
        /\ log = TRUE => act'["sampler"] = "writing"
    BY <1>6, ThreadsAre DEF Enter, IInv, TypeOK
  <2>2. /\ since' \in [Timed -> 0 .. MaxGap]
        /\ since'["sampler"] = 0 /\ since'["main"] = since["main"]
    BY <1>6, ThreadsAre DEF Restarted, IInv, TypeOK
  <2>3. TypeOK'
    BY <1>1, <1>6, <2>1, <2>2 DEF IInv, TypeOK
  <2>4. Threading'
    BY <1>1, <1>6, <2>1, ThreadsAre DEF IInv, Threading
  <2>5. Logged'
    BY <1>1, <2>1, ThreadsAre DEF IInv, Logged, Unopened, AllEnded
  <2>6. Clean'
    BY <1>1, <2>1, ThreadsAre DEF IInv, Clean, Unopened
  <2>7. Timely'
    BY <1>1, <1>2, <1>3, <1>6, <2>1, <2>2 DEF Timely
  <2> QED
    BY <1>4, <2>3, <2>4, <2>5, <2>6, <2>7 DEF IInv
<1> QED
  BY <1>5, <1>6 DEF Sample

\* What the dashboard read stays true, or fresh, until it answers.
LEMMA LookKeeps ==
    ASSUME IInv, Look
    PROVE  IInv'
<1>1. UNCHANGED <<pc, case, sampler, stop, act, log, open, row, recorded, sampled, quiet,
                  since, faults>>
  BY DEF Look
<1>2. quiet \in 0 .. StaleAfter + 1
  BY DEF IInv, TypeOK
<1>3. TypeOK'
  BY <1>1 DEF Look, IInv, TypeOK
<1>4. Threading' /\ Logged' /\ Clean' /\ Timely'
  BY <1>1 DEF IInv, Threading, Logged, Clean, Timely, Unopened, AllEnded
<1>5. Answered'
  <2>1. CASE /\ reader = "idle"
             /\ IF row = "running" THEN reader' = "running" /\ UNCHANGED answer
                                   ELSE answer' = row /\ UNCHANGED reader
    <3>1. row \in {"none", "running", "done"}
      BY DEF IInv, TypeOK
    <3> QED
      BY <1>1, <2>1, <3>1 DEF IInv, Answered
  <2>2. CASE /\ reader = "running" /\ reader' = "idle"
             /\ answer' = (IF IsStale THEN "stale" ELSE "running")
    <3>1. CASE quiet > StaleAfter
      <4>1. row = "running"
        BY <1>2, <2>2, <3>1 DEF IInv, Answered
      <4>2. Over \/ log = FALSE
        <5>1. ~(quiet <= StaleAfter)
          BY <1>2, <3>1
        <5>2. log \in BOOLEAN
          BY DEF IInv, TypeOK
        <5> QED
          BY <4>1, <5>1, <5>2, LiveIsNotStale
      <4> QED
        BY <1>1, <2>2, <3>1, <4>1, <4>2 DEF Answered
    <3>2. CASE ~(quiet > StaleAfter)
      BY <1>1, <2>2, <3>2 DEF Answered, IsStale
    <3> QED
      BY <3>1, <3>2
  <2> QED
    BY <2>1, <2>2 DEF Look
<1> QED
  BY <1>3, <1>4, <1>5 DEF IInv

LEMMA TickKeeps ==
    ASSUME IInv, Tick
    PROVE  IInv'
<1>1. /\ InTime /\ reader = "idle"
      /\ UNCHANGED <<pc, case, sampler, stop, act, log, open, row, recorded, sampled, reader,
                     answer, faults>>
  BY DEF Tick, InTime
<1>2. /\ since["main"] \in 0 .. MaxGap /\ since["sampler"] \in 0 .. MaxGap
      /\ quiet \in 0 .. StaleAfter + 1
  BY ThreadsAre DEF IInv, TypeOK
<1>3. /\ quiet' \in 0 .. StaleAfter + 1 /\ quiet' <= quiet + 1
      /\ quiet > StaleAfter => quiet' > StaleAfter
  BY <1>2 DEF Tick, Smaller
<1>4. /\ since' \in [Timed -> 0 .. MaxGap]
      /\ \A t \in Timed : since[t] < MaxGap => since'[t] = since[t] + 1
  BY DEF Tick, Smaller, IInv, TypeOK
<1>5. TypeOK'
  BY <1>1, <1>3, <1>4 DEF IInv, TypeOK
<1>6. Threading' /\ Logged' /\ Clean'
  BY <1>1 DEF IInv, Threading, Logged, Clean, Unopened, AllEnded
<1>7. Timely'
  <2>1. ~Over /\ pc # "dispatch" => since'["main"] = since["main"] + 1
    BY <1>1, <1>4, ThreadsAre DEF InTime
  <2>2. ~Over /\ sampler \in {"waiting", "probing"} => since'["sampler"] = since["sampler"] + 1
    BY <1>1, <1>4, ThreadsAre DEF InTime
  <2>3. sampler = "over" => pc # "dispatch"
    BY DEF IInv, Threading
  <2> QED
    BY <1>1, <1>2, <1>3, <2>1, <2>2, <2>3 DEF IInv, Timely
<1>8. Answered'
  BY <1>1, <1>3 DEF IInv, Answered
<1> QED
  BY <1>5, <1>6, <1>7, <1>8 DEF IInv

LEMMA NextKeeps ==
    ASSUME IInv, [Next]_vars
    PROVE  IInv'
<1>1. CASE Main
  BY <1>1, ThreadsAre, BeginKeeps, FirstSampleKeeps, EndDispatchKeeps, MainEndsKeeps,
     FinishKeeps, CloseKeeps, RecorderKeeps DEF Main
<1>2. CASE Crash
  BY <1>2, MainEndsKeeps
<1>3. CASE Sampler
  BY <1>3, ThreadsAre, SampleKeeps, RecorderKeeps DEF Sampler
<1>4. CASE Look
  BY <1>4, LookKeeps
<1>5. CASE Tick
  BY <1>5, TickKeeps
<1>6. CASE \E c \in Cases : Worker(c)
  BY <1>6, ThreadsAre, StartCaseKeeps, EndCaseKeeps, RecorderKeeps DEF Worker
<1>7. CASE UNCHANGED vars
  BY <1>7 DEF IInv, TypeOK, Threading, Logged, Clean, Timely, Answered, Unopened, AllEnded
<1> QED
  BY <1>1, <1>2, <1>3, <1>4, <1>5, <1>6, <1>7 DEF Next

-----------------------------------------------------------------------------
(* The theorems.                                                           *)

\* IInv holds in every state of every run.
THEOREM Inductive == Spec => []IInv
<1>1. Init => IInv
  BY InitKeeps
<1>2. IInv /\ [Next]_vars => IInv'
  BY NextKeeps
<1> QED
  BY <1>1, <1>2, PTL DEF Spec

\* The variables have their types.
THEOREM TypeCorrect == Spec => []TypeOK
<1>1. IInv => TypeOK
  BY DEF IInv
<1> QED
  BY <1>1, Inductive, PTL

\* A result is only ever written to a log that lost no case run before it: _fail closes
\* the store first and drops it after, so no later write of any thread gets through.
THEOREM DoneRunsAreComplete == Spec => []DoneIsComplete
<1>1. IInv => DoneIsComplete
  BY DEF IInv, Logged, AllEnded, DoneIsComplete
<1> QED
  BY <1>1, Inductive, PTL

\* Without a fault a run that ends, and whose workers raised nothing, is on record.
THEOREM CleanRunsAreRecorded == Spec => []CleanRunIsRecorded
<1>1. IInv => CleanRunIsRecorded
  BY DEF IInv, Clean, CleanRunIsRecorded
<1> QED
  BY <1>1, Inductive, PTL

\* With StaleAfter at three gaps or more, "stale" is only said of a run whose process or
\* log is gone, whatever the two statements of the dashboard have between them.
THEOREM StaleRunsAreDeadOrOff == Spec => []StaleIsDeadOrOff
<1>1. IInv => StaleIsDeadOrOff
  BY DEF IInv, Answered, StaleIsDeadOrOff
<1> QED
  BY <1>1, Inductive, PTL

\* A run that was called stale is never called anything else.
THEOREM StaleStaysStale == Spec => StaleIsForGood
<1>1. IInv /\ [Next]_vars => [answer = "stale" => answer' = "stale"]_answer
  <2> SUFFICES ASSUME IInv, [Next]_vars, answer = "stale", answer' # answer
               PROVE  answer' = "stale"
    OBVIOUS
  <2>1. row = "running" /\ quiet > StaleAfter
    BY DEF IInv, Answered
  <2>2. Look
    BY DEF Next, Main, Recorder, Worker, Sampler, Begin, FirstSample, EndDispatch, Join,
           Report, Finish, Close, Crash, Write, Fail, TurnOff, StartCase, EndCase, Sample, Tick
  <2> QED
    BY <2>1, <2>2 DEF Look, IsStale
<1> QED
  BY <1>1, Inductive, PTL DEF Spec, StaleIsForGood

-----------------------------------------------------------------------------
(* The history implements Journal.tla.                                     *)

\* What the dashboard has read and said is not ahead of the record, and an open connection
\* has the run's row from begin() on.
Reading ==
    /\ row = "none" => answer = "none"
    /\ answer = "done" => row = "done"
    /\ reader = "running" => answer # "done" /\ row # "none"
    /\ open = TRUE /\ pc \notin {"begin", "dead"} => row # "none"

\* Who changes the run's row.
LEMMA RowSteps ==
    ASSUME IInv, [Next]_vars
    PROVE  \/ row' = row
           \/ /\ pc = "begin" /\ row' = "running" /\ UNCHANGED <<reader, answer>>
           \/ /\ pc = "finish" /\ row' = "done" /\ UNCHANGED <<reader, answer>>
<1>1. ASSUME NEW t \in Threads, Recorder(t), row' # row
      PROVE  \/ pc = "begin" /\ row' = "running" /\ UNCHANGED <<reader, answer>>
             \/ pc = "finish" /\ row' = "done" /\ UNCHANGED <<reader, answer>>
  <2>1. Write(t) /\ Store(t)
    BY <1>1 DEF Recorder, Write, Fail, TurnOff
  <2> QED
    BY <1>1, <2>1 DEF Write, Store
<1>2. CASE row' # row
  BY <1>1, <1>2, ThreadsAre DEF Next, Main, Begin, FirstSample, EndDispatch, Join, Report, Finish,
     Close, Crash, Sampler, Sample, Worker, StartCase, EndCase, Look, Tick
<1> QED
  BY <1>2

\* Who opens the connection, and who gets past begin().
LEMMA OpenSteps ==
    ASSUME IInv, [Next]_vars, open' = TRUE, pc' \notin {"begin", "dead"}
    PROVE  \/ open = TRUE /\ pc \notin {"begin", "dead"}
           \/ row' # "none"
<1>0. Unopened => open # TRUE
  BY DEF IInv, Logged
<1>1. ASSUME NEW t \in Threads, Recorder(t) 
      PROVE  open = TRUE /\ pc # "dead" /\ (pc # "begin" \/ row' # "none")
  <2>1. CASE Write(t) /\ Store(t) /\ Proceed(t)
    <3>1. CASE t = "main" /\ pc = "begin"
      BY <2>1, <3>1, ThreadsAre DEF Write, Store
    <3>2. CASE t # "main"
      BY <2>1, <3>2, ThreadsAre DEF Write, Proceed
    <3> QED
      BY <2>1, <3>1, <3>2 DEF Write
  <2>2. CASE Write(t) /\ pc' = pc
    BY <2>2 DEF Write
  <2>3. CASE Fail(t)
    <3>1. CASE log
      BY <2>3, <3>1 DEF Fail, FirstClosesIt
    <3>2. CASE ~log
      BY <2>3, <3>2 DEF Fail, FirstClosesIt, IInv, Logged, TypeOK
    <3> QED
      BY <3>1, <3>2
  <2>4. CASE TurnOff(t)
    BY <2>4 DEF TurnOff, IInv, Logged
  <2> QED
    BY <1>1, <2>1, <2>2, <2>3, <2>4 DEF Recorder, Write
<1>2. CASE Begin
  BY <1>0, <1>2 DEF Begin, Unopened
<1>3. CASE Close
  BY <1>3 DEF Close, IInv, TypeOK
<1>4. CASE FirstSample
  BY <1>4 DEF FirstSample
<1>5. CASE EndDispatch \/ Join \/ Report \/ Finish
  BY <1>5 DEF EndDispatch, Join, Report, Finish
<1>6. CASE Crash
  BY <1>6 DEF Crash
<1>7. ASSUME NEW c \in Cases, StartCase(c) \/ EndCase(c) 
      PROVE  open = TRUE /\ pc \notin {"begin", "dead"}
  BY <1>7 DEF StartCase, EndCase
<1>8. CASE Sample \/ Look \/ Tick \/ UNCHANGED vars
  BY <1>8 DEF Sample, Look, Tick
<1> QED
  BY <1>1, <1>2, <1>3, <1>4, <1>5, <1>6, <1>7, <1>8, ThreadsAre DEF Next, Main, Sampler, Worker

\* Reading is an invariant.
LEMMA ReadingKept == Spec => []Reading
<1>1. Init => Reading
  BY DEF Init, Reading
<1>2. IInv /\ Reading /\ [Next]_vars => Reading'
  <2> SUFFICES ASSUME IInv, Reading, [Next]_vars PROVE Reading'
    OBVIOUS
  <2>1. row \in {"none", "running", "done"} /\ (pc = "begin" => row = "none")
    BY DEF IInv, TypeOK, Logged
  <2>2. row' = "none" => row = "none"
    BY RowSteps
  <2>3. open' = TRUE /\ pc' \notin {"begin", "dead"} => row' # "none"
    BY <2>2, OpenSteps DEF Reading
  <2>4. CASE UNCHANGED <<reader, answer>>
    <3>1. answer = "done" => row' = "done"
      BY <2>1, RowSteps DEF Reading
    <3> QED
      BY <2>2, <2>3, <2>4, <3>1 DEF Reading
  <2>5. CASE Look
    <3>1. row' = row
      BY <2>5 DEF Look
    <3> QED
      BY <2>1, <2>3, <2>5, <3>1 DEF Look, Reading
  <2>6. \/ UNCHANGED <<reader, answer>> \/ Look
    <3>1. ASSUME NEW t \in Threads, Recorder(t) PROVE UNCHANGED <<reader, answer>>
      BY <3>1 DEF Recorder, Write, Fail, TurnOff
    <3> QED
      BY <3>1, ThreadsAre DEF Next, Main, Begin, FirstSample, EndDispatch, Join, Report, Finish,
         Close, Crash, Sampler, Sample, Worker, StartCase, EndCase, Tick
  <2> QED
    BY <2>4, <2>5, <2>6
<1> QED
  BY <1>1, <1>2, Inductive, PTL DEF Spec

\* What the refinement mapping gives for the log.
LogState ==
    IF Over THEN "given_up"
    ELSE IF pc = "begin" /\ act["main"] = "idle" THEN "new"
    ELSE IF open THEN "kept" ELSE "given_up"

LEMMA LogStates ==
    ASSUME IInv
    PROVE  /\ Over => LogState = "given_up"
           /\ ~Over /\ Unopened => LogState = "new"
           /\ ~Over /\ ~Unopened /\ open = TRUE => LogState = "kept"
           /\ open = FALSE /\ ~Unopened => LogState = "given_up"
           /\ log = FALSE => open = FALSE
           /\ Unopened => open = FALSE
           /\ open \in BOOLEAN /\ log \in BOOLEAN
  BY DEF LogState, Unopened, IInv, TypeOK, Logged

LEMMA NextLogStates ==
    ASSUME IInv'
    PROVE  /\ pc' \in {"exit", "dead"} => LogState' = "given_up"
           /\ pc' \notin {"exit", "dead"} /\ Unopened' => LogState' = "new"
           /\ pc' \notin {"exit", "dead"} /\ ~Unopened' /\ open' = TRUE => LogState' = "kept"
           /\ open' = FALSE /\ ~Unopened' => LogState' = "given_up"
  BY DEF LogState, Unopened, IInv, TypeOK

Journaled == JournalOf!Next \/ UNCHANGED JournalOf!vars

\* A step that at most gives the log up.
LEMMA AtMostGivesUp ==
    ASSUME UNCHANGED <<AllEnded, recorded, row, answer>>, LogState' \in {LogState, "given_up"}
    PROVE  Journaled
<1>1. CASE LogState' = LogState
  BY <1>1 DEF Journaled, JournalOf!vars, LogState, AllEnded
<1>2. CASE LogState # "given_up" /\ LogState' = "given_up"
  <2>1. JournalOf!GiveUp
    BY <1>2 DEF JournalOf!GiveUp, LogState, AllEnded
  <2> QED
    BY <2>1 DEF JournalOf!Next, Journaled
<1> QED
  BY <1>1, <1>2

\* The end of a case run.
LEMMA EndsCase ==
    ASSUME IInv, IInv', NEW c \in Cases, case[c] # "ended",
           case' = [case EXCEPT ![c] = "ended"], UNCHANGED <<row, answer>>, row # "done",
           LogState # "new", LogState' = LogState,
           recorded' = IF LogState = "kept" THEN recorded \cup {c} ELSE recorded
    PROVE  Journaled
<1>1. AllEnded' = AllEnded \cup {c} /\ c \notin AllEnded
  BY DEF AllEnded, IInv, TypeOK
<1>2. JournalOf!End(c)
  BY <1>1 DEF JournalOf!End, LogState, AllEnded
<1> QED
  BY <1>2 DEF JournalOf!Next, Journaled

-----------------------------------------------------------------------------
(* The steps of the recorder:                                              *)

\* Where the threads in a write are.
LEMMA Writers ==
    ASSUME IInv, NEW t \in Threads, ~Over, act[t] # "idle"
    PROVE  /\ t \in Cases => case[t] = "recording" /\ pc # "begin" /\ row # "done"
           /\ ~Unopened
           /\ act[t] = "closed" => open = FALSE
<1>1. t \in Cases => case[t] = "recording"
  BY DEF IInv, Threading
<1>2. t \in Cases => pc # "begin" /\ row # "done"
  BY <1>1 DEF IInv, Threading, Logged
<1>3. t = "sampler" => pc # "begin"
  BY DEF IInv, Threading
<1> QED
  BY <1>1, <1>2, <1>3, ThreadsAre DEF IInv, Logged, Unopened

\* A thread goes on after a write that was lost with the connection.
LEMMA LostWriteIsJournaled ==
    ASSUME IInv, IInv', NEW t \in Threads, ~Over, act[t] # "idle", Proceed(t),
           open = FALSE, UNCHANGED <<open, recorded, row, answer>>
    PROVE  Journaled
<1>1. LogState = "given_up" /\ ~Unopened
  BY Writers, LogStates
<1>2. CASE t \in Cases
  <2>1. case' = [case EXCEPT ![t] = "ended"] /\ UNCHANGED pc
    BY <1>2, ProceedOfCase
  <2>2. ~Unopened'
    BY <1>2, <2>1, Writers DEF Unopened
  <2>3. LogState' = "given_up"
    BY <2>2, NextLogStates
  <2> QED
    BY <1>1, <1>2, <2>1, <2>3, Writers, EndsCase
<1>3. CASE t \notin Cases
  <2>1. AllEnded' = AllEnded
    BY <1>3, ThreadsAre, ProceedOfMain, ProceedOfSampler DEF AllEnded
  <2>2. ~Unopened'
    <3>1. CASE t = "main"
      BY <3>1, ProceedOfMain DEF Unopened, IInv, Threading
    <3>2. CASE t = "sampler"
      BY <3>2, ProceedOfSampler DEF Unopened, IInv, Threading
    <3> QED
      BY <1>3, <3>1, <3>2, ThreadsAre
  <2>3. LogState' = "given_up"
    BY <2>2, NextLogStates
  <2> QED
    BY <2>1, <2>3, AtMostGivesUp
<1> QED
  BY <1>2, <1>3

\* A write that is made is the next fact.
LEMMA StoreIsJournaled ==
    ASSUME IInv, IInv', Reading, NEW t \in Threads, ~Over, act[t] = "writing", open = TRUE,
           Store(t), Proceed(t), UNCHANGED <<open, answer>>
    PROVE  Journaled
<1>1. LogState = "kept" /\ ~Unopened
  BY Writers, LogStates
<1>2. CASE t \in Cases
  <2>1. case' = [case EXCEPT ![t] = "ended"] /\ UNCHANGED pc
    BY <1>2, ProceedOfCase
  <2>2. LogState' = "kept"
    <3>1. ~Unopened'
      BY <1>2, <2>1, Writers DEF Unopened
    <3> QED
      BY <2>1, <3>1, NextLogStates
  <2>3. recorded' = recorded \cup {t} /\ row' = row
    BY <1>2 DEF Store
  <2> QED
    BY <1>1, <1>2, <2>1, <2>2, <2>3, Writers, EndsCase
<1>3. CASE t = "main"
  <2>1. AllEnded' = AllEnded /\ pc \in {"begin", "first_sample", "finish"}
    BY <1>3, ProceedOfMain DEF AllEnded, IInv, Threading
  <2>2. LogState' = "kept"
    <3>1. pc' \in {"first_sample", "dispatch", "close"}
      BY <1>3, <2>1, ProceedOfMain
    <3> QED
      BY <3>1, NextLogStates DEF Unopened
  <2>3. CASE pc = "begin"
    <3>1. row = "none" /\ row' = "running" /\ recorded' = recorded
      BY <1>3, <2>3, ThreadsAre DEF Store, IInv, Logged
    <3>2. JournalOf!Register
      BY <1>1, <2>1, <2>2, <3>1 DEF JournalOf!Register, LogState, AllEnded
    <3> QED
      BY <3>2 DEF JournalOf!Next, Journaled
  <2>4. CASE pc = "finish"
    <3>1. row' = "done" /\ recorded' = recorded
      BY <1>3, <2>4, ThreadsAre DEF Store
    <3>2. row = "running"
      BY <2>4 DEF Reading, IInv, TypeOK, Logged
    <3>3. JournalOf!Finish
      BY <1>1, <2>1, <2>2, <3>1, <3>2 DEF JournalOf!Finish, LogState, AllEnded
    <3> QED
      BY <3>3 DEF JournalOf!Next, Journaled
  <2>5. CASE pc = "first_sample"
    <3>1. UNCHANGED <<recorded, row>>
      BY <1>3, <2>5, ThreadsAre DEF Store
    <3> QED
      BY <1>1, <2>1, <2>2, <3>1, AtMostGivesUp
  <2> QED
    BY <2>1, <2>3, <2>4, <2>5
<1>4. CASE t = "sampler"
  <2>1. AllEnded' = AllEnded /\ pc' = pc
    BY <1>4, ProceedOfSampler DEF AllEnded
  <2>2. UNCHANGED <<recorded, row>>
    BY <1>4, ThreadsAre DEF Store
  <2>3. LogState' = "kept"
    <3>1. pc # "begin"
      BY <1>4 DEF IInv, Threading
    <3> QED
      BY <2>1, <3>1, NextLogStates DEF Unopened
  <2> QED
    BY <1>1, <2>1, <2>2, <2>3, AtMostGivesUp
<1> QED
  BY <1>2, <1>3, <1>4, ThreadsAre

\* A write that fails, its thread turning the log off, and the threads that find it off.
LEMMA RecorderIsJournaled ==
    ASSUME IInv, IInv', Reading, NEW t \in Threads, Recorder(t)
    PROVE  Journaled
<1>0. /\ ~Over /\ act[t] # "idle" /\ answer' = answer /\ open \in BOOLEAN
      /\ act \in [Threads -> {"idle", "writing", "failing", "closed"}]
  BY LogStates DEF Recorder, Write, Fail, TurnOff, IInv, TypeOK
<1>1. CASE Write(t) /\ ~Broken(t) /\ Store(t) /\ Proceed(t)
  <2>1. open = TRUE /\ act[t] = "writing" /\ open' = open
    BY <1>0, <1>1 DEF Write, Broken
  <2> QED
    BY <1>0, <1>1, <2>1, StoreIsJournaled
<1>2. ASSUME act' = [act EXCEPT ![t] = "failing"] \/ act' = [act EXCEPT ![t] = "closed"],
             UNCHANGED <<pc, case, recorded, row>>, open' \in {open, FALSE}
      PROVE  Journaled
  <2>1. ~Unopened /\ ~Unopened'
    <3>1. ~Unopened
      BY <1>0, Writers
    <3>2. act["main"] # "idle" => act'["main"] # "idle"
      BY <1>0, <1>2, ThreadsAre
    <3> QED
      BY <1>2, <3>1, <3>2 DEF Unopened
  <2>2. AllEnded' = AllEnded
    BY <1>2 DEF AllEnded
  <2>3. LogState' \in {LogState, "given_up"}
    BY <1>0, <1>2, <2>1, LogStates, NextLogStates
  <2> QED
    BY <1>0, <1>2, <2>2, <2>3, AtMostGivesUp
<1>3. CASE Write(t) /\ act' = [act EXCEPT ![t] = "failing"] /\ UNCHANGED <<pc, case, dbVars>>
  BY <1>2, <1>3 DEF Write
<1>4. CASE Fail(t)
  <2>1. CASE log = TRUE
    BY <1>2, <1>4, <2>1 DEF Fail, FirstClosesIt
  <2>2. CASE log = FALSE
    <3>1. Proceed(t) /\ UNCHANGED <<open, recorded, row>>
      BY <1>4, <2>2 DEF Fail, FirstClosesIt
    <3> QED
      BY <1>0, <2>2, <3>1, LogStates, LostWriteIsJournaled
  <2> QED
    BY <2>1, <2>2, LogStates
<1>5. CASE TurnOff(t)
  <2>1. open = FALSE
    BY <1>0, <1>5, Writers DEF TurnOff
  <2> QED
    BY <1>0, <1>5, <2>1, LostWriteIsJournaled DEF TurnOff
<1> QED
  BY <1>1, <1>3, <1>4, <1>5 DEF Recorder, Write

-----------------------------------------------------------------------------
(* The other steps:                                                        *)

\* begin() opens the log, or there is none.
LEMMA BeginIsJournaled == ASSUME IInv, IInv', Begin PROVE Journaled
<1>0. LogState = "new" /\ open = FALSE /\ pc = "begin"
  BY LogStates DEF Begin, Unopened
<1>1. AllEnded' = AllEnded /\ UNCHANGED <<recorded, row, answer>>
  BY DEF Begin, AllEnded
<1>2. CASE open' = TRUE /\ act' = [act EXCEPT !["main"] = "writing"] /\ pc' = pc
  <2>1. ~Unopened'
    BY <1>2, ThreadsAre DEF Unopened, IInv, TypeOK
  <2>2. LogState' = "kept"
    BY <1>0, <1>2, <2>1, NextLogStates
  <2>3. JournalOf!Open
    BY <1>0, <1>1, <2>2 DEF JournalOf!Open, LogState, AllEnded
  <2> QED
    BY <2>3 DEF JournalOf!Next, Journaled
<1>3. CASE pc' = "first_sample" /\ open' = open
  <2>1. LogState' = "given_up"
    BY <1>0, <1>3, NextLogStates DEF Unopened
  <2> QED
    BY <1>1, <2>1, AtMostGivesUp
<1> QED
  BY <1>2, <1>3 DEF Begin, Enter

\* After begin() the main thread only ends the log.
LEMMA MainIsJournaled ==
    ASSUME IInv, IInv',
           FirstSample \/ EndDispatch \/ Join \/ Report \/ Finish \/ Close \/ Crash
    PROVE  Journaled
<1>1. UNCHANGED <<case, recorded, row, answer>>
  BY ProceedOfMain DEF FirstSample, EndDispatch, Join, Report, Finish, Close, Crash
<1>2. AllEnded' = AllEnded
  BY <1>1 DEF AllEnded
<1>3. CASE Crash
  <2>1. LogState' = "given_up"
    BY <1>3, NextLogStates DEF Crash
  <2> QED
    BY <1>1, <1>2, <2>1, AtMostGivesUp
<1>4. CASE FirstSample \/ EndDispatch \/ Join \/ Report \/ Finish \/ Close
  <2>1. ~Over /\ pc # "begin" /\ pc' # "begin"
    BY <1>4, ProceedOfMain DEF FirstSample, EndDispatch, Join, Report, Finish, Close
  <2>2. open \in BOOLEAN /\ (open' = open \/ open' = FALSE)
    BY <1>4, LogStates DEF FirstSample, EndDispatch, Join, Report, Finish, Close
  <2>3. LogState' \in {LogState, "given_up"}
    BY <2>1, <2>2, LogStates, NextLogStates DEF Unopened
  <2> QED
    BY <1>1, <1>2, <2>3, AtMostGivesUp
<1> QED
  BY <1>3, <1>4

\* A worker without a log ends its case unrecorded.
LEMMA WorkerIsJournaled ==
    ASSUME IInv, IInv', NEW c \in Cases, StartCase(c) \/ EndCase(c)
    PROVE  Journaled
<1>0. /\ pc = "dispatch" /\ pc' = pc /\ open' = open /\ UNCHANGED <<recorded, row, answer>>
      /\ case \in [Cases -> {"queued", "running", "recording", "ended", "raised"}]
  BY DEF StartCase, EndCase, IInv, TypeOK
<1>1. LogState' = LogState
  BY <1>0 DEF LogState
<1>2. CASE \E s \in {"running", "recording", "raised"} :
             case[c] # "ended" /\ case' = [case EXCEPT ![c] = s]
  <2>1. AllEnded' = AllEnded
    BY <1>0, <1>2 DEF AllEnded
  <2> QED
    BY <1>0, <1>1, <2>1, AtMostGivesUp
<1>3. CASE log = FALSE /\ case[c] = "running" /\ case' = [case EXCEPT ![c] = "ended"]
  <2>1. LogState = "given_up"
    BY <1>0, <1>3, LogStates DEF Unopened
  <2>2. row # "done"
    BY <1>0 DEF IInv, Logged
  <2> QED
    BY <1>0, <1>1, <1>3, <2>1, <2>2, EndsCase
<1> QED
  BY <1>2, <1>3, LogStates DEF StartCase, EndCase

\* The dashboard's answers move on.
LEMMA LookIsJournaled == ASSUME IInv, IInv', Reading, Look PROVE Journaled
<1>0. /\ UNCHANGED <<AllEnded, recorded, row>> /\ LogState' = LogState
      /\ row \in {"none", "running", "done"} /\ answer \in {"none", "running", "done", "stale"}
  BY DEF Look, AllEnded, LogState, IInv, TypeOK
<1>1. CASE answer' = answer
  BY <1>0, <1>1, AtMostGivesUp
<1>2. CASE answer' # answer
  <2>1. row = "none" => answer = "none"
    BY DEF Reading
  <2>2. answer = "stale" => row = "running" /\ quiet > StaleAfter
    BY DEF IInv, Answered
  <2>3. CASE reader = "idle"
    <3>1. row # "running" /\ answer' = row
      BY <1>2, <2>3 DEF Look
    <3>2. row = "done" /\ answer # "stale" /\ answer' = "done"
      BY <1>0, <1>2, <2>1, <2>2, <3>1
    <3> QED
      BY <1>0, <3>2 DEF JournalOf!Say, JournalOf!Next, Journaled, LogState, AllEnded
  <2>4. CASE reader = "running" /\ quiet <= StaleAfter
    <3>1. answer' = "running" /\ answer \in {"none", "running"} /\ row # "none"
      <4>1. quiet \in Int /\ StaleAfter \in Int
        BY DEF IInv, TypeOK
      <4>2. answer # "stale"
        BY <2>2, <2>4, <4>1
      <4>3. ~IsStale
        BY <2>4, <4>1 DEF IsStale
      <4> QED
        BY <1>0, <2>4, <4>2, <4>3 DEF Look, Reading
    <3> QED
      BY <1>0, <3>1 DEF JournalOf!Say, JournalOf!Next, Journaled, LogState, AllEnded
  <2>5. CASE reader = "running" /\ quiet > StaleAfter
    <3>1. answer' = "stale"
      BY <2>5 DEF Look, IsStale
    <3>2. row = "running"
      BY <2>5 DEF IInv, TypeOK, Answered
    <3>3. LogState = "given_up"
      <4>0. quiet \in Int /\ StaleAfter \in Int
        BY DEF IInv, TypeOK
      <4>1. ~Over => log = FALSE
        <5> SUFFICES ASSUME ~Over, log # FALSE PROVE FALSE
          OBVIOUS
        <5>1. log = TRUE
          BY LogStates
        <5>2. quiet <= StaleAfter
          BY <3>2, <5>1, LiveIsNotStale
        <5> QED
          BY <2>5, <4>0, <5>2
      <4>2. ~Unopened
        BY <3>2 DEF Unopened, IInv, Logged
      <4> QED
        BY <4>1, <4>2, LogStates
    <3> QED
      BY <1>0, <3>1, <3>2, <3>3 DEF JournalOf!Say, JournalOf!Next, Journaled, LogState, AllEnded
  <2>6. quiet \in Int /\ StaleAfter \in Int /\ reader \in {"idle", "running"}
    BY DEF IInv, TypeOK
  <2> QED
    BY <2>3, <2>4, <2>5, <2>6
<1> QED
  BY <1>1, <1>2

\* For any number of case runs, faults and gaps the history is a journal: nothing that ended
\* is missing from a record that goes on, a result closes it, and no answer is taken back.
THEOREM HistoryIsAJournal == Spec => ImplementsJournal
<1>1. Init => JournalOf!Init
  <2> SUFFICES ASSUME Init PROVE JournalOf!Init
    OBVIOUS
  <2>1. LogState = "new" /\ AllEnded = {}
    BY ThreadsAre DEF Init, LogState, AllEnded
  <2> QED
    BY <2>1 DEF Init, JournalOf!Init, LogState, AllEnded
<1>2. IInv /\ IInv' /\ Reading /\ [Next]_vars => [JournalOf!Next]_(JournalOf!vars)
  <2> SUFFICES ASSUME IInv, IInv', Reading, [Next]_vars PROVE Journaled
    BY DEF Journaled
  <2>1. CASE Sample \/ Tick \/ UNCHANGED vars
    <3>1. UNCHANGED <<pc, case, open, recorded, row, answer>>
      BY <2>1 DEF Sample, Tick
    <3>2. act'["main"] = act["main"]
      BY <2>1, ThreadsAre DEF Sample, Tick, Enter, IInv, TypeOK
    <3>3. LogState' = LogState /\ AllEnded' = AllEnded
      BY <3>1, <3>2 DEF LogState, AllEnded
    <3> QED
      BY <3>1, <3>3, AtMostGivesUp
  <2> QED
    BY <2>1, RecorderIsJournaled, BeginIsJournaled, MainIsJournaled, WorkerIsJournaled,
       LookIsJournaled, ThreadsAre DEF Next, Main, Sampler, Worker
<1> QED
  BY <1>1, <1>2, Inductive, ReadingKept, PTL DEF Spec, ImplementsJournal, JournalOf!Spec
=============================================================================
