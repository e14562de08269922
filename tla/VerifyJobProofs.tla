-------------------------- MODULE VerifyJobProofs --------------------------
(* What VerifyJob.tla promises, for any number of runners, jobs, faults    *)
(* and comments.                                                           *)
EXTENDS VerifyJob, SequenceTheorems, TLAPS

USE VerifyJobAssumption

Report(r, code) == [by |-> job[r], code |-> code, gating |-> gating[r]]
RunFiles == {"report"} \cup Payloads

\* Which files cv-infra verify has written before a step.
WrittenBefore(step) ==
    CASE step = "check" -> {"report"}
      [] step = "sticky" -> {"report", "check"}
      [] step = "summary" -> {"report", "check", "sticky"}
      [] step = "empty_gate" -> RunFiles
      [] OTHER -> {}

\* While the process runs: what it has written, all of it with its verdict.
Writing(r) ==
    at[r] \in CLISteps =>
        /\ status[r] = NoCode
        /\ IF at[r] \in {"request", "reject", "cases"} THEN verdict[r] = NoCode
                                                       ELSE verdict[r] # NoCode
        /\ \A f \in Files : dir[r][f] =
             IF f \in WrittenBefore(at[r]) THEN Report(r, verdict[r]) ELSE NoFile

\* After it: no file is of another job, all whole ones say the verdict, and the status
\* is backed.
Written(r) ==
    at[r] \in JobSteps =>
        /\ \A f \in Files : dir[r][f].by \in {job[r], NoJob}
        /\ \A f \in RunFiles : Whole(dir[r][f]) => dir[r][f] = Report(r, verdict[r])
        /\ status[r] \in {0, 1} => \A f \in RunFiles : dir[r][f] = Report(r, status[r])
        /\ status[r] = 2 =>
             /\ Own(r, "errors", 2)
             /\ \A f \in RunFiles : dir[r][f] \in {NoFile, Report(r, 2)}

\* What is published when, and what a job without a failed step has published.
Published(r) ==
    /\ at[r] \in CLISteps \cup {"step_summary", "annotate", "publish_check"} =>
         checkOf[job[r]] = NoFile
    /\ at[r] \in {"list", "comment"} =>
         Whole(dir[r]["check"]) /\ checkOf[job[r]] = dir[r]["check"]
    /\ at[r] \in JobSteps /\ ~failed[r] =>
         /\ status[r] # NoCode
         /\ status[r] = 0 =>
              /\ at[r] \in {"stage", "upload", "reflect"} => checkOf[job[r]] = dir[r]["check"]
              /\ at[r] \in {"upload", "reflect"} => staging[r] = dir[r]["report"]
              /\ at[r] = "reflect" => uploaded[job[r]] = dir[r]["report"]

Running(r) == at[r] # "idle" => job[r] \notin todo /\ result[job[r]] = "none"

RunnerInv(r) == Running(r) /\ Writing(r) /\ Written(r) /\ Published(r)

Apart ==
    /\ \A r, s \in Runners :
         r # s /\ at[r] # "idle" /\ at[s] # "idle" => job[r] # job[s]
    /\ \A j \in todo : checkOf[j] = NoFile /\ result[j] = "none"

IInv ==
    /\ TypeOK
    /\ Apart
    /\ \A r \in Runners : RunnerInv(r)
    /\ OwnEvidence
    /\ GreenMeansPassed
    /\ CommentHasItsCheck

USE DEF cli, look, github, vars, Goto, Fault, NoFault, Fails, Succeeds, Exit

-----------------------------------------------------------------------------
(* What the steps have in common.                                          *)

\* A step of r leaves the others' runners and the entries of their jobs alone.
Frame(r) ==
    \A s \in Runners \ {r} :
        /\ at'[s] = at[s] /\ job'[s] = job[s] /\ gating'[s] = gating[s]
        /\ verdict'[s] = verdict[s] /\ status'[s] = status[s] /\ failed'[s] = failed[s]
        /\ dir'[s] = dir[s] /\ staging'[s] = staging[s]
        /\ at[s] # "idle" =>
             /\ job[s] \notin todo => job[s] \notin todo'
             /\ result'[job[s]] = result[job[s]]
             /\ checkOf'[job[s]] = checkOf[job[s]]
             /\ uploaded'[job[s]] = uploaded[job[s]]

LEMMA FramedRunner ==
    ASSUME IInv, NEW r \in Runners, Frame(r), NEW s \in Runners \ {r}
    PROVE  RunnerInv(s)'
<1>1. at'[s] = at[s] /\ job'[s] = job[s] /\ gating'[s] = gating[s] /\ verdict'[s] = verdict[s]
      /\ status'[s] = status[s] /\ failed'[s] = failed[s] /\ dir'[s] = dir[s]
      /\ staging'[s] = staging[s]
  BY DEF Frame
<1>2. at[s] # "idle" =>
        /\ job[s] \notin todo => job[s] \notin todo'
        /\ result'[job[s]] = result[job[s]]
        /\ checkOf'[job[s]] = checkOf[job[s]]
        /\ uploaded'[job[s]] = uploaded[job[s]]
  BY DEF Frame
<1>3. RunnerInv(s)
  BY DEF IInv
<1>4. Running(s)'
  BY <1>1, <1>2, <1>3 DEF RunnerInv, Running
<1>5. Writing(s)'
  BY <1>1, <1>3 DEF RunnerInv, Writing, Report
<1>6. Written(s)'
  BY <1>1, <1>3 DEF RunnerInv, Written, Report, Own, Whole, Exists
<1>7. Published(s)'
  BY <1>1, <1>2, <1>3 DEF RunnerInv, Published, Whole, Exists, CLISteps, JobSteps
<1> QED
  BY <1>4, <1>5, <1>6, <1>7 DEF RunnerInv

\* The steps of cv-infra verify change nothing on GitHub.
LEMMA NothingPublished ==
    ASSUME IInv, NEW r \in Runners, at[r] # "idle",
           \A s \in Runners \ {r} : at'[s] = at[s],
           UNCHANGED <<todo, job, github, result>>
    PROVE  Apart' /\ OwnEvidence' /\ GreenMeansPassed' /\ CommentHasItsCheck'
<1>1. Apart'
  BY DEF IInv, Apart
<1>2. OwnEvidence' /\ GreenMeansPassed' /\ CommentHasItsCheck'
  BY DEF IInv, OwnEvidence, GreenMeansPassed, CommentHasItsCheck, Whole, Exists, Conclusion
<1> QED
  BY <1>1, <1>2

\* A step of r keeps the invariant if it keeps r's part and the global ones.
LEMMA StepOf ==
    ASSUME IInv, NEW r \in Runners, TypeOK', Frame(r), RunnerInv(r)', Apart', OwnEvidence',
           GreenMeansPassed', CommentHasItsCheck'
    PROVE  IInv'
<1>1. \A s \in Runners : RunnerInv(s)'
  BY FramedRunner
<1> QED
  BY <1>1 DEF IInv

-----------------------------------------------------------------------------
(* cv-infra verify.                                                        *)

LEMMA TakeKeeps ==
    ASSUME IInv, NEW r \in Runners, Take(r)
    PROVE  IInv'
<1> PICK j \in todo : todo' = todo \ {j} /\ job' = [job EXCEPT ![r] = j]
  BY DEF Take
<1>1. TypeOK' /\ at[r] = "idle" /\ j \in Jobs
  BY DEF Take, IInv, TypeOK, Wiped, CLISteps, NoFile
<1>2. Frame(r)
  BY DEF Take, IInv, TypeOK, Frame
<1>3. RunnerInv(r)'
  <2>1. /\ at'[r] = "request" /\ job'[r] = j /\ status'[r] = NoCode /\ verdict'[r] = NoCode
        /\ failed'[r] = FALSE /\ \A f \in Files : dir'[r][f] = NoFile
    BY DEF Take, IInv, TypeOK, Wiped
  <2>2. result'[j] = "none" /\ checkOf'[j] = NoFile /\ j \notin todo'
    BY DEF Take, IInv, Apart
  <2> QED
    BY <2>1, <2>2 DEF RunnerInv, Running, Writing, Written, Published, CLISteps, JobSteps,
       WrittenBefore
<1>4. Apart'
  BY <1>1 DEF Take, IInv, TypeOK, Apart, RunnerInv, Running
<1>5. OwnEvidence' /\ GreenMeansPassed' /\ CommentHasItsCheck'
  BY DEF Take, IInv, OwnEvidence, GreenMeansPassed, CommentHasItsCheck, Whole, Exists, Conclusion
<1> QED
  BY <1>1, <1>2, <1>3, <1>4, <1>5, StepOf

LEMMA RequestKeeps ==
    ASSUME IInv, NEW r \in Runners, Request(r)
    PROVE  IInv'
<1> USE DEF Request
<1>1. TypeOK' /\ at[r] = "request"
  <2>1. at[r] = "request" /\ TypeOK
    BY DEF IInv
  <2>2. /\ gating' = gating \/ \E g \in BOOLEAN : gating' = [gating EXCEPT ![r] = g]
        /\ status' = status \/ status' = [status EXCEPT ![r] = 3]
        /\ verdict' = verdict
    OBVIOUS
  <2>3. at' \in [Runners -> {"idle"} \cup CLISteps \cup JobSteps]
        /\ \A s \in Runners : at'[s] # "idle" => at[s] # "idle"
    BY <2>1 DEF TypeOK, CLISteps, JobSteps
  <2>4. gating' \in [Runners -> BOOLEAN] /\ status' \in [Runners -> {NoCode, 0, 1, 2, 3}]
    <3> HIDE DEF Request
    <3>1. gating' \in [Runners -> BOOLEAN]
      BY <2>1, <2>2 DEF TypeOK
    <3>2. status' \in [Runners -> {NoCode, 0, 1, 2, 3}]
      BY <2>1, <2>2 DEF TypeOK
    <3> QED
      BY <3>1, <3>2
  <2> QED
    BY <2>1, <2>2, <2>3, <2>4 DEF TypeOK
<1>2. Frame(r)
  BY DEF IInv, TypeOK, Frame
<1>3. RunnerInv(r)'
  <2>1. RunnerInv(r) /\ \A f \in Files : dir[r][f] = NoFile
    BY <1>1 DEF IInv, RunnerInv, Writing, CLISteps, WrittenBefore
  <2>2. status[r] = NoCode /\ at \in [Runners -> {"idle"} \cup CLISteps \cup JobSteps]
        /\ status \in [Runners -> {NoCode, 0, 1, 2, 3}]
    BY <1>1, <2>1 DEF IInv, TypeOK, RunnerInv, Writing, CLISteps
  <2>3. \/ at'[r] \in {"reject", "cases"} /\ status'[r] = NoCode
        \/ at'[r] = "step_summary" /\ status'[r] = 3
    BY <2>2
  <2>4. UNCHANGED <<todo, job, verdict, failed, dir, result, checkOf>>
    OBVIOUS
  <2> QED
    BY <1>1, <2>1, <2>2, <2>3, <2>4 DEF RunnerInv, Running, Writing, Written, Published,
       CLISteps, JobSteps, WrittenBefore, Whole, Exists, NoFile, RunFiles, Files, Payloads, NoCode
<1>4. Apart' /\ OwnEvidence' /\ GreenMeansPassed' /\ CommentHasItsCheck'
  BY <1>1, NothingPublished DEF IInv, TypeOK
<1> QED
  BY <1>1, <1>2, <1>3, <1>4, StepOf

LEMMA CodesAreKnown == \A g : Codes(g) \subseteq {0, 1, 2, 3} /\ NoCode \notin Codes(g)
  BY DEF Codes, NoCode

LEMMA RunCasesKeeps ==
    ASSUME IInv, NEW r \in Runners, RunCases(r)
    PROVE  IInv'
<1> USE DEF RunCases
<1>1. TypeOK' /\ at[r] = "cases"
  <2>1. at[r] = "cases" /\ TypeOK
    BY DEF IInv
  <2>2. verdict' \in [Runners -> {NoCode, 0, 1, 2, 3}]
        /\ status' \in [Runners -> {NoCode, 0, 1, 2, 3}]
    <3> HIDE DEF RunCases
    <3>1. CASE Exit(r, 3) /\ UNCHANGED verdict
      BY <3>1, <2>1 DEF TypeOK
    <3>2. ASSUME NEW code \in Codes(gating[r]), verdict' = [verdict EXCEPT ![r] = code],
                 UNCHANGED status
          PROVE  verdict' \in [Runners -> {NoCode, 0, 1, 2, 3}]
                 /\ status' \in [Runners -> {NoCode, 0, 1, 2, 3}]
      BY <3>2, <2>1, CodesAreKnown DEF TypeOK
    <3> HIDE DEF Goto, Exit
    <3> QED
      BY <3>1, <3>2 DEF RunCases
  <2>3. at' \in [Runners -> {"idle"} \cup CLISteps \cup JobSteps]
        /\ \A s \in Runners : at'[s] # "idle" => at[s] # "idle"
    BY <2>1 DEF TypeOK, CLISteps, JobSteps
  <2> QED
    BY <2>1, <2>2, <2>3 DEF TypeOK
<1>2. Frame(r)
  BY DEF IInv, TypeOK, Frame
<1>3. RunnerInv(r)'
  <2>1. RunnerInv(r) /\ status[r] = NoCode /\ \A f \in Files : dir[r][f] = NoFile
    BY <1>1 DEF IInv, RunnerInv, Writing, CLISteps, WrittenBefore
  <2>2. \/ at'[r] = "report" /\ status'[r] = NoCode /\ verdict'[r] # NoCode
        \/ at'[r] = "step_summary" /\ status'[r] = 3
    <3> HIDE DEF RunCases
    <3>1. CASE Exit(r, 3)
      BY <3>1, <1>1 DEF IInv, TypeOK
    <3>2. ASSUME NEW code \in Codes(gating[r]), verdict' = [verdict EXCEPT ![r] = code],
                 Goto(r, "report"), UNCHANGED status
          PROVE  at'[r] = "report" /\ status'[r] = NoCode /\ verdict'[r] # NoCode
      <4>1. at'[r] = "report" /\ status'[r] = NoCode
        BY <3>2, <2>1 DEF IInv, TypeOK
      <4>2. verdict'[r] # NoCode
        BY <3>2, CodesAreKnown DEF IInv, TypeOK
      <4> QED
        BY <4>1, <4>2
    <3> HIDE DEF Goto, Exit
    <3> QED
      BY <3>1, <3>2 DEF RunCases
  <2>3. UNCHANGED <<todo, job, failed, dir, result, checkOf>>
    OBVIOUS
  <2> QED
    BY <1>1, <2>1, <2>2, <2>3 DEF RunnerInv, Running, Writing, Written, Published, CLISteps,
       JobSteps, WrittenBefore, Whole, Exists, NoFile, RunFiles, Files, Payloads, NoCode
<1>4. Apart' /\ OwnEvidence' /\ GreenMeansPassed' /\ CommentHasItsCheck'
  BY <1>1, NothingPublished DEF IInv, TypeOK
<1> QED
  BY <1>1, <1>2, <1>3, <1>4, StepOf

\* What a step writes next, with the files before and after it.
LEMMA WriteOrder ==
    ASSUME NEW r \in Runners, WriteRunDir(r)
    PROVE  \E f \in RunFiles, step \in {"check", "sticky", "summary", "empty_gate"} :
             /\ at[r] = f /\ f \in {"report", "check", "sticky", "summary"}
             /\ Write(r, f, verdict[r], step)
             /\ f \notin WrittenBefore(f)
             /\ WrittenBefore(step) = WrittenBefore(f) \cup {f}
<1> USE DEF RunFiles, Payloads, WrittenBefore
<1> HIDE DEF Fault, NoFault, Goto, Exit
<1>1. CASE at[r] = "report" /\ Write(r, "report", verdict[r], "check")
  BY <1>1
<1>2. CASE at[r] = "check" /\ Write(r, "check", verdict[r], "sticky")
  BY <1>2
<1>3. CASE at[r] = "sticky" /\ Write(r, "sticky", verdict[r], "summary")
  BY <1>3
<1>4. CASE at[r] = "summary" /\ Write(r, "summary", verdict[r], "empty_gate")
  BY <1>4
<1> QED
  BY <1>1, <1>2, <1>3, <1>4 DEF WriteRunDir

LEMMA WriteRunDirKeeps ==
    ASSUME IInv, NEW r \in Runners, WriteRunDir(r)
    PROVE  IInv'
<1>1. PICK f \in RunFiles, step \in {"check", "sticky", "summary", "empty_gate"} :
             /\ at[r] = f /\ f \in {"report", "check", "sticky", "summary"}
             /\ Write(r, f, verdict[r], step)
             /\ f \notin WrittenBefore(f)
             /\ WrittenBefore(step) = WrittenBefore(f) \cup {f}
  BY WriteOrder
<1>2. /\ UNCHANGED <<todo, job, gating, verdict, failed, look, staging, github, result>>
      /\ TypeOK /\ RunnerInv(r) /\ job[r] \in Jobs /\ f \in Files
      /\ at[r] \in CLISteps /\ at[r] # "idle" /\ status[r] = NoCode
  BY <1>1 DEF WriteRunDir, IInv, TypeOK, Files, RunFiles, CLISteps, RunnerInv, Writing
<1>3. /\ verdict[r] \in {0, 1, 2, 3}
      /\ \A g \in Files : dir[r][g] =
           IF g \in WrittenBefore(f) THEN Report(r, verdict[r]) ELSE NoFile
  BY <1>1, <1>2 DEF RunnerInv, Writing, TypeOK, CLISteps
<1> DEFINE file(c) == [by |-> job[r], code |-> c, gating |-> gating[r]]
           whole == [dir EXCEPT ![r] = [@ EXCEPT ![f] = file(verdict[r])]]
           broken == [dir EXCEPT ![r] = [@ EXCEPT ![f] = file(NoCode)]]
<1>4. \/ dir' = whole /\ at' = [at EXCEPT ![r] = step] /\ UNCHANGED <<status, faults>>
      \/ /\ dir' = broken \/ dir' = dir
         /\ status' = [status EXCEPT ![r] = 3] /\ at' = [at EXCEPT ![r] = "step_summary"]
         /\ faults' \in 0 .. MaxFaults
  BY <1>1, <1>2 DEF Write, InfraStatus, TypeOK
<1>5. whole \in [Runners -> [Files -> Content \cup {NoFile}]]
      /\ broken \in [Runners -> [Files -> Content \cup {NoFile}]]
  <2>1. file(verdict[r]) \in Content /\ file(NoCode) \in Content
    BY <1>2, <1>3 DEF Content, TypeOK
  <2> QED
    BY <2>1, <1>2 DEF TypeOK
<1> HIDE DEF whole, broken
<1>6. TypeOK'
  <2>1. at' \in [Runners -> {"idle"} \cup CLISteps \cup JobSteps]
        /\ \A s \in Runners : at'[s] # "idle" => at[s] # "idle"
    BY <1>2, <1>4 DEF TypeOK, CLISteps, JobSteps
  <2>2. dir' \in [Runners -> [Files -> Content \cup {NoFile}]]
    BY <1>2, <1>4, <1>5 DEF TypeOK
  <2>3. status' \in [Runners -> {NoCode, 0, 1, 2, 3}] /\ faults' \in 0 .. MaxFaults
    BY <1>2, <1>4 DEF TypeOK
  <2> QED
    BY <1>2, <2>1, <2>2, <2>3 DEF TypeOK
<1>7. Frame(r)
  BY <1>2, <1>4 DEF TypeOK, Frame, whole, broken
<1>8. RunnerInv(r)'
  <2>1. CASE dir' = whole /\ at' = [at EXCEPT ![r] = step] /\ UNCHANGED <<status, faults>>
    <3>1. at'[r] = step /\ status'[r] = NoCode
          /\ \A g \in Files : dir'[r][g] = IF g = f THEN file(verdict[r]) ELSE dir[r][g]
      BY <2>1, <1>2 DEF TypeOK, whole
    <3>2. \A g \in Files : dir'[r][g] =
            IF g \in WrittenBefore(step) THEN Report(r, verdict[r]) ELSE NoFile
      BY <3>1, <1>1, <1>3 DEF Report
    <3> QED
      BY <3>1, <3>2, <1>1, <1>2 DEF RunnerInv, Running, Writing, Written, Published, Report,
         CLISteps, JobSteps
  <2>2. CASE /\ dir' = broken \/ dir' = dir
             /\ status' = [status EXCEPT ![r] = 3] /\ at' = [at EXCEPT ![r] = "step_summary"]
    <3>1. at'[r] = "step_summary" /\ status'[r] = 3
      BY <2>2, <1>2 DEF TypeOK
    <3>2. \A g \in Files : dir'[r][g] \in {file(NoCode), file(verdict[r]), NoFile}
      BY <2>2, <1>1, <1>2, <1>3 DEF TypeOK, broken, Report
    <3>3. Written(r)'
      BY <3>1, <3>2, <1>2 DEF Written, Report, Whole, Exists, NoFile, Files, RunFiles
    <3> QED
      BY <3>1, <3>3, <1>2 DEF RunnerInv, Running, Writing, Published, CLISteps, JobSteps, NoCode
  <2> QED
    BY <2>1, <2>2, <1>4
<1>9. Apart' /\ OwnEvidence' /\ GreenMeansPassed' /\ CommentHasItsCheck'
  BY <1>2, <1>7, NothingPublished DEF Frame
<1> QED
  BY <1>6, <1>7, <1>8, <1>9, StepOf

LEMMA RejectKeeps ==
    ASSUME IInv, NEW r \in Runners, Reject(r)
    PROVE  IInv'
<1>1. /\ UNCHANGED <<todo, job, gating, verdict, failed, look, staging, github, result>>
      /\ TypeOK /\ RunnerInv(r) /\ job[r] \in Jobs
      /\ at[r] \in CLISteps /\ at[r] # "idle" /\ status[r] = NoCode
  BY DEF Reject, IInv, TypeOK, CLISteps, RunnerInv, Writing
<1>2. \A g \in RunFiles : dir[r][g] \in {NoFile, Report(r, 2)} /\ dir[r][g].by \in {job[r], NoJob}
      /\ (Whole(dir[r][g]) => dir[r][g] = Report(r, verdict[r]))
  BY <1>1 DEF Reject, RunnerInv, Writing, WrittenBefore, CLISteps, Report, RunFiles, Payloads,
     Files, NoFile, Whole, Exists
<1> DEFINE file(c) == [by |-> job[r], code |-> c, gating |-> FALSE]
           whole == [dir EXCEPT ![r] = [@ EXCEPT !["errors"] = file(2)]]
           broken == [dir EXCEPT ![r] = [@ EXCEPT !["errors"] = file(NoCode)]]
<1>3. /\ at' = [at EXCEPT ![r] = "step_summary"]
      /\ \/ dir' = whole /\ status' = [status EXCEPT ![r] = 2] /\ UNCHANGED faults
         \/ /\ dir' = broken \/ dir' = dir
            /\ status' = [status EXCEPT ![r] = 3]
            /\ faults' \in 0 .. MaxFaults
  BY <1>1 DEF Reject, Refuse, InfraStatus, TypeOK
<1>4. whole \in [Runners -> [Files -> Content \cup {NoFile}]]
      /\ broken \in [Runners -> [Files -> Content \cup {NoFile}]]
  <2>1. file(2) \in Content /\ file(NoCode) \in Content
    BY <1>1 DEF Content
  <2> QED
    BY <2>1, <1>1 DEF TypeOK
<1>5. \A g \in Files : /\ g # "errors" => whole[r][g] = dir[r][g] /\ broken[r][g] = dir[r][g]
                       /\ whole[r]["errors"] = file(2)
                       /\ broken[r]["errors"] = file(NoCode)
  BY <1>1 DEF TypeOK, Files
<1>6. \A s \in Runners \ {r} : whole[s] = dir[s] /\ broken[s] = dir[s]
  BY <1>1 DEF TypeOK
<1> HIDE DEF whole, broken
<1>7. TypeOK'
  <2>1. at' \in [Runners -> {"idle"} \cup CLISteps \cup JobSteps]
        /\ \A s \in Runners : at'[s] # "idle" => at[s] # "idle"
    BY <1>1, <1>3 DEF TypeOK, JobSteps
  <2>2. dir' \in [Runners -> [Files -> Content \cup {NoFile}]]
    BY <1>1, <1>3, <1>4 DEF TypeOK
  <2>3. status' \in [Runners -> {NoCode, 0, 1, 2, 3}] /\ faults' \in 0 .. MaxFaults
    BY <1>1, <1>3 DEF TypeOK
  <2> QED
    BY <1>1, <2>1, <2>2, <2>3 DEF TypeOK
<1>8. Frame(r)
  BY <1>1, <1>3, <1>6 DEF TypeOK, Frame
<1>9. RunnerInv(r)'
  <2>1. at'[r] = "step_summary"
    BY <1>1, <1>3 DEF TypeOK
  <2>2. "errors" \in Files /\ "errors" \notin RunFiles /\ RunFiles \subseteq Files
        /\ \A g \in Files : g = "errors" \/ g \in RunFiles
    BY DEF Files, RunFiles, Payloads
  <2>3. \A g \in RunFiles : dir'[r][g] = dir[r][g]
    BY <1>3, <1>5, <2>2
  <2>4. CASE dir' = whole /\ status' = [status EXCEPT ![r] = 2]
    <3>1. status'[r] = 2 /\ dir'[r]["errors"] = file(2)
      BY <2>4, <1>1, <1>5, <2>2 DEF TypeOK
    <3>2. Written(r)'
      BY <3>1, <2>1, <2>2, <2>3, <1>1, <1>2 DEF Written, Own, Report, Whole, Exists
    <3> QED
      BY <3>1, <3>2, <2>1, <1>1 DEF RunnerInv, Running, Writing, Published, CLISteps, JobSteps,
         NoCode
  <2>5. CASE (dir' = broken \/ dir' = dir) /\ status' = [status EXCEPT ![r] = 3]
    <3>1. status'[r] = 3 /\ dir'[r]["errors"].by \in {job[r], NoJob}
      <4>1. dir[r]["errors"] = NoFile
        BY <1>1, <2>2 DEF RunnerInv, Writing, WrittenBefore, RunFiles, Payloads
      <4> QED
        BY <4>1, <2>5, <1>1, <1>5, <2>2 DEF TypeOK, NoFile
    <3>2. Written(r)'
      BY <3>1, <2>1, <2>2, <2>3, <1>1, <1>2 DEF Written, Report, Whole, Exists
    <3> QED
      BY <3>1, <3>2, <2>1, <1>1 DEF RunnerInv, Running, Writing, Published, CLISteps, JobSteps,
         NoCode
  <2> QED
    BY <2>4, <2>5, <1>3
<1>10. Apart' /\ OwnEvidence' /\ GreenMeansPassed' /\ CommentHasItsCheck'
  BY <1>1, <1>8, NothingPublished DEF Frame
<1> QED
  BY <1>7, <1>8, <1>9, <1>10, StepOf

LEMMA ReturnKeeps ==
    ASSUME IInv, NEW r \in Runners, Return(r)
    PROVE  IInv'
<1>1. /\ UNCHANGED <<todo, job, gating, verdict, failed, look, dir, staging, github, result>>
      /\ TypeOK /\ RunnerInv(r) /\ job[r] \in Jobs /\ UNCHANGED faults
      /\ at[r] = "empty_gate" /\ verdict[r] \in {0, 1, 3}
      /\ at' = [at EXCEPT ![r] = "step_summary"] /\ status' = [status EXCEPT ![r] = verdict[r]]
  BY DEF Return, IInv, TypeOK, CLISteps, RunnerInv, Writing
<1>2. TypeOK'
  <2>1. at' \in [Runners -> {"idle"} \cup CLISteps \cup JobSteps]
        /\ \A s \in Runners : at'[s] # "idle" => at[s] # "idle"
    BY <1>1 DEF TypeOK, JobSteps
  <2>2. status' \in [Runners -> {NoCode, 0, 1, 2, 3}]
    BY <1>1 DEF TypeOK
  <2> QED
    BY <1>1, <2>1, <2>2 DEF TypeOK
<1>3. Frame(r)
  BY <1>1 DEF TypeOK, Frame
<1>4. RunnerInv(r)'
  <2>1. at'[r] = "step_summary" /\ status'[r] = verdict[r]
    BY <1>1 DEF TypeOK
  <2>2. \A f \in Files : dir[r][f] = IF f \in RunFiles THEN Report(r, verdict[r]) ELSE NoFile
    BY <1>1 DEF RunnerInv, Writing, WrittenBefore, CLISteps
  <2>3. Written(r)'
    BY <1>1, <2>1, <2>2 DEF Written, Report, Whole, Exists, NoFile, Files, RunFiles
  <2> QED
    BY <1>1, <2>1, <2>3 DEF RunnerInv, Running, Writing, Published, CLISteps, JobSteps, NoCode
<1>5. Apart' /\ OwnEvidence' /\ GreenMeansPassed' /\ CommentHasItsCheck'
  BY <1>1, <1>3, NothingPublished DEF Frame
<1> QED
  BY <1>2, <1>3, <1>4, <1>5, StepOf

LEMMA KillKeeps ==
    ASSUME IInv, NEW r \in Runners, Kill(r)
    PROVE  IInv'
<1>1. /\ UNCHANGED <<todo, job, cli, look, dir, staging, github, result>>
      /\ TypeOK /\ RunnerInv(r) /\ job[r] \in Jobs /\ at[r] \in CLISteps /\ at[r] # "idle"
      /\ at' = [at EXCEPT ![r] = "reflect"] /\ failed' = [failed EXCEPT ![r] = TRUE]
      /\ faults' \in 0 .. MaxFaults
  BY DEF Kill, IInv, TypeOK, CLISteps
<1>2. TypeOK'
  <2>1. at' \in [Runners -> {"idle"} \cup CLISteps \cup JobSteps]
        /\ \A s \in Runners : at'[s] # "idle" => at[s] # "idle"
    BY <1>1 DEF TypeOK, JobSteps
  <2>2. failed' \in [Runners -> BOOLEAN]
    BY <1>1 DEF TypeOK
  <2> QED
    BY <1>1, <2>1, <2>2 DEF TypeOK
<1>3. Frame(r)
  BY <1>1 DEF TypeOK, Frame
<1>4. RunnerInv(r)'
  <2>1. at'[r] = "reflect" /\ failed'[r] = TRUE
    BY <1>1 DEF TypeOK
  <2>2. status[r] = NoCode
        /\ \A f \in Files : dir[r][f] \in {Report(r, verdict[r]), NoFile}
    BY <1>1 DEF RunnerInv, Writing
  <2>3. Written(r)'
    BY <1>1, <2>1, <2>2 DEF Written, Report, Whole, Exists, NoFile, Files, RunFiles, NoCode
  <2> QED
    BY <1>1, <2>1, <2>3 DEF RunnerInv, Running, Writing, Published, CLISteps, JobSteps
<1>5. Apart' /\ OwnEvidence' /\ GreenMeansPassed' /\ CommentHasItsCheck'
  BY <1>1, <1>3, NothingPublished DEF Frame
<1> QED
  BY <1>2, <1>3, <1>4, <1>5, StepOf

LEMMA DieKeeps ==
    ASSUME IInv, NEW r \in Runners, Die(r)
    PROVE  IInv'
<1>1. /\ UNCHANGED <<todo, job, gating, verdict, failed, look, dir, staging, github, result>>
      /\ TypeOK /\ RunnerInv(r) /\ job[r] \in Jobs /\ at[r] \in CLISteps /\ at[r] # "idle"
      /\ at' = [at EXCEPT ![r] = "step_summary"] /\ status' = [status EXCEPT ![r] = 3]
      /\ faults' \in 0 .. MaxFaults
  BY DEF Die, IInv, TypeOK, CLISteps
<1>2. TypeOK'
  <2>1. at' \in [Runners -> {"idle"} \cup CLISteps \cup JobSteps]
        /\ \A s \in Runners : at'[s] # "idle" => at[s] # "idle"
    BY <1>1 DEF TypeOK, JobSteps
  <2>2. status' \in [Runners -> {NoCode, 0, 1, 2, 3}]
    BY <1>1 DEF TypeOK
  <2> QED
    BY <1>1, <2>1, <2>2 DEF TypeOK
<1>3. Frame(r)
  BY <1>1 DEF TypeOK, Frame
<1>4. RunnerInv(r)'
  <2>1. at'[r] = "step_summary" /\ status'[r] = 3
    BY <1>1 DEF TypeOK
  <2>2. \A f \in Files : dir[r][f] \in {Report(r, verdict[r]), NoFile}
    BY <1>1 DEF RunnerInv, Writing
  <2>3. Written(r)'
    BY <1>1, <2>1, <2>2 DEF Written, Report, Whole, Exists, NoFile, Files, RunFiles
  <2> QED
    BY <1>1, <2>1, <2>3 DEF RunnerInv, Running, Writing, Published, CLISteps, JobSteps, NoCode
<1>5. Apart' /\ OwnEvidence' /\ GreenMeansPassed' /\ CommentHasItsCheck'
  BY <1>1, <1>3, NothingPublished DEF Frame
<1> QED
  BY <1>2, <1>3, <1>4, <1>5, StepOf

-----------------------------------------------------------------------------
(* The steps that publish.                                                 *)

\* A job with status 0 that still has no failed step has a report.
LEMMA ZeroHasReport ==
    ASSUME IInv, NEW r \in Runners, at[r] \in JobSteps, status[r] = 0
    PROVE  /\ \A f \in RunFiles : dir[r][f] = Report(r, 0) /\ Whole(dir[r][f])
           /\ HaveReport(r)
<1>1. at[r] # "idle" /\ job[r] \in Jobs
  BY DEF IInv, TypeOK, JobSteps
<1>2. \A f \in RunFiles : dir[r][f] = Report(r, 0)
  BY DEF IInv, RunnerInv, Written
<1>3. 0 # NoCode /\ job[r] # NoJob
  BY <1>1 DEF NoCode
<1>4. "report" \in RunFiles
  BY DEF RunFiles
<1> QED
  BY <1>2, <1>3, <1>4 DEF Report, Whole, Exists, HaveReport

LEMMA StepSummaryKeeps ==
    ASSUME IInv, NEW r \in Runners, StepSummary(r)
    PROVE  IInv'
<1>1. /\ UNCHANGED <<todo, job, cli, look, dir, staging, github, result, faults>>
      /\ TypeOK /\ RunnerInv(r) /\ at[r] = "step_summary"
      /\ at' = [at EXCEPT ![r] = "annotate"]
      /\ failed' \in {failed, [failed EXCEPT ![r] = TRUE]}
  BY DEF StepSummary, IInv
<1>2. TypeOK'
  <2>1. at' \in [Runners -> {"idle"} \cup CLISteps \cup JobSteps]
        /\ \A s \in Runners : at'[s] # "idle" => at[s] # "idle"
    BY <1>1 DEF TypeOK, JobSteps
  <2>2. failed' \in [Runners -> BOOLEAN]
    BY <1>1 DEF TypeOK
  <2> QED
    BY <1>1, <2>1, <2>2 DEF TypeOK
<1>3. Frame(r)
  BY <1>1 DEF TypeOK, Frame
<1>4. RunnerInv(r)'
  <2>1. at'[r] = "annotate" /\ (~failed'[r] => ~failed[r])
    BY <1>1 DEF TypeOK
  <2> QED
    BY <1>1, <2>1 DEF RunnerInv, Running, Writing, Written, Published, CLISteps, JobSteps,
       Report, Own
<1>5. Apart' /\ OwnEvidence' /\ GreenMeansPassed' /\ CommentHasItsCheck'
  BY <1>1, <1>3, NothingPublished DEF Frame
<1> QED
  BY <1>2, <1>3, <1>4, <1>5, StepOf

LEMMA AnnotateKeeps ==
    ASSUME IInv, NEW r \in Runners, Annotate(r)
    PROVE  IInv'
<1>1. /\ UNCHANGED <<todo, job, cli, failed, look, dir, staging, checkOf, uploaded, comments,
                     result, faults>>
      /\ TypeOK /\ RunnerInv(r) /\ at[r] = "annotate" /\ job[r] \in Jobs
      /\ annotated' \in {annotated, [annotated EXCEPT ![job[r]] = dir[r]["errors"]]}
      /\ at' = [at EXCEPT ![r] = IF HaveReport(r) THEN "publish_check" ELSE "reflect"]
  BY DEF Annotate, IInv, TypeOK
<1>2. dir[r]["errors"] \in Content \cup {NoFile} /\ dir[r]["errors"].by \in {job[r], NoJob}
  BY <1>1 DEF TypeOK, Files, RunnerInv, Written, JobSteps
<1>3. TypeOK'
  <2>1. at' \in [Runners -> {"idle"} \cup CLISteps \cup JobSteps]
        /\ \A s \in Runners : at'[s] # "idle" => at[s] # "idle"
    BY <1>1 DEF TypeOK, JobSteps
  <2>2. annotated' \in [Jobs -> Content \cup {NoFile}]
    BY <1>1, <1>2 DEF TypeOK
  <2> QED
    BY <1>1, <2>1, <2>2 DEF TypeOK
<1>4. Frame(r)
  BY <1>1 DEF TypeOK, Frame
<1>5. RunnerInv(r)'
  <2>1. at'[r] \in {"publish_check", "reflect"}
        /\ (status[r] = 0 => at'[r] = "publish_check")
    BY <1>1, ZeroHasReport DEF TypeOK, JobSteps
  <2> QED
    BY <1>1, <2>1 DEF RunnerInv, Running, Writing, Written, Published, CLISteps, JobSteps,
       Report, Own
<1>6. OwnEvidence'
  BY <1>1, <1>2 DEF IInv, TypeOK, OwnEvidence
<1>7. Apart' /\ GreenMeansPassed' /\ CommentHasItsCheck'
  BY <1>1, <1>4 DEF IInv, Apart, GreenMeansPassed, CommentHasItsCheck, Frame, Whole, Exists,
     Conclusion
<1> QED
  BY <1>3, <1>4, <1>5, <1>6, <1>7, StepOf

LEMMA PublishCheckKeeps ==
    ASSUME IInv, NEW r \in Runners, PublishCheck(r)
    PROVE  IInv'
<1> DEFINE check == dir[r]["check"]
<1>1. /\ UNCHANGED <<todo, job, cli, look, dir, staging, annotated, uploaded, comments, result>>
      /\ TypeOK /\ RunnerInv(r) /\ at[r] = "publish_check" /\ job[r] \in Jobs
      /\ faults' \in 0 .. MaxFaults
      /\ \/ /\ Whole(check)
            /\ checkOf' = [checkOf EXCEPT ![job[r]] = check]
            /\ at' = [at EXCEPT ![r] = "list"]
            /\ failed' = failed
         \/ /\ at' = [at EXCEPT ![r] = "stage"]
            /\ failed' = [failed EXCEPT ![r] = TRUE]
            /\ checkOf' = checkOf
  BY DEF PublishCheck, IInv, TypeOK
<1>2. check \in Content \cup {NoFile} /\ check.by \in {job[r], NoJob}
  BY <1>1 DEF TypeOK, Files, Payloads, RunnerInv, Written, JobSteps
<1>3. TypeOK'
  <2>1. at' \in [Runners -> {"idle"} \cup CLISteps \cup JobSteps]
        /\ \A s \in Runners : at'[s] # "idle" => at[s] # "idle"
    BY <1>1 DEF TypeOK, JobSteps
  <2>2. checkOf' \in [Jobs -> Content \cup {NoFile}] /\ failed' \in [Runners -> BOOLEAN]
    BY <1>1, <1>2 DEF TypeOK
  <2> QED
    BY <1>1, <2>1, <2>2 DEF TypeOK
<1>4. Frame(r)
  BY <1>1 DEF TypeOK, Frame, IInv, Apart
<1>5. RunnerInv(r)'
  <2>1. CASE Whole(check) /\ at'[r] = "list" /\ failed' = failed /\ checkOf'[job[r]] = check
    BY <1>1, <2>1 DEF RunnerInv, Running, Writing, Written, Published, CLISteps, JobSteps,
       Report, Own
  <2>2. CASE at'[r] = "stage" /\ failed'[r] = TRUE
    BY <1>1, <2>2 DEF RunnerInv, Running, Writing, Written, Published, CLISteps, JobSteps,
       Report, Own
  <2> QED
    BY <1>1, <2>1, <2>2 DEF TypeOK
<1>6. \A j \in Jobs : j # job[r] => checkOf'[j] = checkOf[j]
  BY <1>1 DEF TypeOK
<1>7. checkOf[job[r]] = NoFile /\ result[job[r]] = "none" /\ job[r] \notin todo
  BY <1>1 DEF RunnerInv, Running, Published
<1>8. Apart'
  <2>1. \A s \in Runners : at'[s] # "idle" => at[s] # "idle"
    BY <1>1 DEF TypeOK
  <2>2. \A j \in todo : checkOf'[j] = checkOf[j]
    BY <1>1, <1>6, <1>7 DEF TypeOK
  <2> QED
    BY <1>1, <2>1, <2>2 DEF IInv, Apart
<1>9. OwnEvidence'
  BY <1>1, <1>2 DEF IInv, TypeOK, OwnEvidence
<1>10. GreenMeansPassed'
  BY <1>1, <1>6, <1>7 DEF IInv, GreenMeansPassed, Conclusion
<1>11. CommentHasItsCheck'
  <2>1. SUFFICES ASSUME NEW i \in DOMAIN comments, Whole(comments[i].text)
                 PROVE  comments[i].text = checkOf'[comments[i].text.by]
    BY <1>1 DEF CommentHasItsCheck, Whole, Exists
  <2>2. comments[i].text = checkOf[comments[i].text.by] /\ comments[i].text.by \in Jobs
    <3>1. comments[i].text \in Content \cup {NoFile}
      <4>1. comments \in Seq(Posts)
        BY <1>1 DEF TypeOK
      <4>2. comments[i] \in Posts
        BY <2>1, <4>1
      <4> QED
        BY <4>2 DEF Posts
    <3> QED
      BY <3>1, <2>1 DEF IInv, CommentHasItsCheck, Whole, Exists, Content, NoFile
  <2>3. comments[i].text.by # job[r]
    BY <1>7, <2>1, <2>2 DEF NoFile, Whole, Exists
  <2> QED
    BY <1>6, <2>2, <2>3
<1> QED
  BY <1>3, <1>4, <1>5, <1>8, <1>9, <1>10, <1>11, StepOf

LEMMA ListCommentsKeeps ==
    ASSUME IInv, NEW r \in Runners, ListComments(r)
    PROVE  IInv'
<1>1. /\ UNCHANGED <<todo, job, cli, dir, staging, github, result>>
      /\ TypeOK /\ RunnerInv(r) /\ at[r] = "list" /\ faults' \in 0 .. MaxFaults
      /\ found' \in [Runners -> Nat] /\ marker' \in [Runners -> 0 .. MarkerLength]
      /\ \/ at' = [at EXCEPT ![r] = "comment"] /\ failed' = failed
         \/ at' = [at EXCEPT ![r] = "stage"] /\ failed' = [failed EXCEPT ![r] = TRUE]
  <2>1. \A n \in Nat : Listed(n) \subseteq Nat
    BY DEF Listed, IInv, TypeOK
  <2>2. FirstLines(dir[r]["sticky"]) \subseteq 0 .. MarkerLength
    BY DEF FirstLines
  <2>3. found' \in [Runners -> Nat] /\ marker' \in [Runners -> 0 .. MarkerLength]
    <3>1. CASE UNCHANGED look
      BY <3>1 DEF IInv, TypeOK
    <3>2. ASSUME NEW n \in FirstLines(dir[r]["sticky"]), marker' = [marker EXCEPT ![r] = n],
                 \/ found' = [found EXCEPT ![r] = 0]
                 \/ \E i \in Listed(n) : found' = [found EXCEPT ![r] = i]
          PROVE  found' \in [Runners -> Nat] /\ marker' \in [Runners -> 0 .. MarkerLength]
      <4>1. n \in 0 .. MarkerLength /\ Listed(n) \subseteq Nat
        BY <2>1, <2>2
      <4>2. found \in [Runners -> Nat] /\ marker \in [Runners -> 0 .. MarkerLength]
        BY DEF IInv, TypeOK
      <4> QED
        BY <3>2, <4>1, <4>2
    <3> QED
      BY <3>1, <3>2 DEF ListComments
  <2> QED
    BY <2>3 DEF ListComments, IInv, TypeOK
<1>2. TypeOK'
  <2>1. at' \in [Runners -> {"idle"} \cup CLISteps \cup JobSteps]
        /\ \A s \in Runners : at'[s] # "idle" => at[s] # "idle"
    BY <1>1 DEF TypeOK, JobSteps
  <2>2. failed' \in [Runners -> BOOLEAN]
    BY <1>1 DEF TypeOK
  <2> QED
    BY <1>1, <2>1, <2>2 DEF TypeOK
<1>3. Frame(r)
  BY <1>1 DEF TypeOK, Frame
<1>4. RunnerInv(r)'
  <2>1. \/ at'[r] = "comment" /\ failed' = failed
        \/ at'[r] = "stage" /\ failed'[r] = TRUE
    BY <1>1 DEF TypeOK
  <2> QED
    BY <1>1, <2>1 DEF RunnerInv, Running, Writing, Written, Published, CLISteps, JobSteps,
       Report, Own, Whole, Exists
<1>5. Apart' /\ OwnEvidence' /\ GreenMeansPassed' /\ CommentHasItsCheck'
  BY <1>1, <1>3, NothingPublished DEF Frame
<1> QED
  BY <1>2, <1>3, <1>4, <1>5, StepOf

LEMMA CommentKeeps ==
    ASSUME IInv, NEW r \in Runners, Comment(r)
    PROVE  IInv'
<1> DEFINE body == dir[r]["sticky"]
           post == [text |-> body, begins |-> marker[r]]
<1>1. /\ UNCHANGED <<todo, job, cli, dir, staging, checkOf, annotated, uploaded, result>>
      /\ TypeOK /\ RunnerInv(r) /\ at[r] = "comment" /\ faults' \in 0 .. MaxFaults
      /\ job[r] \in Jobs /\ at' = [at EXCEPT ![r] = "stage"]
      /\ failed' \in {failed, [failed EXCEPT ![r] = TRUE]}
      /\ found' \in [Runners -> Nat] /\ marker' \in [Runners -> 0 .. MarkerLength]
      /\ \/ comments' = Append(comments, post)
         \/ comments' = [comments EXCEPT ![found[r]] = post]
         \/ comments' = comments
  BY DEF Comment, IInv, TypeOK
<1>2. body \in Content \cup {NoFile} /\ post \in Posts /\ post.text = body
  BY <1>1 DEF TypeOK, Files, Payloads, Posts
<1>3. Whole(body) => body = checkOf[body.by]
  BY <1>1 DEF RunnerInv, Written, Published, JobSteps, RunFiles, Payloads, Report, Whole, Exists
<1> HIDE DEF post
<1>4. comments' \in Seq(Posts)
      /\ \A i \in DOMAIN comments' :
           comments'[i] = post \/ (i \in DOMAIN comments /\ comments'[i] = comments[i])
  <2>1. CASE comments' = Append(comments, post)
    BY <1>1, <1>2, <2>1 DEF TypeOK
  <2>2. CASE comments' = [comments EXCEPT ![found[r]] = post]
    <3>1. Len(comments) \in Nat /\ comments \in [1 .. Len(comments) -> Posts]
      BY <1>1 DEF TypeOK
    <3>2. comments' \in [1 .. Len(comments) -> Posts]
          /\ \A i \in 1 .. Len(comments) : comments'[i] = post \/ comments'[i] = comments[i]
      BY <1>2, <2>2, <3>1
    <3>3. comments' \in Seq(Posts)
      BY <3>1, <3>2, SeqDef
    <3> QED
      BY <3>1, <3>2, <3>3
  <2>3. CASE comments' = comments
    BY <1>1, <2>3 DEF TypeOK
  <2> QED
    BY <1>1, <2>1, <2>2, <2>3
<1>5. TypeOK'
  <2>1. at' \in [Runners -> {"idle"} \cup CLISteps \cup JobSteps]
        /\ \A s \in Runners : at'[s] # "idle" => at[s] # "idle"
    BY <1>1 DEF TypeOK, JobSteps
  <2>2. failed' \in [Runners -> BOOLEAN]
    BY <1>1 DEF TypeOK
  <2> QED
    BY <1>1, <1>4, <2>1, <2>2 DEF TypeOK
<1>6. Frame(r)
  BY <1>1 DEF TypeOK, Frame
<1>7. RunnerInv(r)'
  <2>1. at'[r] = "stage" /\ (~failed'[r] => ~failed[r])
    BY <1>1 DEF TypeOK
  <2> QED
    BY <1>1, <2>1 DEF RunnerInv, Running, Writing, Written, Published, CLISteps, JobSteps,
       Report, Own, Whole, Exists
<1>8. Apart' /\ OwnEvidence' /\ GreenMeansPassed'
  BY <1>1, <1>6 DEF IInv, Apart, OwnEvidence, GreenMeansPassed, Conclusion, Frame
<1>9. CommentHasItsCheck'
  BY <1>1, <1>2, <1>3, <1>4 DEF IInv, CommentHasItsCheck, Whole, Exists
<1> QED
  BY <1>5, <1>6, <1>7, <1>8, <1>9, StepOf

LEMMA StageKeeps ==
    ASSUME IInv, NEW r \in Runners, Stage(r)
    PROVE  IInv'
<1>1. /\ UNCHANGED <<todo, job, cli, look, dir, github, result>>
      /\ TypeOK /\ RunnerInv(r) /\ at[r] = "stage" /\ faults' \in 0 .. MaxFaults
      /\ at' = [at EXCEPT ![r] = "upload"]
      /\ \/ staging' = [staging EXCEPT ![r] = dir[r]["report"]] /\ failed' = failed
         \/ /\ staging' \in {staging, [staging EXCEPT ![r] = NoFile]}
            /\ failed' = [failed EXCEPT ![r] = TRUE]
  BY DEF Stage, IInv, TypeOK
<1>2. TypeOK'
  <2>1. at' \in [Runners -> {"idle"} \cup CLISteps \cup JobSteps]
        /\ \A s \in Runners : at'[s] # "idle" => at[s] # "idle"
    BY <1>1 DEF TypeOK, JobSteps
  <2>2. failed' \in [Runners -> BOOLEAN]
    BY <1>1 DEF TypeOK
  <2>3. staging' \in [Runners -> Content \cup {NoFile}]
    <3>1. dir[r]["report"] \in Content \cup {NoFile}
      BY <1>1 DEF TypeOK, Files
    <3> QED
      BY <1>1, <3>1 DEF TypeOK
  <2> QED
    BY <1>1, <2>1, <2>2, <2>3 DEF TypeOK
<1>3. Frame(r)
  BY <1>1 DEF TypeOK, Frame
<1>4. RunnerInv(r)'
  <2>1. at'[r] = "upload" /\ (~failed'[r] => ~failed[r] /\ staging'[r] = dir[r]["report"])
    BY <1>1 DEF TypeOK
  <2> QED
    BY <1>1, <2>1 DEF RunnerInv, Running, Writing, Written, Published, CLISteps, JobSteps,
       Report, Own, Whole, Exists
<1>5. Apart' /\ OwnEvidence' /\ GreenMeansPassed' /\ CommentHasItsCheck'
  BY <1>1, <1>3, NothingPublished DEF Frame
<1> QED
  BY <1>2, <1>3, <1>4, <1>5, StepOf

LEMMA UploadKeeps ==
    ASSUME IInv, NEW r \in Runners, Upload(r)
    PROVE  IInv'
<1>1. /\ UNCHANGED <<todo, job, cli, look, dir, staging, checkOf, annotated, comments, result>>
      /\ TypeOK /\ RunnerInv(r) /\ at[r] = "upload" /\ faults' \in 0 .. MaxFaults
      /\ job[r] \in Jobs /\ at' = [at EXCEPT ![r] = "reflect"]
      /\ \/ uploaded' = [uploaded EXCEPT ![job[r]] = staging[r]] /\ failed' = failed
         \/ uploaded' = uploaded /\ failed' = [failed EXCEPT ![r] = TRUE]
  BY DEF Upload, IInv, TypeOK
<1>2. TypeOK'
  <2>1. at' \in [Runners -> {"idle"} \cup CLISteps \cup JobSteps]
        /\ \A s \in Runners : at'[s] # "idle" => at[s] # "idle"
    BY <1>1 DEF TypeOK, JobSteps
  <2>2. failed' \in [Runners -> BOOLEAN] /\ uploaded' \in [Jobs -> Content \cup {NoFile}]
    BY <1>1 DEF TypeOK
  <2> QED
    BY <1>1, <2>1, <2>2 DEF TypeOK
<1>3. Frame(r)
  BY <1>1 DEF TypeOK, Frame, IInv, Apart
<1>4. RunnerInv(r)'
  <2>1. /\ at'[r] = "reflect"
        /\ ~failed'[r] => ~failed[r] /\ uploaded'[job[r]] = staging[r]
    BY <1>1 DEF TypeOK
  <2> QED
    BY <1>1, <2>1 DEF RunnerInv, Running, Writing, Written, Published, CLISteps, JobSteps,
       Report, Own, Whole, Exists
<1>5. Apart' /\ OwnEvidence' /\ CommentHasItsCheck'
  <2>1. \A s \in Runners : at'[s] # "idle" => at[s] # "idle"
    BY <1>1 DEF TypeOK
  <2> QED
    BY <1>1, <2>1 DEF IInv, Apart, OwnEvidence, CommentHasItsCheck, Whole, Exists
<1>6. GreenMeansPassed'
  <2>1. result[job[r]] = "none" /\ \A j \in Jobs : j # job[r] => uploaded'[j] = uploaded[j]
    BY <1>1 DEF TypeOK, RunnerInv, Running
  <2> QED
    BY <1>1, <2>1 DEF IInv, GreenMeansPassed, Conclusion
<1> QED
  BY <1>2, <1>3, <1>4, <1>5, <1>6, StepOf

LEMMA ReflectKeeps ==
    ASSUME IInv, NEW r \in Runners, Reflect(r)
    PROVE  IInv'
<1>1. /\ UNCHANGED <<todo, cli, failed, look, dir, staging, github, faults>>
      /\ TypeOK /\ RunnerInv(r) /\ at[r] = "reflect" /\ at[r] \in JobSteps /\ job[r] \in Jobs
      /\ result' = [result EXCEPT ![job[r]] = ResultOf(r)]
      /\ job' = [job EXCEPT ![r] = NoJob] /\ at' = [at EXCEPT ![r] = "idle"]
  BY DEF Reflect, IInv, TypeOK, JobSteps
<1>2. ResultOf(r) \in {"success", "failure"}
      /\ (ResultOf(r) = "success" => ~failed[r] /\ status[r] \in {NoCode, 0})
  BY DEF ResultOf, StatusOnly
<1>3. TypeOK'
  <2>1. \A s \in Runners : at'[s] # "idle" => at[s] # "idle" /\ job'[s] = job[s]
    BY <1>1 DEF TypeOK
  <2>2. /\ at' \in [Runners -> {"idle"} \cup CLISteps \cup JobSteps]
        /\ job' \in [Runners -> Jobs \cup {NoJob}]
        /\ result' \in [Jobs -> {"none", "success", "failure"}]
    BY <1>1, <1>2 DEF TypeOK
  <2> QED
    BY <1>1, <2>1, <2>2 DEF TypeOK
<1>4. Frame(r)
  BY <1>1 DEF TypeOK, Frame, IInv, Apart
<1>5. RunnerInv(r)'
  <2>1. at'[r] = "idle"
    BY <1>1 DEF TypeOK
  <2> QED
    BY <2>1 DEF RunnerInv, Running, Writing, Written, Published, CLISteps, JobSteps
<1>6. Apart'
  <2>1. \A s \in Runners : at'[s] # "idle" => at[s] # "idle" /\ job'[s] = job[s]
    BY <1>1 DEF TypeOK
  <2>2. \A j \in todo : result'[j] = result[j]
    BY <1>1 DEF TypeOK, RunnerInv, Running
  <2> QED
    BY <1>1, <2>1, <2>2 DEF IInv, Apart
<1>7. OwnEvidence' /\ CommentHasItsCheck'
  BY <1>1 DEF IInv, OwnEvidence, CommentHasItsCheck, Whole, Exists
<1>8. GreenMeansPassed'
  <2>1. SUFFICES ASSUME NEW j \in Jobs, result'[j] = "success"
                 PROVE  /\ uploaded[j].by = j /\ uploaded[j].code = 0
                        /\ checkOf[j] = uploaded[j]
                        /\ Conclusion(checkOf[j]) # "failure"
    BY <1>1 DEF GreenMeansPassed, Conclusion
  <2>2. CASE j # job[r]
    BY <1>1, <2>1, <2>2 DEF IInv, TypeOK, GreenMeansPassed
  <2>3. CASE j = job[r]
    <3>1. ~failed[r] /\ status[r] \in {NoCode, 0}
      BY <1>1, <1>2, <2>1, <2>3 DEF TypeOK
    <3>2. status[r] = 0
      BY <1>1, <3>1 DEF RunnerInv, Published
    <3>3. checkOf[j] = Report(r, 0) /\ uploaded[j] = Report(r, 0)
      BY <1>1, <2>3, <3>1, <3>2, ZeroHasReport DEF RunnerInv, Published, RunFiles, Payloads
    <3> QED
      BY <2>3, <3>3 DEF Report, Conclusion
  <2> QED
    BY <2>2, <2>3
<1> QED
  BY <1>3, <1>4, <1>5, <1>6, <1>7, <1>8, StepOf

LEMMA OthersKeep ==
    ASSUME IInv, Others
    PROVE  IInv'
<1> PICK n \in 0 .. MarkerLength : comments' = Append(comments, [text |-> NoFile, begins |-> n])
  BY DEF Others
<1> DEFINE post == [text |-> NoFile, begins |-> n]
<1>0. post \in Posts /\ post.text = NoFile
  BY DEF Posts
<1>1. TypeOK /\ comments' = Append(comments, post)
      /\ UNCHANGED <<todo, job, at, cli, failed, look, dir, staging, checkOf, annotated,
                     uploaded, result, faults>>
  BY DEF Others, IInv
<1> HIDE DEF post
<1>2. comments' \in Seq(Posts)
      /\ \A i \in DOMAIN comments' :
           comments'[i] = post \/ (i \in DOMAIN comments /\ comments'[i] = comments[i])
  BY <1>0, <1>1 DEF TypeOK
<1>3. TypeOK'
  BY <1>1, <1>2 DEF TypeOK
<1>4. \A r \in Runners : RunnerInv(r)'
  <2>1. TAKE r \in Runners
  <2>2. RunnerInv(r)
    BY DEF IInv
  <2> QED
    BY <1>1, <2>2 DEF RunnerInv, Running, Writing, Written, Published, Report, Own, Whole, Exists
<1>5. Apart' /\ OwnEvidence' /\ GreenMeansPassed'
  BY <1>1 DEF IInv, Apart, OwnEvidence, GreenMeansPassed, Conclusion
<1>6. CommentHasItsCheck'
  BY <1>0, <1>1, <1>2 DEF IInv, CommentHasItsCheck, Whole, Exists, NoFile
<1> QED
  BY <1>3, <1>4, <1>5, <1>6 DEF IInv

-----------------------------------------------------------------------------
(* The theorems.                                                           *)

LEMMA Initially == Init => IInv
<1> SUFFICES ASSUME Init PROVE IInv
  OBVIOUS
<1>1. \A S : <<>> \in Seq(S)
  OBVIOUS
<1>2. TypeOK
  BY <1>1 DEF Init, TypeOK, NoFile
<1>3. \A r \in Runners : RunnerInv(r)
  BY DEF Init, RunnerInv, Running, Writing, Written, Published, CLISteps, JobSteps
<1>4. Apart /\ OwnEvidence /\ GreenMeansPassed /\ CommentHasItsCheck
  BY DEF Init, Apart, OwnEvidence, GreenMeansPassed, CommentHasItsCheck, NoFile
<1> QED
  BY <1>2, <1>3, <1>4 DEF IInv

LEMMA Stutters ==
    ASSUME IInv, UNCHANGED vars
    PROVE  IInv'
<1>1. TypeOK' /\ Apart' /\ OwnEvidence' /\ GreenMeansPassed' /\ CommentHasItsCheck'
  BY DEF IInv, TypeOK, Apart, OwnEvidence, GreenMeansPassed, CommentHasItsCheck, Whole, Exists,
     Conclusion
<1>2. \A r \in Runners : RunnerInv(r)'
  <2>1. TAKE r \in Runners
  <2>2. RunnerInv(r)
    BY DEF IInv
  <2> QED
    BY <2>2 DEF RunnerInv, Running, Writing, Written, Published, Report, Own, Whole, Exists
<1> QED
  BY <1>1, <1>2 DEF IInv

\* The invariant holds in every state a fleet of runners can reach.
THEOREM Invariance == Spec => []IInv
<1>1. IInv /\ [Next]_vars => IInv'
  <2> SUFFICES ASSUME IInv, [Next]_vars PROVE IInv'
    OBVIOUS
  <2> HIDE DEF vars
  <2>1. ASSUME NEW r \in Runners, Take(r) PROVE IInv'
    BY <2>1, TakeKeeps
  <2>2. ASSUME NEW r \in Runners, CLI(r) PROVE IInv'
    BY <2>2, RequestKeeps, RunCasesKeeps, WriteRunDirKeeps, RejectKeeps, ReturnKeeps, KillKeeps,
       DieKeeps DEF CLI
  <2>3. ASSUME NEW r \in Runners, Publish(r) PROVE IInv'
    BY <2>3, StepSummaryKeeps, AnnotateKeeps, PublishCheckKeeps, ListCommentsKeeps, CommentKeeps,
       StageKeeps, UploadKeeps, ReflectKeeps DEF Publish
  <2>4. CASE Others
    BY <2>4, OthersKeep
  <2>5. CASE Done \/ UNCHANGED vars
    BY <2>5, Stutters DEF Done
  <2> QED
    BY <2>1, <2>2, <2>3, <2>4, <2>5 DEF Next
<1> QED
  BY <1>1, Initially, PTL DEF Spec

\* Every status, report and payload is one the tables of exit_codes.py know.
THEOREM TypeCorrect == Spec => []TypeOK
<1>1. IInv => TypeOK
  BY DEF IInv
<1> QED
  BY <1>1, Invariance, PTL

\* No Check Run and no annotation repeats an earlier job's file.
THEOREM EvidenceIsOwn == Spec => []OwnEvidence
<1>1. IInv => OwnEvidence
  BY DEF IInv
<1> QED
  BY <1>1, Invariance, PTL

\* An exit status 0, 1 or 2 is backed by what the run directory holds.
THEOREM StatusIsAlwaysBacked == Spec => []StatusIsBacked
<1>1. IInv => StatusIsBacked
  <2> SUFFICES ASSUME IInv, NEW r \in Runners, at[r] \in JobSteps
               PROVE  /\ status[r] \in {0, 1} =>
                           \A f \in {"report"} \cup Payloads : Own(r, f, status[r])
                      /\ status[r] = 2 =>
                           /\ Own(r, "errors", 2)
                           /\ \A f \in {"report"} \cup Payloads :
                                dir[r][f] = NoFile \/ Own(r, f, 2)
    BY DEF StatusIsBacked
  <2>1. Written(r)
    BY DEF IInv, RunnerInv
  <2> QED
    BY <2>1 DEF Written, Report, RunFiles, Own
<1> QED
  BY <1>1, Invariance, PTL

\* A green job has published the Check Run and the report it is green for.
THEOREM GreenAlwaysMeansPassed == Spec => []GreenMeansPassed
<1>1. IInv => GreenMeansPassed
  BY DEF IInv
<1> QED
  BY <1>1, Invariance, PTL

\* A sticky comment repeats a report whose Check Run is published.
THEOREM CommentsHaveTheirCheck == Spec => []CommentHasItsCheck
<1>1. IInv => CommentHasItsCheck
  BY DEF IInv
<1> QED
  BY <1>1, Invariance, PTL

-----------------------------------------------------------------------------
(* What the pull request shows is a publication.                           *)

\* Only a job whose request was refused has annotated, and not before its step has.
Noted(r) ==
    at[r] # "idle" /\ annotated[job[r]] # NoFile =>
        status[r] = 2 /\ at[r] \in JobSteps \ {"step_summary", "annotate"}

\* The comment that the listing showed is still there: as it began, or one of a job by now.
Commenting(r) ==
    at[r] = "comment" =>
        /\ Exists(dir[r]["sticky"]) /\ marker[r] \in FirstLines(dir[r]["sticky"])
        /\ found[r] # 0 =>
             /\ found[r] \in DOMAIN comments
             /\ Exists(comments[found[r]].text) \/ comments[found[r]].begins >= marker[r]

\* What a runner has staged is of a job that has begun.
Staged(r) == staging[r].by \notin todo

Speaking ==
    /\ \A r \in Runners : Noted(r) /\ Commenting(r) /\ Staged(r)
    /\ \A j \in todo : annotated[j] = NoFile

\* Every comment stays where it is, and as it is unless a job replaces it.
CommentsStay ==
    \A i \in DOMAIN comments :
        i \in DOMAIN comments' /\ (comments'[i] = comments[i] \/ Exists(comments'[i].text))

\* A step of one runner leaves what the others go by alone.
LEMMA OthersUntouched ==
    ASSUME IInv, NEW r \in Runners, Take(r) \/ CLI(r) \/ Publish(r)
    PROVE  \A s \in Runners \ {r} :
             /\ at'[s] = at[s] /\ job'[s] = job[s] /\ status'[s] = status[s]
             /\ dir'[s] = dir[s] /\ found'[s] = found[s] /\ marker'[s] = marker[s]
             /\ staging'[s] = staging[s]
<1>1. /\ at \in [Runners -> {"idle"} \cup CLISteps \cup JobSteps]
      /\ job \in [Runners -> Jobs \cup {NoJob}]
      /\ status \in [Runners -> {NoCode, 0, 1, 2, 3}]
      /\ dir \in [Runners -> [Files -> Content \cup {NoFile}]]
      /\ found \in [Runners -> Nat] /\ marker \in [Runners -> 0 .. MarkerLength]
      /\ staging \in [Runners -> Content \cup {NoFile}]
  BY DEF IInv, TypeOK
<1> HIDE DEF NoFault
<1>2. CASE Take(r)
  BY <1>1, <1>2 DEF Take
<1>3. CASE Request(r) \/ RunCases(r) \/ Return(r) \/ Kill(r) \/ Die(r)
  BY <1>1, <1>3 DEF Request, RunCases, Return, Kill, Die
<1>4. CASE WriteRunDir(r)
  BY <1>1, <1>4 DEF WriteRunDir, Write
<1>5. CASE Reject(r)
  BY <1>1, <1>5 DEF Reject, Refuse
<1>6. CASE StepSummary(r) \/ Annotate(r) \/ PublishCheck(r) \/ ListComments(r)
  BY <1>1, <1>6 DEF StepSummary, Annotate, PublishCheck, ListComments
<1>7. CASE Comment(r) \/ Stage(r) \/ Upload(r) \/ Reflect(r)
  BY <1>1, <1>7 DEF Comment, Stage, Upload, Reflect
<1> QED
  BY <1>2, <1>3, <1>4, <1>5, <1>6, <1>7 DEF CLI, Publish

\* The steps of a job keep Speaking, if they keep it for that job.
LEMMA SpeakingOf ==
    ASSUME IInv, IInv', Speaking, NEW r \in Runners, Take(r) \/ CLI(r) \/ Publish(r),
           Noted(r)', Commenting(r)', Staged(r)', todo' \subseteq todo, CommentsStay,
           \/ annotated' = annotated
           \/ at'[r] # "idle" /\ job'[r] \notin todo'
              /\ \A j \in Jobs \ {job'[r]} : annotated'[j] = annotated[j]
    PROVE  Speaking'
<1>1. \A j \in todo' : annotated'[j] = NoFile
  BY DEF Speaking, IInv, TypeOK
<1>2. ASSUME NEW s \in Runners \ {r} PROVE Noted(s)' /\ Commenting(s)' /\ Staged(s)'
  <2>1. /\ at'[s] = at[s] /\ job'[s] = job[s] /\ status'[s] = status[s]
        /\ dir'[s] = dir[s] /\ found'[s] = found[s] /\ marker'[s] = marker[s]
        /\ staging'[s] = staging[s]
    BY <1>2, OthersUntouched
  <2>2. Noted(s) /\ Commenting(s) /\ Staged(s)
    BY <1>2 DEF Speaking
  <2>3. at[s] # "idle" => annotated'[job[s]] = annotated[job[s]]
    BY <1>2, <2>1 DEF IInv, TypeOK, Apart
  <2>4. Noted(s)'
    BY <2>1, <2>2, <2>3 DEF Noted
  <2>5. Commenting(s)'
    BY <2>1, <2>2 DEF Commenting, CommentsStay, FirstLines, Whole, Exists
  <2> QED
    BY <2>1, <2>2, <2>4, <2>5 DEF Staged
<1> QED
  BY <1>1, <1>2 DEF Speaking

\* A comment that is written is a comment of a job.
LEMMA CommentsKept ==
    ASSUME IInv, Speaking, NEW r \in Runners, Comment(r)
    PROVE  CommentsStay
<1> DEFINE post == [text |-> dir[r]["sticky"], begins |-> marker[r]]
<1>1. comments \in Seq(Posts) /\ post \in Posts
  BY DEF IInv, TypeOK, Files, Payloads, Posts
<1>2. Exists(post.text)
  BY DEF Speaking, Commenting, Comment
<1>0. \/ comments' = comments
      \/ comments' = Append(comments, post)
      \/ comments' = [comments EXCEPT ![found[r]] = post]
  BY DEF Comment
<1> HIDE DEF post
<1>3. CASE comments' = comments
  BY <1>3 DEF CommentsStay
<1>4. CASE comments' = Append(comments, post)
  BY <1>1, <1>4, AppendProperties DEF CommentsStay
<1>5. CASE comments' = [comments EXCEPT ![found[r]] = post]
  BY <1>1, <1>2, <1>5 DEF CommentsStay
<1> QED
  BY <1>0, <1>3, <1>4, <1>5

\* cv-infra verify and the listing: the steps after which nobody is about to comment.
LEMMA SpeakingKept ==
    ASSUME IInv, IInv', Speaking, [Next]_vars
    PROVE  Speaking'
<1>0. /\ at \in [Runners -> {"idle"} \cup CLISteps \cup JobSteps]
      /\ job \in [Runners -> Jobs \cup {NoJob}]
      /\ staging \in [Runners -> Content \cup {NoFile}] /\ todo \subseteq Jobs
      /\ annotated \in [Jobs -> Content \cup {NoFile}] /\ found \in [Runners -> Nat]
      /\ \A r \in Runners : at[r] # "idle" => job[r] \in Jobs
      /\ dir \in [Runners -> [Files -> Content \cup {NoFile}]]
  BY DEF IInv, TypeOK
<1>01. /\ \A r \in Runners : Noted(r) /\ Commenting(r) /\ Staged(r)
       /\ \A j \in todo : annotated[j] = NoFile
  BY DEF Speaking
<1>1. ASSUME NEW r \in Runners, Take(r) PROVE Speaking'
  <2>1. /\ at'[r] = "request" /\ job'[r] \in todo /\ todo' = todo \ {job'[r]}
        /\ UNCHANGED <<staging, annotated, comments>>
    BY <1>0, <1>1 DEF Take
  <2>2. Noted(r)' /\ Commenting(r)' /\ Staged(r)'
    BY <1>01, <2>1 DEF Noted, Commenting, Staged
  <2> QED
    BY <1>1, <2>1, <2>2, SpeakingOf DEF CommentsStay
<1>2. ASSUME NEW r \in Runners, CLI(r) PROVE Speaking'
  <2>1. at[r] \in CLISteps /\ job' = job /\ UNCHANGED <<todo, staging, annotated, comments>>
    BY <1>2 DEF CLI, Request, RunCases, WriteRunDir, Write, Reject, Refuse, Return, Kill, Die,
       CLISteps
  <2>2. at'[r] # "comment"
    <3>1. CASE Request(r) \/ RunCases(r) \/ Return(r) \/ Kill(r) \/ Die(r)
      BY <1>0, <3>1 DEF Request, RunCases, Return, Kill, Die
    <3>2. CASE WriteRunDir(r)
      BY <1>0, <3>2 DEF WriteRunDir, Write
    <3>3. CASE Reject(r)
      BY <1>0, <3>3 DEF Reject, Refuse
    <3> QED
      BY <1>2, <3>1, <3>2, <3>3 DEF CLI
  <2>3. annotated[job[r]] = NoFile
    BY <1>01, <2>1 DEF Noted, CLISteps, JobSteps
  <2>4. Noted(r)' /\ Commenting(r)' /\ Staged(r)'
    BY <1>01, <2>1, <2>2, <2>3 DEF Noted, Commenting, Staged
  <2> QED
    BY <1>2, <2>1, <2>4, SpeakingOf DEF CommentsStay
<1>3. ASSUME NEW r \in Runners, StepSummary(r) PROVE Speaking'
  <2>1. /\ at[r] = "step_summary" /\ at'[r] = "annotate"
        /\ UNCHANGED <<job, todo, staging, annotated, comments>>
    BY <1>0, <1>3 DEF StepSummary
  <2>2. Noted(r)' /\ Commenting(r)' /\ Staged(r)'
    BY <1>01, <2>1 DEF Noted, Commenting, Staged
  <2> QED
    BY <1>3, <2>1, <2>2, SpeakingOf DEF CommentsStay, Publish
<1>4. ASSUME NEW r \in Runners, Annotate(r) PROVE Speaking'
  <2>1. /\ at[r] = "annotate" /\ at'[r] \in {"publish_check", "reflect"}
        /\ UNCHANGED <<job, status, todo, staging, comments>>
        /\ annotated[job[r]] = NoFile
    BY <1>0, <1>01, <1>4 DEF Annotate, Noted
  <2>2. \/ annotated' = annotated
        \/ status[r] = 2 /\ annotated' = [annotated EXCEPT ![job[r]] = dir[r]["errors"]]
    BY <1>4 DEF Annotate
  <2>3. Noted(r)' /\ Commenting(r)' /\ Staged(r)'
    BY <1>0, <1>01, <2>1, <2>2 DEF Noted, Commenting, Staged, JobSteps
  <2>4. job[r] \notin todo
    BY <2>1 DEF IInv, RunnerInv, Running
  <2>5. annotated' = annotated \/ \A j \in Jobs \ {job[r]} : annotated'[j] = annotated[j]
    BY <1>0, <2>2
  <2> QED
    BY <1>4, <2>1, <2>3, <2>4, <2>5, SpeakingOf DEF CommentsStay, Publish
<1>5. ASSUME NEW r \in Runners, ListComments(r) PROVE Speaking'
  <2>1. /\ at[r] = "list" /\ UNCHANGED <<job, status, todo, staging, annotated, comments, dir>>
    BY <1>5 DEF ListComments
  <2>2. \/ at'[r] = "stage"
        \/ /\ at'[r] = "comment" /\ Exists(dir[r]["sticky"])
           /\ marker'[r] \in FirstLines(dir[r]["sticky"])
           /\ found'[r] = 0 \/ found'[r] \in Listed(marker'[r])
    <3>1. marker \in [Runners -> 0 .. MarkerLength]
      BY DEF IInv, TypeOK
    <3> QED
      BY <1>0, <1>5, <3>1 DEF ListComments
  <2>3. Noted(r)' /\ Staged(r)'
    BY <1>01, <2>1, <2>2 DEF Noted, Staged, JobSteps
  <2>4. Commenting(r)'
    <3>1. marker'[r] \in FirstLines(dir[r]["sticky"])
            => marker'[r] \in FirstLines(dir'[r]["sticky"])
      BY <2>1
    <3> QED
      BY <2>1, <2>2, <3>1 DEF Commenting, Listed, StartsWith, FirstLines, Whole, Exists
  <2> QED
    BY <1>5, <2>1, <2>3, <2>4, SpeakingOf DEF CommentsStay, Publish
<1>6. ASSUME NEW r \in Runners, PublishCheck(r) \/ Comment(r) \/ Upload(r) PROVE Speaking'
  <2>1. /\ at[r] \in {"publish_check", "comment", "upload"}
        /\ at'[r] \in {"list", "stage", "upload", "reflect"}
        /\ UNCHANGED <<job, status, todo, staging, annotated>>
    BY <1>0, <1>6 DEF PublishCheck, Comment, Upload
  <2>2. Noted(r)' /\ Commenting(r)' /\ Staged(r)'
    BY <1>01, <2>1 DEF Noted, Commenting, Staged, JobSteps
  <2>3. CommentsStay
    BY <1>6, CommentsKept DEF PublishCheck, Upload, CommentsStay
  <2> QED
    BY <1>6, <2>1, <2>2, <2>3, SpeakingOf DEF Publish
<1>7. ASSUME NEW r \in Runners, Stage(r) PROVE Speaking'
  <2>1. /\ at[r] = "stage" /\ at'[r] = "upload"
        /\ UNCHANGED <<job, status, todo, annotated, comments>>
        /\ staging'[r] \in {staging[r], dir[r]["report"], NoFile}
    BY <1>0, <1>7 DEF Stage
  <2>2. dir[r]["report"].by \in {job[r], NoJob} /\ job[r] \notin todo
    BY <2>1 DEF IInv, RunnerInv, Running, Written, Files, JobSteps
  <2>3. Staged(r)'
    BY <1>0, <1>01, <2>1, <2>2 DEF Staged, NoFile
  <2>4. Noted(r)' /\ Commenting(r)'
    BY <1>01, <2>1 DEF Noted, Commenting, JobSteps
  <2> QED
    BY <1>7, <2>1, <2>3, <2>4, SpeakingOf DEF CommentsStay, Publish
<1>8. ASSUME NEW r \in Runners, Reflect(r) PROVE Speaking'
  <2>1. at'[r] = "idle" /\ UNCHANGED <<todo, staging, annotated, comments>>
    BY <1>0, <1>8 DEF Reflect
  <2>2. Noted(r)' /\ Commenting(r)' /\ Staged(r)'
    BY <1>01, <2>1 DEF Noted, Commenting, Staged
  <2> QED
    BY <1>8, <2>1, <2>2, SpeakingOf DEF CommentsStay, Publish
<1>9. CASE Others \/ Done \/ UNCHANGED vars
  <2>1. UNCHANGED <<at, job, status, look, dir, staging, todo, annotated>>
    BY <1>9 DEF Others, Done
  <2>2. CommentsStay
    <3>1. comments \in Seq(Posts)
      BY DEF IInv, TypeOK
    <3>2. comments' = comments \/ \E post \in Posts : comments' = Append(comments, post)
      BY <1>9 DEF Others, Done, Posts
    <3> QED
      BY <3>1, <3>2, AppendProperties DEF CommentsStay
  <2>3. \A r \in Runners : Noted(r)' /\ Commenting(r)' /\ Staged(r)'
    BY <1>01, <2>1, <2>2 DEF Noted, Commenting, Staged, CommentsStay, FirstLines, Whole,
       Exists
  <2> QED
    BY <1>01, <2>1, <2>3 DEF Speaking
<1> QED
  BY <1>1, <1>2, <1>3, <1>4, <1>5, <1>6, <1>7, <1>8, <1>9 DEF Next, Publish


\* The step of the publication that a step is, or none.
Told == [PublicationOf!Next]_(PublicationOf!vars)

\* Steps that the pull request does not show.
LEMMA Unseen == ASSUME UNCHANGED <<todo, github, result>> PROVE Told
  BY DEF Told, PublicationOf!vars

\* The papers of VerifyJob are those of the publication.
LEMMA Papers ==
    /\ PublicationOf!Nothing = NoFile
    /\ \A p \in Content :
         /\ p.code # NoCode => p \in PublicationOf!Reports(p.by)
         /\ p.code = NoCode => p \in PublicationOf!CutShort(p.by)
         /\ p # NoFile
<1>1. PublicationOf!Nothing = NoFile
  BY DEF PublicationOf!Nothing, PublicationOf!Paper, NoFile, NoCode
<1>2. ASSUME NEW p \in Content
      PROVE  /\ p = PublicationOf!Paper(p.by, p.code, p.gating)
             /\ p.code \in {-1, 0, 1, 2, 3} /\ p.gating \in BOOLEAN /\ p # NoFile
  BY <1>2 DEF Content, PublicationOf!Paper, NoFile, NoCode
<1>3. ASSUME NEW p \in Content, p.code # NoCode PROVE p \in PublicationOf!Reports(p.by)
  <2>1. p.code \in 0 .. 3
    BY <1>2, <1>3 DEF NoCode
  <2> QED
    BY <1>2, <1>3, <2>1 DEF PublicationOf!Reports
<1>4. ASSUME NEW p \in Content, p.code = NoCode PROVE p \in PublicationOf!CutShort(p.by)
  BY <1>2, <1>4 DEF PublicationOf!CutShort, NoCode
<1> QED
  BY <1>1, <1>2, <1>3, <1>4

\* A job that a runner is at is one that runs.
LEMMA Runs ==
    ASSUME IInv, NEW r \in Runners, at[r] # "idle"
    PROVE  job[r] \in Jobs /\ PublicationOf!Running(job[r])
<1>1. Running(r)
  BY DEF IInv, RunnerInv
<1> QED
  BY <1>1 DEF IInv, TypeOK, Running, PublicationOf!Running

\* A refusal is annotated by the job itself, before it has a Check Run.
LEMMA AnnotateIsTold ==
    ASSUME IInv, Speaking, NEW r \in Runners, Annotate(r)
    PROVE  Told
<1>0. /\ at[r] = "annotate" /\ UNCHANGED <<todo, checkOf, uploaded, comments, result>>
      /\ dir[r]["errors"] \in Content \cup {NoFile}
  BY DEF Annotate, IInv, TypeOK, Files
<1>1. CASE annotated' = annotated
  BY <1>0, <1>1, Unseen
<1>2. CASE /\ status[r] = 2 /\ Exists(dir[r]["errors"])
           /\ annotated' = [annotated EXCEPT ![job[r]] = dir[r]["errors"]]
  <2>1. Own(r, "errors", 2)
    BY <1>0, <1>2 DEF IInv, RunnerInv, Written, JobSteps
  <2>2. dir[r]["errors"] \in PublicationOf!Reports(job[r]) /\ dir[r]["errors"].code = 2
    BY <1>0, <1>2, <2>1, Papers DEF Own, Exists, NoFile, NoCode
  <2>3. checkOf[job[r]] = NoFile /\ annotated[job[r]] = NoFile
    BY <1>0 DEF IInv, RunnerInv, Published, Speaking, Noted
  <2>4. PublicationOf!Annotate(job[r])
    BY <1>0, <1>2, <2>2, <2>3, Runs, Papers DEF PublicationOf!Annotate
  <2> QED
    BY <1>0, <2>4, Runs DEF Told, PublicationOf!Next
<1> QED
  BY <1>1, <1>2 DEF Annotate

\* The Check Run is the job's, once, and of a refusal if one was annotated.
LEMMA CheckIsTold ==
    ASSUME IInv, Speaking, NEW r \in Runners, PublishCheck(r)
    PROVE  Told
<1>0. /\ at[r] = "publish_check" /\ UNCHANGED <<todo, annotated, uploaded, comments, result>>
      /\ dir[r]["check"] \in Content \cup {NoFile}
  BY DEF PublishCheck, IInv, TypeOK, Files, Payloads
<1>1. CASE checkOf' = checkOf
  BY <1>0, <1>1, Unseen
<1>2. CASE Whole(dir[r]["check"]) /\ checkOf' = [checkOf EXCEPT ![job[r]] = dir[r]["check"]]
  <2>1. Written(r) /\ Published(r) /\ Noted(r)
    BY DEF IInv, RunnerInv, Speaking
  <2>2. dir[r]["check"].by = job[r] /\ dir[r]["check"].code # NoCode
    BY <1>0, <1>2, <2>1 DEF Written, Whole, Exists, Files, Payloads, JobSteps
  <2>3. dir[r]["check"] \in PublicationOf!Reports(job[r])
    BY <1>0, <1>2, <2>2, Papers DEF Whole, Exists, NoFile
  <2>4. annotated[job[r]] = NoFile \/ dir[r]["check"].code = 2
    <3> SUFFICES ASSUME annotated[job[r]] # NoFile PROVE dir[r]["check"].code = 2
      OBVIOUS
    <3>1. status[r] = 2
      BY <1>0, <2>1 DEF Noted
    <3>2. dir[r]["check"] \in {NoFile, Report(r, 2)}
      BY <1>0, <2>1, <3>1 DEF Written, RunFiles, Payloads, JobSteps
    <3>3. dir[r]["check"] # NoFile
      BY <1>2 DEF Whole, Exists, NoFile
    <3> QED
      BY <3>2, <3>3 DEF Report
  <2>5. checkOf[job[r]] = NoFile
    BY <1>0, <2>1 DEF Published
  <2>6. PublicationOf!PublishCheck(job[r])
    BY <1>0, <1>2, <2>3, <2>4, <2>5, Runs, Papers DEF PublicationOf!PublishCheck
  <2> QED
    BY <1>0, <2>6, Runs DEF Told, PublicationOf!Next
<1> QED
  BY <1>1, <1>2 DEF PublishCheck

\* The comment repeats the Check Run, and is only written over one of a job or one that begins
\* as it does.
LEMMA CommentIsTold ==
    ASSUME IInv, Speaking, NEW r \in Runners, Comment(r)
    PROVE  Told
<1> DEFINE body == dir[r]["sticky"]
           post == [text |-> body, begins |-> marker[r]]
<1>0. /\ at[r] = "comment" /\ UNCHANGED <<todo, checkOf, annotated, uploaded, result>>
      /\ body \in Content \cup {NoFile} /\ dir[r]["check"] \in Content \cup {NoFile}
  BY DEF Comment, IInv, TypeOK, Files, Payloads
<1>1. Written(r) /\ Published(r) /\ Commenting(r)
  BY DEF IInv, RunnerInv, Speaking
<1>2. Whole(dir[r]["check"]) /\ checkOf[job[r]] = dir[r]["check"]
  BY <1>0, <1>1 DEF Published
<1>3. body \in {checkOf[job[r]]} \cup PublicationOf!CutShort(job[r])
  <2>1. CASE Whole(body)
    <3>1. body = Report(r, verdict[r]) /\ dir[r]["check"] = Report(r, verdict[r])
      BY <1>0, <1>1, <1>2, <2>1 DEF Written, RunFiles, Payloads, JobSteps
    <3> QED
      BY <1>2, <3>1
  <2>2. CASE ~Whole(body)
    <3>1. Exists(body) /\ body.code = NoCode
      BY <1>0, <1>1, <2>2 DEF Commenting, Whole
    <3>2. body.by = job[r]
      BY <1>0, <1>1, <3>1 DEF Written, Exists, Files, Payloads, JobSteps
    <3> QED
      BY <1>0, <3>1, <3>2, Papers DEF Exists, NoFile
  <2> QED
    BY <2>1, <2>2
<1>4. checkOf[job[r]] # NoFile
  BY <1>0, <1>2, Papers DEF Whole, Exists, NoFile
<1>8. post \in PublicationOf!Bodies(job[r]) /\ post.begins = marker[r]
  <2>1. marker[r] \in FirstLines(body)
    BY <1>0, <1>1 DEF Commenting
  <2>2. CASE Whole(body)
    <3>1. body = checkOf[job[r]]
      BY <1>0, <1>2, <1>3, <2>2 DEF Whole, PublicationOf!CutShort, PublicationOf!Paper, NoCode
    <3> QED
      BY <2>1, <2>2, <3>1 DEF FirstLines, PublicationOf!Bodies
  <2>3. CASE ~Whole(body)
    <3>1. body \in PublicationOf!CutShort(job[r])
      BY <1>2, <1>3, <2>3
    <3> QED
      BY <2>1, <2>3, <3>1 DEF FirstLines, PublicationOf!Bodies
  <2> QED
    BY <2>2, <2>3
<1>9. \/ comments' = comments
      \/ comments' = Append(comments, post)
      \/ found[r] # 0 /\ comments' = [comments EXCEPT ![found[r]] = post]
  BY DEF Comment
<1>5. CASE comments' = comments
  BY <1>0, <1>5, Unseen
<1> HIDE DEF body, post
<1>6. CASE comments' = Append(comments, post)
  <2>1. PublicationOf!Comment(job[r])
    BY <1>0, <1>8, <1>4, <1>6, Runs, Papers DEF PublicationOf!Comment
  <2> QED
    BY <1>0, <2>1, Runs DEF Told, PublicationOf!Next
<1>7. CASE found[r] # 0 /\ comments' = [comments EXCEPT ![found[r]] = post]
  <2>1. /\ found[r] \in DOMAIN comments
        /\ comments[found[r]].text.by # NoJob \/ comments[found[r]].begins >= post.begins
    BY <1>0, <1>1, <1>7, <1>8 DEF Commenting, Exists
  <2>2. PublicationOf!Comment(job[r])
    BY <1>0, <1>8, <1>4, <1>7, <2>1, Runs, Papers DEF PublicationOf!Comment
  <2> QED
    BY <1>0, <2>2, Runs DEF Told, PublicationOf!Next
<1> QED
  BY <1>5, <1>6, <1>7, <1>9

\* What is uploaded is of a job that has begun.
LEMMA UploadIsTold ==
    ASSUME IInv, Speaking, NEW r \in Runners, Upload(r)
    PROVE  Told
<1>0. /\ at[r] = "upload" /\ UNCHANGED <<todo, checkOf, annotated, comments, result>>
      /\ staging[r] \in Content \cup {NoFile}
  BY DEF Upload, IInv, TypeOK
<1>1. CASE uploaded' = uploaded
  BY <1>0, <1>1, Unseen
<1>2. CASE uploaded' = [uploaded EXCEPT ![job[r]] = staging[r]]
  <2>1. CASE staging[r] = NoFile
    <3>1. PublicationOf!Upload(job[r])
      BY <1>0, <1>2, <2>1, Runs, Papers DEF PublicationOf!Upload
    <3> QED
      BY <1>0, <3>1, Runs DEF Told, PublicationOf!Next
  <2>2. CASE staging[r] \in Content
    <3>1. /\ staging[r].by \in Jobs \ todo
          /\ staging[r] \in PublicationOf!Reports(staging[r].by)
                                \cup PublicationOf!CutShort(staging[r].by)
      BY <2>2, Papers DEF Speaking, Staged, Content
    <3>2. PublicationOf!Upload(job[r])
      BY <1>0, <1>2, <3>1, Runs DEF PublicationOf!Upload
    <3> QED
      BY <1>0, <3>2, Runs DEF Told, PublicationOf!Next
  <2> QED
    BY <1>0, <2>1, <2>2
<1> QED
  BY <1>1, <1>2 DEF Upload

\* The result of a job is its last word.
LEMMA ReflectIsTold ==
    ASSUME IInv, IInv', Speaking, NEW r \in Runners, Reflect(r)
    PROVE  Told
<1>0. /\ at[r] = "reflect" /\ UNCHANGED <<todo, github>>
      /\ result' = [result EXCEPT ![job[r]] = ResultOf(r)]
      /\ ResultOf(r) \in {"success", "failure"}
      /\ result \in [Jobs -> {"none", "success", "failure"}]
  BY DEF Reflect, ResultOf, StatusOnly, IInv, TypeOK
<1>1. job[r] \in Jobs /\ PublicationOf!Running(job[r])
  BY <1>0, Runs
<1>2. CASE ResultOf(r) = "failure"
  <2>1. PublicationOf!Judge(job[r])
    BY <1>0, <1>1, <1>2 DEF PublicationOf!Judge
  <2> QED
    BY <1>1, <2>1 DEF Told, PublicationOf!Next
<1>3. CASE ResultOf(r) = "success"
  <2>1. result'[job[r]] = "success"
    BY <1>0, <1>1, <1>3
  <2>2. /\ uploaded[job[r]].by = job[r] /\ uploaded[job[r]].code = 0
        /\ checkOf[job[r]] = uploaded[job[r]]
    BY <1>0, <1>1, <2>1 DEF IInv, GreenMeansPassed
  <2>3. uploaded[job[r]] \in Content \cup {NoFile} /\ job[r] # NoJob
    BY <1>1 DEF IInv, TypeOK
  <2>4. uploaded[job[r]] \in PublicationOf!Reports(job[r])
    BY <2>2, <2>3, Papers DEF NoFile, NoCode
  <2>5. annotated[job[r]] = NoFile
    BY <1>0, <1>3 DEF Speaking, Noted, ResultOf, StatusOnly, NoCode
  <2>6. PublicationOf!Judge(job[r])
    BY <1>0, <1>1, <1>3, <2>2, <2>4, <2>5, Papers DEF PublicationOf!Judge
  <2> QED
    BY <1>1, <2>6 DEF Told, PublicationOf!Next
<1> QED
  BY <1>0, <1>2, <1>3

\* For any number of runners, jobs, faults and comments, what a pull request shows is a
\* publication: a job speaks for itself alone, while it runs, and never contradicts itself.
THEOREM JobsArePublications == Spec => ImplementsPublication
<1>1. Init => Speaking /\ PublicationOf!Init
  <2> SUFFICES ASSUME Init PROVE Speaking /\ PublicationOf!Init
    OBVIOUS
  <2>1. Speaking
    BY DEF Init, Speaking, Noted, Commenting, Staged, NoFile
  <2>2. PublicationOf!Init
    BY Papers DEF Init, PublicationOf!Init
  <2> QED
    BY <2>1, <2>2
<1>2. IInv /\ IInv' /\ Speaking /\ [Next]_vars => Speaking'
  BY SpeakingKept
<1>3. IInv /\ IInv' /\ Speaking /\ [Next]_vars => [PublicationOf!Next]_(PublicationOf!vars)
  <2> SUFFICES ASSUME IInv, IInv', Speaking, [Next]_vars PROVE Told
    BY DEF Told
  <2>1. ASSUME NEW r \in Runners, Take(r) PROVE Told
    <3>1. PICK j \in todo : todo' = todo \ {j}
      BY <2>1 DEF Take
    <3>2. j \in Jobs /\ PublicationOf!Start(j)
      BY <2>1, <3>1 DEF Take, PublicationOf!Start, IInv, TypeOK
    <3> QED
      BY <3>2 DEF Told, PublicationOf!Next
  <2>2. ASSUME NEW r \in Runners, CLI(r) PROVE Told
    BY <2>2, Unseen DEF CLI, Request, RunCases, WriteRunDir, Reject, Return, Kill, Die
  <2>3. ASSUME NEW r \in Runners, StepSummary(r) \/ ListComments(r) \/ Stage(r) PROVE Told
    BY <2>3, Unseen DEF StepSummary, ListComments, Stage
  <2>4. CASE Others
    <3>1. PublicationOf!Others
      BY <2>4, Papers DEF Others, PublicationOf!Others
    <3> QED
      BY <3>1 DEF Told, PublicationOf!Next
  <2>5. CASE Done \/ UNCHANGED vars
    BY <2>5, Unseen DEF Done
  <2> QED
    BY <2>1, <2>2, <2>3, <2>4, <2>5, AnnotateIsTold, CheckIsTold, CommentIsTold, UploadIsTold,
       ReflectIsTold DEF Next, Publish
<1> QED
  BY <1>1, <1>2, <1>3, Invariance, PTL DEF Spec, ImplementsPublication, PublicationOf!Spec
=============================================================================
