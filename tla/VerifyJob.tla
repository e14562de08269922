----------------------------- MODULE VerifyJob -----------------------------
(***************************************************************************)
(* One verification from request to published result: the order of         *)
(* cli/main.py verify() and run_verify() with every point at which it may  *)
(* stop, in the job of .github/workflows/verify.yml that runs it and then  *)
(* publishes what it finds in the run directory.  A self-hosted runner     *)
(* runs one job after another and keeps its disk in between; several       *)
(* runners serve one pull request.  What a run judges is Baselines.tla's:  *)
(* here its report says some exit code.                                    *)
(***************************************************************************)
EXTENDS Integers, Sequences

CONSTANTS
    Runners,    \* self-hosted runners
    Jobs,       \* jobs of one pull request
    NoJob,
    PageSize,   \* comments the listing of a pull request returns
    MarkerLength,   \* characters of the marker, the first line of a sticky comment
    MaxFaults,  \* bound: file writes and API calls that fail
    MaxOthers   \* bound: comments of others

ASSUME VerifyJobAssumption ==
    /\ NoJob \notin Jobs /\ PageSize \in Nat /\ MarkerLength \in Nat \ {0}
    /\ MaxFaults \in Nat /\ MaxOthers \in Nat

VARIABLES
    todo,       \* jobs no runner has taken
    job,        \* per runner: its job, or NoJob
    at,         \* per runner: the next step
    gating,     \* per runner: a gate without --report-only
    verdict,    \* per runner: the exit code its report dict says, or NoCode
    status,     \* per runner: the exit status of cv-infra verify, or NoCode
    failed,     \* per runner: a step of the job has failed
    marker,     \* per runner: how much of the marker the comment in hand begins with, or 0
    found,      \* per runner: the comment the listing showed, or 0
    dir,        \* per runner: the files of its run directory, see Content
    staging,    \* per runner: the report in its staging directory
    checkOf,    \* GitHub: per job, the payload of its Check Run
    annotated,  \* GitHub: per job, the errors.json annotated on the diff
    uploaded,   \* GitHub: per job, the report in its artifact
    result,     \* GitHub: per job, its result
    comments,   \* GitHub: the comments of the pull request, in order, see Posts
    faults      \* how many faults have happened

cli == <<gating, verdict, status>>
look == <<marker, found>>
github == <<checkOf, annotated, uploaded, comments>>
vars == <<todo, job, at, cli, failed, look, dir, staging, github, result, faults>>

NoCode == -1
Payloads == {"check", "sticky", "summary"}
Files == {"report", "errors"} \cup Payloads

\* A file: of which job, and what report it holds.  Code NoCode: a write that failed.
Content == [by : Jobs, code : {NoCode, 0, 1, 2, 3}, gating : BOOLEAN]
NoFile == [by |-> NoJob, code |-> NoCode, gating |-> FALSE]
Exists(file) == file.by # NoJob
Whole(file) == Exists(file) /\ file.code # NoCode

\* A comment: whose and what it repeats (NoFile: somebody else's), and how much of the
\* marker it begins with.  A job's that has none of it is blank.
Posts == [text : Content \cup {NoFile}, begins : 0 .. MarkerLength]
Blank(c) == Exists(c.text) /\ c.begins = 0

CLISteps ==
    {"request", "reject", "cases", "report", "check", "sticky", "summary", "empty_gate"}
JobSteps ==
    {"step_summary", "annotate", "publish_check", "list", "comment", "stage", "upload",
     "reflect"}

\* exit_codes.py and exit_code_of(): what does not gate passes or is incomplete.
\* (Bug variant: a code of its own for a run cut short.)
CodesAndTruncated(gates) == IF gates THEN 0 .. 4 ELSE {0, 3}
Codes(gates) == IF gates THEN 0 .. 3 ELSE {0, 3}

Conclusion(file) ==
    IF ~file.gating THEN "neutral"
    ELSE CASE file.code = 0 -> "success"
           [] file.code \in {1, 2} -> "failure"
           [] file.code = 3 -> "neutral"

Init ==
    /\ todo = Jobs
    /\ job = [r \in Runners |-> NoJob]
    /\ at = [r \in Runners |-> "idle"]
    /\ gating = [r \in Runners |-> FALSE]
    /\ verdict = [r \in Runners |-> NoCode]
    /\ status = [r \in Runners |-> NoCode]
    /\ failed = [r \in Runners |-> FALSE]
    /\ marker = [r \in Runners |-> 0]
    /\ found = [r \in Runners |-> 0]
    /\ dir = [r \in Runners |-> [f \in Files |-> NoFile]]
    /\ staging = [r \in Runners |-> NoFile]
    /\ checkOf = [j \in Jobs |-> NoFile]
    /\ annotated = [j \in Jobs |-> NoFile]
    /\ uploaded = [j \in Jobs |-> NoFile]
    /\ result = [j \in Jobs |-> "none"]
    /\ comments = <<>>
    /\ faults = 0

Goto(r, step) == at' = [at EXCEPT ![r] = step]
Fault == faults < MaxFaults /\ faults' = faults + 1
NoFault == UNCHANGED faults

\* The process ends.
Exit(r, code) == status' = [status EXCEPT ![r] = code] /\ Goto(r, "step_summary")

\* A runner takes a job; the run directory is removed first.  (Bug variant: it is not.)
Kept(r) == dir[r]
Wiped(r) == [f \in Files |-> NoFile]

Take(r) ==
    /\ at[r] = "idle"
    /\ \E j \in todo : todo' = todo \ {j} /\ job' = [job EXCEPT ![r] = j]
    /\ dir' = [dir EXCEPT ![r] = Wiped(r)]
    /\ verdict' = [verdict EXCEPT ![r] = NoCode]
    /\ status' = [status EXCEPT ![r] = NoCode]
    /\ failed' = [failed EXCEPT ![r] = FALSE]
    /\ Goto(r, "request")
    /\ UNCHANGED <<gating, look, staging, github, result>> /\ NoFault

-----------------------------------------------------------------------------
(* cv-infra verify                                                         *)

\* Admission, the PICT plan and the Docker client: the request is refused, or the
\* platform cannot judge it, or it is run.
Request(r) ==
    /\ at[r] = "request"
    /\ \/ Goto(r, "reject") /\ UNCHANGED cli
       \/ Exit(r, 3) /\ UNCHANGED <<gating, verdict>>
       \/ /\ gating' \in {[gating EXCEPT ![r] = g] : g \in BOOLEAN}
          /\ Goto(r, "cases")
          /\ UNCHANGED <<verdict, status>>
    /\ UNCHANGED <<todo, job, failed, look, dir, staging, github, result>> /\ NoFault

\* The cases run and are judged; an exception of a worker ends the process.
RunCases(r) ==
    /\ at[r] = "cases"
    /\ \/ Exit(r, 3) /\ UNCHANGED verdict
       \/ /\ \E code \in Codes(gating[r]) : verdict' = [verdict EXCEPT ![r] = code]
          /\ Goto(r, "report")
          /\ UNCHANGED status
    /\ UNCHANGED <<todo, job, gating, failed, look, dir, staging, github, result>> /\ NoFault

\* What a failed write leaves: main() turns every exception into status 3.  (Bug
\* variant: the verdict stands whether or not it could be written down.)
VerdictStands(r) == IF verdict[r] = NoCode THEN 2 ELSE verdict[r]
InfraStatus(r) == 3

\* write_text(): the whole file; or an exception, with the file there or not.
Write(r, f, code, step) ==
    LET file(c) == [by |-> job[r], code |-> c, gating |-> gating[r]]
    IN \/ /\ dir' = [dir EXCEPT ![r] = [@ EXCEPT ![f] = file(code)]]
          /\ Goto(r, step)
          /\ UNCHANGED status /\ NoFault
       \/ /\ Fault
          /\ \/ dir' = [dir EXCEPT ![r] = [@ EXCEPT ![f] = file(NoCode)]]
             \/ UNCHANGED dir
          /\ Exit(r, InfraStatus(r))

\* _write_run_dir(): report.json and the three payloads, in this order.
WriteRunDir(r) ==
    /\ \/ at[r] = "report" /\ Write(r, "report", verdict[r], "check")
       \/ at[r] = "check" /\ Write(r, "check", verdict[r], "sticky")
       \/ at[r] = "sticky" /\ Write(r, "sticky", verdict[r], "summary")
       \/ at[r] = "summary" /\ Write(r, "summary", verdict[r], "empty_gate")
    /\ UNCHANGED <<todo, job, gating, verdict, failed, look, staging, github, result>>

\* _write_errors(), and the end with status 2.
Refuse(r) ==
    LET file(c) == [by |-> job[r], code |-> c, gating |-> FALSE]
    IN \/ /\ dir' = [dir EXCEPT ![r] = [@ EXCEPT !["errors"] = file(2)]]
          /\ Exit(r, 2)
          /\ NoFault
       \/ /\ Fault
          /\ \/ dir' = [dir EXCEPT ![r] = [@ EXCEPT !["errors"] = file(NoCode)]]
             \/ UNCHANGED dir
          /\ Exit(r, InfraStatus(r))

\* A refused request; or, after the run, a gate that asserts nothing.
Reject(r) ==
    /\ at[r] = "reject" \/ (at[r] = "empty_gate" /\ verdict[r] = 2)
    /\ Refuse(r)
    /\ UNCHANGED <<todo, job, gating, verdict, failed, look, staging, github, result>>

Return(r) ==
    /\ at[r] = "empty_gate" /\ verdict[r] # 2
    /\ Exit(r, verdict[r])
    /\ UNCHANGED <<todo, job, gating, verdict, failed, look, dir, staging, github, result>>
    /\ NoFault

\* The job is cancelled, or its step dies before it has written its outputs.
Kill(r) ==
    /\ at[r] \in CLISteps
    /\ Fault
    /\ failed' = [failed EXCEPT ![r] = TRUE]
    /\ Goto(r, "reflect")
    /\ UNCHANGED <<todo, job, cli, look, dir, staging, github, result>>

\* The process dies between two writes: killed, or by an exception main() makes 3 of.
\* (3 stands for every status the job does not know, all alike to it.)
Die(r) ==
    /\ at[r] \in CLISteps
    /\ Fault
    /\ Exit(r, 3)
    /\ UNCHANGED <<todo, job, gating, verdict, failed, look, dir, staging, github, result>>

CLI(r) ==
    \/ Request(r) \/ RunCases(r) \/ WriteRunDir(r) \/ Reject(r) \/ Return(r)
    \/ Kill(r) \/ Die(r)

-----------------------------------------------------------------------------
(* The steps that publish.  All run whatever failed before them.           *)

HaveReport(r) == Exists(dir[r]["report"])
Fails(r) == failed' = [failed EXCEPT ![r] = TRUE]
Succeeds == UNCHANGED failed

StepSummary(r) ==
    /\ at[r] = "step_summary"
    /\ IF HaveReport(r) /\ ~Exists(dir[r]["summary"]) THEN Fails(r) ELSE Succeeds
    /\ Goto(r, "annotate")
    /\ UNCHANGED <<todo, job, cli, look, dir, staging, github, result>> /\ NoFault

Annotate(r) ==
    /\ at[r] = "annotate"
    /\ annotated' =
         IF status[r] = 2 /\ Exists(dir[r]["errors"])
         THEN [annotated EXCEPT ![job[r]] = dir[r]["errors"]] ELSE annotated
    /\ Goto(r, IF HaveReport(r) THEN "publish_check" ELSE "reflect")
    /\ UNCHANGED <<todo, job, cli, failed, look, dir, staging, checkOf, uploaded, comments,
                   result>>
    /\ NoFault

\* checks.create() of the parsed payload.
PublishCheck(r) ==
    LET check == dir[r]["check"]
    IN /\ at[r] = "publish_check"
       /\ \/ /\ Whole(check)
             /\ checkOf' = [checkOf EXCEPT ![job[r]] = check]
             /\ Goto(r, "list")
             /\ Succeeds /\ NoFault
          \/ /\ IF Whole(check) THEN Fault ELSE NoFault
             /\ Goto(r, "stage")
             /\ Fails(r) /\ UNCHANGED checkOf
       /\ UNCHANGED <<todo, job, cli, look, dir, staging, annotated, uploaded, comments, result>>

\* startsWith(), of the first line of the body in hand.  (Bug variant: any comment that
\* looks like one of these.)
LooksLike(c, n) == c.begins > 0
StartsWith(c, n) == c.begins >= n

\* listComments() answers with one page: the oldest comments.
Listed(n) == {i \in DOMAIN comments :
                i <= PageSize /\ ~Blank(comments[i]) /\ StartsWith(comments[i], n)}

\* The first line of a sticky comment is the marker; of a file cut short it is any part of
\* it, and matches whatever begins with that.
FirstLines(body) == IF Whole(body) THEN {MarkerLength} ELSE 0 .. MarkerLength

ListComments(r) ==
    /\ at[r] = "list"
    /\ \/ /\ Exists(dir[r]["sticky"])
          /\ \E n \in FirstLines(dir[r]["sticky"]) :
               /\ marker' = [marker EXCEPT ![r] = n]
               /\ \/ Listed(n) = {} /\ found' = [found EXCEPT ![r] = 0]
                  \/ \E i \in Listed(n) : /\ \A k \in Listed(n) : i <= k
                                         /\ found' = [found EXCEPT ![r] = i]
          /\ Goto(r, "comment")
          /\ Succeeds /\ NoFault
       \/ /\ IF Exists(dir[r]["sticky"]) THEN Fault ELSE NoFault
          /\ Goto(r, "stage")
          /\ Fails(r) /\ UNCHANGED look
    /\ UNCHANGED <<todo, job, cli, dir, staging, github, result>>

\* updateComment() of the one found, whoever has changed it since, else createComment(); a
\* body cut short may be refused.
Comment(r) ==
    LET body == dir[r]["sticky"]
        post == [text |-> body, begins |-> marker[r]]
    IN /\ at[r] = "comment"
       /\ \/ /\ comments' = IF found[r] = 0 THEN Append(comments, post)
                            ELSE [comments EXCEPT ![found[r]] = post]
             /\ Succeeds /\ NoFault
          \/ /\ IF Whole(body) THEN Fault ELSE NoFault
             /\ Fails(r) /\ UNCHANGED comments
       /\ marker' = [marker EXCEPT ![r] = 0] /\ found' = [found EXCEPT ![r] = 0]
       /\ Goto(r, "stage")
       /\ UNCHANGED <<todo, job, cli, dir, staging, checkOf, annotated, uploaded, result>>

\* stage_artifacts(): the staging directory is emptied, then the report copied.
Stage(r) ==
    /\ at[r] = "stage"
    /\ \/ /\ staging' = [staging EXCEPT ![r] = dir[r]["report"]]
          /\ Succeeds /\ NoFault
       \/ /\ Fault
          /\ staging' \in {staging, [staging EXCEPT ![r] = NoFile]}
          /\ Fails(r)
    /\ Goto(r, "upload")
    /\ UNCHANGED <<todo, job, cli, look, dir, github, result>>

Upload(r) ==
    /\ at[r] = "upload"
    /\ \/ /\ uploaded' = [uploaded EXCEPT ![job[r]] = staging[r]]
          /\ Succeeds /\ NoFault
       \/ Fault /\ Fails(r) /\ UNCHANGED uploaded
    /\ Goto(r, "reflect")
    /\ UNCHANGED <<todo, job, cli, look, dir, staging, checkOf, annotated, comments, result>>

\* exit <code> (an empty code exits 0); a job with a failed step has failed.  (Bug
\* variant: the exit status alone decides.)
StatusOnly(r) == IF status[r] \in {NoCode, 0} THEN "success" ELSE "failure"
ResultOf(r) == IF failed[r] THEN "failure" ELSE StatusOnly(r)

Reflect(r) ==
    /\ at[r] = "reflect"
    /\ result' = [result EXCEPT ![job[r]] = ResultOf(r)]
    /\ job' = [job EXCEPT ![r] = NoJob]
    /\ Goto(r, "idle")
    /\ UNCHANGED <<todo, cli, failed, look, dir, staging, github>> /\ NoFault

Publish(r) ==
    \/ StepSummary(r) \/ Annotate(r) \/ PublishCheck(r) \/ ListComments(r) \/ Comment(r)
    \/ Stage(r) \/ Upload(r) \/ Reflect(r)

\* Somebody else comments on the pull request, maybe like a sticky comment.
Others ==
    /\ Len(SelectSeq(comments, LAMBDA c : ~Exists(c.text))) < MaxOthers
    /\ \E n \in 0 .. MarkerLength :
         comments' = Append(comments, [text |-> NoFile, begins |-> n])
    /\ UNCHANGED <<todo, job, at, cli, failed, look, dir, staging, checkOf, annotated, uploaded,
                   result, faults>>

Done ==
    /\ todo = {} /\ \A r \in Runners : at[r] = "idle"
    /\ UNCHANGED vars

Next == (\E r \in Runners : Take(r) \/ CLI(r) \/ Publish(r)) \/ Others \/ Done

Spec == Init /\ [][Next]_vars

-----------------------------------------------------------------------------
(* Properties                                                              *)

\* Every status, report and payload is one the tables of exit_codes.py know, and every
\* file, comment and result is whose it can be.
TypeOK ==
    /\ todo \subseteq Jobs
    /\ job \in [Runners -> Jobs \cup {NoJob}]
    /\ at \in [Runners -> {"idle"} \cup CLISteps \cup JobSteps]
    /\ \A r \in Runners : at[r] # "idle" => job[r] \in Jobs
    /\ gating \in [Runners -> BOOLEAN]
    /\ verdict \in [Runners -> {NoCode, 0, 1, 2, 3}]
    /\ status \in [Runners -> {NoCode, 0, 1, 2, 3}]
    /\ failed \in [Runners -> BOOLEAN]
    /\ marker \in [Runners -> 0 .. MarkerLength]
    /\ found \in [Runners -> Nat]
    /\ dir \in [Runners -> [Files -> Content \cup {NoFile}]]
    /\ staging \in [Runners -> Content \cup {NoFile}]
    /\ checkOf \in [Jobs -> Content \cup {NoFile}]
    /\ annotated \in [Jobs -> Content \cup {NoFile}]
    /\ uploaded \in [Jobs -> Content \cup {NoFile}]
    /\ result \in [Jobs -> {"none", "success", "failure"}]
    /\ comments \in Seq(Posts)
    /\ faults \in 0 .. MaxFaults

\* What a job says about itself is its own work: on a runner whose disk outlives the
\* jobs, no Check Run and no annotation repeats an earlier job's file.
OwnEvidence ==
    \A j \in Jobs :
        /\ checkOf[j].by \in {j, NoJob}
        /\ annotated[j].by \in {j, NoJob}

Own(r, f, code) == dir[r][f].by = job[r] /\ dir[r][f].code = code

\* An exit status 0, 1 or 2 is backed by what the run directory holds, whole and of this
\* run: for 0 and 1 the report and its three payloads, all with that code; for 2 the
\* error, and no report with another code.  Only 3 may leave less behind.
StatusIsBacked ==
    \A r \in Runners : at[r] \in JobSteps =>
        /\ status[r] \in {0, 1} =>
             \A f \in {"report"} \cup Payloads : Own(r, f, status[r])
        /\ status[r] = 2 =>
             /\ Own(r, "errors", 2)
             /\ \A f \in {"report"} \cup Payloads : dir[r][f] = NoFile \/ Own(r, f, 2)

\* A green job has shown what it is green for: the report in its artifact is its own and
\* says 0, and its Check Run is of that report and does not fail.  This holds whichever
\* steps failed, and although a failed staging may leave an earlier job's artifact.
GreenMeansPassed ==
    \A j \in Jobs : result[j] = "success" =>
        /\ uploaded[j].by = j /\ uploaded[j].code = 0
        /\ checkOf[j] = uploaded[j]
        /\ Conclusion(checkOf[j]) # "failure"

\* Every sticky comment repeats a report whose Check Run is published, and agrees with it.
CommentHasItsCheck ==
    \A i \in DOMAIN comments :
        LET text == comments[i].text IN Whole(text) => text = checkOf[text.by]

\* What the pull request shows is a publication (Publication.tla): no earlier job's files on
\* the runner's disk, no step that failed or was killed, and no other runner makes a job
\* say what is not its own, contradict itself, change what it has said, or write over a
\* comment of others that does not begin as its own does.
PublicationOf == INSTANCE Publication WITH
    waiting <- todo, check <- checkOf, refusal <- annotated, artifact <- uploaded

ImplementsPublication == PublicationOf!Spec
=============================================================================
