---------------------------- MODULE Publication ----------------------------
(***************************************************************************)
(* What the readers of a pull request are promised of the jobs of          *)
(* .github/workflows/verify.yml, whichever of their steps fail, and        *)
(* whatever an earlier job has left on the disk of the runner: a job       *)
(* speaks for itself alone, only while it runs, and never contradicts      *)
(* itself; what it has said once it leaves alone.  It writes over comments *)
(* of jobs, and over those of others that begin with the first line of its *)
(* own: a hidden marker, which one cut short has lost (github.py:32).      *)
(* What is not promised is that the artifact is the job's own, nor that a  *)
(* comment is whole.                                                       *)
(* VerifyJob.tla is shown to implement it.                                 *)
(***************************************************************************)
EXTENDS Integers, Sequences

CONSTANTS
    Jobs,
    NoJob,      \* who wrote the comments of others
    MarkerLength    \* characters of the marker

VARIABLES
    waiting,    \* the jobs that have not begun
    check,      \* per job: the report its Check Run is of
    refusal,    \* per job: the refusal annotated on the diff
    artifact,   \* per job: the report in its artifact
    comments,   \* the comments, in order: a paper each, and how much of the marker it has
    result      \* per job: "none", "success" or "failure"

vars == <<waiting, check, refusal, artifact, comments, result>>

\* A paper of a job; cut short, it has the code -1.
Paper(j, code, gating) == [by |-> j, code |-> code, gating |-> gating]
Nothing == Paper(NoJob, -1, FALSE)
Reports(j) == {Paper(j, code, gating) : code \in 0 .. 3, gating \in BOOLEAN}
CutShort(j) == {Paper(j, -1, gating) : gating \in BOOLEAN}

\* A comment with the report whole begins with the whole marker.
Bodies(j) ==
    {[text |-> check[j], begins |-> MarkerLength]}
      \cup {[text |-> p, begins |-> n] : p \in CutShort(j), n \in 0 .. MarkerLength}

Running(j) == j \notin waiting /\ result[j] = "none"

Init ==
    /\ waiting = Jobs
    /\ check = [j \in Jobs |-> Nothing]
    /\ refusal = [j \in Jobs |-> Nothing]
    /\ artifact = [j \in Jobs |-> Nothing]
    /\ comments = <<>>
    /\ result = [j \in Jobs |-> "none"]

Start(j) ==
    /\ j \in waiting /\ waiting' = waiting \ {j}
    /\ UNCHANGED <<check, refusal, artifact, comments, result>>

\* Once, and before anything else is said.
Annotate(j) ==
    /\ Running(j) /\ check[j] = Nothing /\ refusal[j] = Nothing
    /\ \E p \in Reports(j) : p.code = 2 /\ refusal' = [refusal EXCEPT ![j] = p]
    /\ UNCHANGED <<waiting, check, artifact, comments, result>>

\* Once, and of a refusal if one was annotated.
PublishCheck(j) ==
    /\ Running(j) /\ check[j] = Nothing
    /\ \E p \in Reports(j) :
         /\ refusal[j] = Nothing \/ p.code = 2
         /\ check' = [check EXCEPT ![j] = p]
    /\ UNCHANGED <<waiting, refusal, artifact, comments, result>>

\* The report of the Check Run once more, in a comment of its own, or in place of one of a
\* job or of one that begins as it does: with a report whole, never over somebody else's
\* that does not begin with the whole marker.
Comment(j) ==
    /\ Running(j) /\ check[j] # Nothing
    /\ \E body \in Bodies(j) :
         \/ comments' = Append(comments, body)
         \/ \E i \in DOMAIN comments :
              /\ comments[i].text.by # NoJob \/ comments[i].begins >= body.begins
              /\ comments' = [comments EXCEPT ![i] = body]
    /\ UNCHANGED <<waiting, check, refusal, artifact, result>>

\* What is uploaded may be an earlier job's, or nothing.
Upload(j) ==
    /\ Running(j)
    /\ \/ artifact' = [artifact EXCEPT ![j] = Nothing]
       \/ \E k \in Jobs \ waiting : \E p \in Reports(k) \cup CutShort(k) :
            artifact' = [artifact EXCEPT ![j] = p]
    /\ UNCHANGED <<waiting, check, refusal, comments, result>>

\* The last word: green only with a Check Run and an artifact of its own that say 0.
Judge(j) ==
    /\ Running(j)
    /\ \/ result' = [result EXCEPT ![j] = "failure"]
       \/ /\ artifact[j] \in Reports(j) /\ artifact[j].code = 0
          /\ check[j] = artifact[j] /\ refusal[j] = Nothing
          /\ result' = [result EXCEPT ![j] = "success"]
    /\ UNCHANGED <<waiting, check, refusal, artifact, comments>>

Others ==
    /\ \E n \in 0 .. MarkerLength :
         comments' = Append(comments, [text |-> Nothing, begins |-> n])
    /\ UNCHANGED <<waiting, check, refusal, artifact, result>>

Next ==
    \/ \E j \in Jobs : \/ Start(j) \/ Annotate(j) \/ PublishCheck(j) \/ Comment(j)
                       \/ Upload(j) \/ Judge(j)
    \/ Others

Spec == Init /\ [][Next]_vars
=============================================================================
