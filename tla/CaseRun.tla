------------------------------ MODULE CaseRun ------------------------------
(***************************************************************************)
(* One case run: cli/main.py _run_once with the run_sim_case() and         *)
(* run_oracle() of execution.py it calls.  Two CLI processes of one host   *)
(* may run the SAME case: its slug is deterministic, so they use the same  *)
(* container and network names and the same scratch directory, each with a *)
(* run directory of its own.  The Docker daemon is the environment: it     *)
(* refuses a name it already holds, and keeps what nobody removes.         *)
(* The leased cache slots are CacheSlots.tla's; here a run either seeds a  *)
(* scratch copy of its own or mounts no per-case cache.                    *)
(***************************************************************************)
EXTENDS Integers, FiniteSets

CONSTANTS
    Procs,      \* the CLI processes
    Nobody,     \* owner of what does not exist
    MaxFaults   \* bound: crashes and failing Docker or file operations

ASSUME CaseRunAssumption == Nobody \notin Procs /\ MaxFaults \in Nat

Kinds == {"sim", "oracle"}      \* containers <slug>-sim and <slug>-oracle
Attempts == 1 .. 2              \* a lost GPU is retried once

VARIABLES
    gate,       \* an oracle script was given
    seeded,     \* a scratch root was given
    run,        \* per process: its case run, see Runs
    out,        \* per process: the attempts with files in its output directory
    evidence,   \* per process: the attempts with files in its zip
    box,        \* the daemon: the container of each kind, see Boxes
    net,        \* the daemon: whose network <slug>-net is
    image,      \* the daemon: the sim image, which is the oracle's too, "local" or "missing"
    scratch,    \* <scratch_root>/<slug> exists
    faults,     \* how many faults have happened
    undiscarded \* history: the processes whose output directory outlived a discard

config == <<gate, seeded>>
files == <<out, evidence, undiscarded>>
daemon == <<box, net, image>>
vars == <<config, run, files, daemon, scratch, faults>>

PCs == {"prepare", "network", "run", "pull", "supervise", "cleanup", "unnet", "unscratch",
        "zip", "decide", "finish", "ok", "error", "raised", "dead"}
Final == {"ok", "error", "raised", "dead"}

\* pc, the container it is about, the attempt, rc and error of that container's run,
\* and which of its finally's handles are not None.
Runs == [pc : PCs, stage : Kinds, attempt : Attempts,
         rc : {"none", "zero", "nonzero"}, err : {"none", "timeout", "gpu_lost", "infra"},
         container : BOOLEAN, network : BOOLEAN, scratch : BOOLEAN]

\* A container: whose, of which attempt, and if its output directory is still the one
\* at that path.  "hung": Kit after it lost the GPU.
Boxes == [owner : Procs \cup {Nobody}, attempt : Attempts, bound : BOOLEAN,
          state : {"absent", "created", "running", "hung", "ok", "failed"}]

Absent == [owner |-> Nobody, attempt |-> 1, bound |-> FALSE, state |-> "absent"]

Fresh(attempt) ==
    [pc |-> "prepare", stage |-> "sim", attempt |-> attempt, rc |-> "none", err |-> "none",
     container |-> FALSE, network |-> FALSE, scratch |-> FALSE]

Init ==
    /\ gate \in BOOLEAN
    /\ seeded \in BOOLEAN
    /\ run = [p \in Procs |-> Fresh(1)]
    /\ out = [p \in Procs |-> {}]
    /\ evidence = [p \in Procs |-> {}]
    /\ box = [k \in Kinds |-> Absent]
    /\ net = Nobody
    /\ image \in {"local", "missing"}
    /\ scratch = FALSE
    /\ faults = 0
    /\ undiscarded = {}

Goto(p, label) == run' = [run EXCEPT ![p].pc = label]

\* An exception inside the try: the error is set, the finally runs.
Fail(p) == run' = [run EXCEPT ![p] = [@ EXCEPT !.pc = "cleanup", !.err = "infra"]]

\* A fault of the environment, while the bound allows one.
Fault == faults < MaxFaults /\ faults' = faults + 1
NoFault == UNCHANGED faults

Alive(k) == box[k].state \in {"running", "hung"}

-----------------------------------------------------------------------------
(* run_sim_case: the try                                                   *)

\* The image gate returns with the image in the store - but for an error of the registry
\* the pull reads as progress (ImagePull.tla).
ImageEnsured ==
    \/ image' = "local" /\ NoFault
    \/ image = "missing" /\ Fault /\ UNCHANGED image

\* The output directory, the image gate, and _seeded_cache_volumes: a failed cp discards
\* the tree, a failed mkdir after it does not; either way the finally has no scratch.
Prepare(p) ==
    /\ run[p].pc = "prepare"
    /\ \/ ~seeded /\ Goto(p, "network") /\ ImageEnsured /\ UNCHANGED scratch
       \/ /\ seeded
          /\ run' = [run EXCEPT ![p] = [@ EXCEPT !.pc = "network", !.scratch = TRUE]]
          /\ ImageEnsured
          /\ scratch' = TRUE
       \/ Fault /\ Fail(p) /\ image' \in {image, "local"} /\ UNCHANGED scratch
       \/ seeded /\ Fault /\ Fail(p) /\ image' \in {image, "local"} /\ scratch' \in BOOLEAN
    /\ UNCHANGED <<config, files, box, net>>

\* The daemon refuses a second network of the same name.
CreateNetwork(p) ==
    /\ run[p].pc = "network"
    /\ \/ /\ net = Nobody
          /\ net' = p
          /\ run' = [run EXCEPT ![p] = [@ EXCEPT !.pc = "run", !.network = TRUE]]
          /\ NoFault
       \/ net # Nobody /\ Fail(p) /\ UNCHANGED net /\ NoFault
       \/ Fault /\ Fail(p) /\ UNCHANGED net
    /\ UNCHANGED <<config, files, box, image, scratch>>

\* The daemon refuses a name in use.  (Bug variant: a leftover is replaced.)
NameReplaced(k) == TRUE
NameFree(k) == box[k].state = "absent"

Created(p, state) ==
    box' = [box EXCEPT ![run[p].stage] =
        [owner |-> p, attempt |-> run[p].attempt, bound |-> TRUE, state |-> state]]

\* With the image there: create by name, then start; the handle is only assigned by both.
\* A sim may write output from its start on.
Creates(p) ==
    \/ /\ NameFree(run[p].stage)
       /\ Created(p, "running")
       /\ run' = [run EXCEPT ![p] = [@ EXCEPT !.pc = "supervise", !.container = TRUE]]
       /\ IF run[p].stage = "sim"
          THEN out' = [out EXCEPT ![p] = @ \cup {run[p].attempt}]
          ELSE UNCHANGED out
       /\ NoFault
    \/ /\ NameFree(run[p].stage) /\ Fault
       /\ Created(p, "created")
       /\ Fail(p)
       /\ UNCHANGED out
    \/ ~NameFree(run[p].stage) /\ Fail(p) /\ UNCHANGED <<out, box>> /\ NoFault
    \/ Fault /\ Fail(p) /\ UNCHANGED <<out, box>>

\* containers.run, of the sim or of the oracle; an image that is missing it pulls itself.
RunContainer(p) ==
    /\ run[p].pc = "run"
    /\ \/ image = "local" /\ Creates(p)
       \/ image = "missing" /\ Goto(p, "pull") /\ UNCHANGED <<out, box>> /\ NoFault
    /\ UNCHANGED <<config, evidence, undiscarded, net, image, scratch>>

\* The pull inside containers.run ends, if it ever does: nothing watches it, and it has no
\* deadline ("the unbounded hang", execution.py:655).
ImplicitPull(p) ==
    /\ run[p].pc = "pull"
    /\ \/ image' = "local" /\ Creates(p)
       \/ Fault /\ Fail(p) /\ UNCHANGED <<out, box, image>>
    /\ UNCHANGED <<config, evidence, undiscarded, net, scratch>>

\* A container past its deadline is given up, hung or not.  (Bug variant: the deadline
\* only counts for a container that hangs.)
GivenUpIfHung(c) == c.state = "hung"
GivenUp(c) == c.state \in {"running", "hung"}

\* What supervision returns; then the logs are collected, still inside the try, where a
\* failure replaces the error and leaves the exit code.
Supervised(p, rc, err) ==
    \/ /\ run' = [run EXCEPT ![p] = [@ EXCEPT !.pc = "cleanup", !.rc = rc, !.err = err]]
       /\ NoFault
    \/ /\ Fault
       /\ run' = [run EXCEPT ![p] = [@ EXCEPT !.pc = "cleanup", !.rc = rc, !.err = "infra"]]

\* _supervise_until_exit: the exit code, the timeout, a lost GPU seen in the sim's log
\* (reading it is best effort), or a daemon that does not answer.
Supervise(p) ==
    LET c == box[run[p].stage]
    IN /\ run[p].pc = "supervise"
       /\ \/ c.state = "ok" /\ Supervised(p, "zero", "none")
          \/ c.state = "failed" /\ Supervised(p, "nonzero", "none")
          \/ GivenUp(c) /\ Supervised(p, "none", "timeout")
          \/ c.state = "hung" /\ run[p].stage = "sim" /\ Supervised(p, "none", "gpu_lost")
          \/ Fault /\ Fail(p)
       /\ UNCHANGED <<config, files, daemon, scratch>>

-----------------------------------------------------------------------------
(* The finally, best effort step by step, and the zip                      *)

\* The container after _teardown worked.  (Bug variant: stopped, never removed.)
StoppedOnly(k) == [box[k] EXCEPT !.state = "failed"]
Removed(k) == Absent

Cleanup(p) ==
    LET k == run[p].stage
    IN /\ run[p].pc = "cleanup"
       /\ run' = [run EXCEPT ![p] = [@ EXCEPT
                    !.pc = IF k = "sim" THEN "unnet" ELSE "finish", !.container = FALSE]]
       /\ \/ ~run[p].container /\ UNCHANGED box /\ NoFault
          \/ run[p].container /\ box' = [box EXCEPT ![k] = Removed(k)] /\ NoFault
          \/ run[p].container /\ Fault /\ UNCHANGED box
          \/ run[p].container /\ Fault /\ Alive(k)
             /\ box' = [box EXCEPT ![k].state = "failed"]
       /\ UNCHANGED <<config, files, net, image, scratch>>

\* A network with an endpoint refuses to be removed.
RemoveNetwork(p) ==
    /\ run[p].pc = "unnet"
    /\ run' = [run EXCEPT ![p] = [@ EXCEPT !.pc = "unscratch", !.network = FALSE]]
    /\ \/ ~run[p].network /\ UNCHANGED net /\ NoFault
       \/ run[p].network /\ box["sim"].owner = p /\ Alive("sim") /\ UNCHANGED net /\ NoFault
       \/ run[p].network /\ ~(box["sim"].owner = p /\ Alive("sim")) /\ net' = Nobody /\ NoFault
       \/ run[p].network /\ Fault /\ UNCHANGED net
    /\ UNCHANGED <<config, files, box, image, scratch>>

DiscardScratch(p) ==
    /\ run[p].pc = "unscratch"
    /\ run' = [run EXCEPT ![p] = [@ EXCEPT !.pc = "zip", !.scratch = FALSE]]
    /\ \/ ~run[p].scratch /\ UNCHANGED scratch /\ NoFault
       \/ run[p].scratch /\ scratch' = FALSE /\ NoFault
       \/ run[p].scratch /\ Fault /\ UNCHANGED scratch
    /\ UNCHANGED <<config, files, daemon>>

\* zip_output, outside the try: its exception is the platform's fault (exit 3).
Zip(p) ==
    /\ run[p].pc = "zip"
    /\ \/ evidence' = [evidence EXCEPT ![p] = out[p]] /\ Goto(p, "decide") /\ NoFault
       \/ Fault /\ Goto(p, "raised") /\ UNCHANGED evidence
    /\ UNCHANGED <<config, out, undiscarded, daemon, scratch>>

-----------------------------------------------------------------------------
(* _run_once: the retry, the oracle and the verdict                        *)

\* A run is repeated once, for a lost GPU.  (Bug variant: as often as it is lost.)
MayAlwaysRetry(p) == run[p].err = "gpu_lost"
MayRetry(p) == run[p].err = "gpu_lost" /\ run[p].attempt = 1

\* _discard_case_dir(ignore_errors): what is not removed stays without a word.  A
\* container nobody could remove keeps the directory it was started with.
Discard(p) ==
    \/ /\ out' = [out EXCEPT ![p] = {}]
       /\ box' = [k \in Kinds |->
            IF box[k].owner = p THEN [box[k] EXCEPT !.bound = FALSE] ELSE box[k]]
       /\ UNCHANGED undiscarded
       /\ NoFault
    \/ /\ Fault
       /\ undiscarded' = undiscarded \cup {p}
       /\ UNCHANGED <<out, box>>

\* What precedes the retry.  (Bug variant: nothing.)
KeepForRetry(p) == UNCHANGED <<out, box, undiscarded>> /\ NoFault
ClearForRetry(p) == Discard(p)

Retry(p) ==
    /\ run[p].pc = "decide" /\ MayRetry(p)
    /\ run' = [run EXCEPT ![p] = Fresh(run[p].attempt + 1)]
    /\ ClearForRetry(p)
    /\ UNCHANGED <<config, evidence, net, image, scratch>>

\* The oracle only sees a sim that ran to completion.  (Bug variant: or that timed out.)
UnlessItFailed(p) == run[p].rc # "nonzero"
RanToCompletion(p) == run[p].err = "none" /\ run[p].rc = "zero"

Decide(p) ==
    /\ run[p].pc = "decide" /\ ~MayRetry(p)
    /\ IF gate /\ RanToCompletion(p)
       THEN run' = [run EXCEPT ![p] = [@ EXCEPT
                    !.pc = "run", !.stage = "oracle", !.rc = "none", !.err = "none"]]
       ELSE Goto(p, "finish")
    /\ UNCHANGED <<config, files, daemon, scratch, faults>>

\* The last discard and _judge: an oracle may still have printed no verdict.
Finish(p) ==
    /\ run[p].pc = "finish"
    /\ Discard(p)
    /\ \/ /\ run[p].err = "none" /\ run[p].rc = "zero"
          /\ Goto(p, "ok")
       \/ /\ run[p].err # "none" \/ run[p].rc # "zero" \/ run[p].stage = "oracle"
          /\ Goto(p, "error")
    /\ UNCHANGED <<config, evidence, net, image, scratch>>

-----------------------------------------------------------------------------
(* The environment                                                         *)

\* The process is killed; the daemon and the disk keep everything.
Crash(p) ==
    /\ run[p].pc \notin Final
    /\ Fault
    /\ run' = [run EXCEPT ![p].pc = "dead"]
    /\ UNCHANGED <<config, files, daemon, scratch>>

\* A container exits, in either way; a sim that loses its GPU hangs.
Exits(k) ==
    /\ box[k].state = "running"
    /\ \/ \E s \in {"ok", "failed"} : box' = [box EXCEPT ![k].state = s]
       \/ k = "sim" /\ box' = [box EXCEPT ![k].state = "hung"]
    /\ UNCHANGED <<config, run, files, net, image, scratch, faults>>

\* The operator prunes the image; the daemon keeps one a container is of.
ImageRemoved ==
    /\ \A k \in Kinds : box[k].state = "absent"
    /\ image = "local" /\ Fault /\ image' = "missing"
    /\ UNCHANGED <<config, run, files, box, net, scratch>>

CaseStep(p) ==
    \/ Prepare(p) \/ CreateNetwork(p) \/ RunContainer(p) \/ Supervise(p)
    \/ Cleanup(p) \/ RemoveNetwork(p) \/ DiscardScratch(p) \/ Zip(p)
    \/ Retry(p) \/ Decide(p) \/ Finish(p)

\* Every process has come to its end: nothing but the containers may go on.
Terminated == (\A p \in Procs : run[p].pc \in Final) /\ UNCHANGED vars

Next ==
    \/ \E p \in Procs : CaseStep(p) \/ ImplicitPull(p) \/ Crash(p)
    \/ \E k \in Kinds : Exits(k)
    \/ ImageRemoved
    \/ Terminated

\* A case run goes on: its waits for Docker are bounded by a timeout each, and a local copy
\* ends.  ImplicitPull is no part of it: that wait is not bounded.  Nothing is asked of the
\* containers.
Fairness == \A p \in Procs : WF_vars(CaseStep(p))

Spec == Init /\ [][Next]_vars /\ Fairness

-----------------------------------------------------------------------------
(* Properties                                                              *)

\* The types of the variables.
TypeOK ==
    /\ gate \in BOOLEAN
    /\ seeded \in BOOLEAN
    /\ run \in [Procs -> Runs]
    /\ out \in [Procs -> SUBSET Attempts]
    /\ evidence \in [Procs -> SUBSET Attempts]
    /\ box \in [Kinds -> Boxes]
    /\ net \in Procs \cup {Nobody}
    /\ image \in {"local", "missing"}
    /\ scratch \in BOOLEAN
    /\ faults \in 0 .. MaxFaults
    /\ undiscarded \in SUBSET Procs

\* What a case run supervises and will remove is what it started itself in this
\* attempt, whoever runs the same case and whatever an earlier attempt left behind.
HandlesAreMine ==
    \A p \in Procs :
        /\ run[p].container =>
            /\ box[run[p].stage].owner = p
            /\ box[run[p].stage].attempt = run[p].attempt
        /\ run[p].network => net = p

\* No oracle judges a directory a sim is still writing to, be it one that timed out
\* and could not be removed.
EvidenceIsStill ==
    \A p \in Procs :
        run[p].stage = "oracle" /\ run[p].container =>
            ~(box["sim"].owner = p /\ Alive("sim") /\ box["sim"].bound)

\* A run that succeeded after a retry shows the retry's output and not what the lost
\* attempt had written, unless the lost attempt's directory could not be removed.
EvidenceOfTheLastAttempt ==
    \A p \in Procs :
        run[p].pc = "ok" /\ p \notin undiscarded => evidence[p] \subseteq {run[p].attempt}

\* With no fault of the environment - timeouts, lost GPUs, retries and a second
\* process at the same case are none - everything is gone when the runs have ended.
NothingLeftBehind ==
    faults = 0 /\ (\A p \in Procs : run[p].pc \in Final) =>
        (\A k \in Kinds : box[k] = Absent) /\ net = Nobody /\ ~scratch

\* Every case run ends, with a result, a platform fault or its process, unless it waits for
\* ever for the one thing without a deadline: the pull of a missing image by containers.run.
EveryRunIsJudged ==
    \A p \in Procs : <>(run[p].pc \in Final) \/ <>[](run[p].pc = "pull")

\* main.py:384, _discard_case_dir: a directory that cannot be removed "is a disk-space
\* problem for the operator" - and no more than that: the evidence is still right.
LeftoverIsOnlyDiskSpace ==
    \A p \in Procs : run[p].pc = "ok" => evidence[p] \subseteq {run[p].attempt}
=============================================================================
