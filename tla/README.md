# A verification of cv-infra in TLA+

cv-infra runs one Isaac Sim script on a GPU workstation for every case of an input
space, lets an oracle judge each run, folds the judgements into a report and an exit
code, and publishes them to a pull request. This directory models the parts of it in
which order, concurrency or failure decide what comes out: the modules are translated
from the code under `src/`, TLC checks them on small instances, and TLAPS proves the
safety properties for every value of the constants.

1. [The system](#1-the-system)
2. [The modules](#2-the-modules)
3. [The runs](#3-the-runs)
4. [The proofs](#4-the-proofs)
5. [What the runs found](#5-what-the-runs-found)
6. [Not modelled](#6-not-modelled)
7. [Plan](#7-plan)
8. [Running it](#8-running-it)

## 1. The system

`cv-infra verify` is one process, started by one step of a GitHub Actions job
(`.github/workflows/verify.yml`) on a self-hosted runner. Several processes may run on
one host: several runners, or a person at the workstation. They share the Docker
daemon, the cache trees under the home directory, the baseline store and the history,
and nothing tells them of each other but an flock, a container name or a row.

```
 verify.yml (job)                       GitHub: checks, comments, artifacts
   |  cv-infra verify                                  ^
   v                                                   | run directory, staging
 cli/main.py run_verify --------------------------- publish steps
   |  contract/  inputs -> PICT plan -> cases
   |  scheduler.py  dispatch(governor) ---- worker threads
   |                      ^ back_off()          |  _run_once
   |                      +---------------------+  execution.py run_sim_case, run_oracle
   |                                            |    cache slots (flock), scratch trees
   |                                            v    Docker daemon: containers, networks
   |  contract/verdict.py  report/aggregate.py
   |  baselines.py (SQLite, shared by the host)      history.py (SQLite) <- dashboard
   v
 report.json, three payloads, exit status
```

| Part | State it keeps | Operations | Meets | What makes it correct |
|---|---|---|---|---|
| Scheduler and governors (`scheduler.py`) | items started, futures not done, peak; level, ceiling, probes, footprints | `dispatch`, `observe`, `admit`, `back_off` | the CLI (caller); the workers, which call `back_off` from their threads | bounded concurrency, no growth without evidence, a lost GPU costs a level, `dispatch` comes back with all it started |
| Cache slots (`execution.py` 98-390) | locks, ready markers, trees, copy containers | lease, provision, copy, mark, release | other threads and processes over the file system and the daemon | one Isaac per tree, only warm trees are run on, no slot leaks |
| Case run (`execution.py`, `_run_once` of `cli/main.py`) | containers and networks by name, scratch tree, output directory, zip | prepare, network, run, supervise, clean up, zip, retry, oracle | the daemon; another process at the same case | it removes only its own, evidence is of the judged attempt, it ends |
| Verdict and report (`contract/verdict.py`, `report/aggregate.py`) | none | `classify`, fold of the repeats, `exit_code_of` | pipeline | the exit code is what the runs deserve |
| Baseline store (`baselines.py`) | a row per case and key | compare, upsert | other processes over one SQLite file | references move by judgement only; what lowers one is reported |
| Pipeline and job (`cli/main.py`, `verify.yml`, `cli/publish_glue.py`) | run directory, staging directory, exit status; Check Runs, comments, artifacts | admission, cases, report, payloads, status; annotate, publish, comment, stage, upload, reflect | GitHub; other jobs of the pull request | a job publishes its own results, they agree, and green means a published pass |
| Run history (`history.py`) | a row per run, case run and sample | begin, case run, sample, finish | sampler thread, workers, dashboard | a run that ended is recorded as ended; a live one is not called dead |
| Input contract and plan (`contract/`) | the model's text, the axes declared so far, the array | admit, validate, generate, expand, cover, fit a budget | the `pict` binary, the checkout | whoever is at fault gets the exit code, the coverage reported is of what ran, a plan gives up only what does not fit |
| Image pull (`execution.py` 584-660) | progress seen, the thread's error | look, pull in a thread, watch it | the daemon, the registry | a pull that progresses is not given up, a silent one is, no error is lost |
| Dashboard, rendering, scripts, example, tests | see section 6 | | | |

The behaviour that is hard: worker threads that change the governor's level between
another thread's read and its store; best-effort clean-up, each step of which may
fail while the next still runs; a daemon that outlives the process; names derived
from the case alone; a runner's disk that outlives the job; publishing steps that run
whatever failed before them; and stores shared by processes that do not know of each
other. `PROJECT.json` lists every such place with its line under `hazards`, with the
properties that watch it.

## 2. The modules

| Module | Of | |
|---|---|---|
| `Dispatch` | what `scheduler.py` promises its caller | abstract specification |
| `Scheduler` | `scheduler.py`, and the worker's side of it in `cli/main.py` | implements `Dispatch` |
| `TreeLease` | what the cache slots promise a case run | abstract specification |
| `CacheSlots` | the leased cache slots: holders, disk and daemon | implements `TreeLease` |
| `CaseRun` | one case from `prepare` to its verdict, by several processes | with the daemon |
| `Verdicts` | verdict, fold, rows, comparison, exit code | operators only |
| `Baselines` | compare, upsert and the report, by several processes | uses `Verdicts` |
| `Publication` | what the jobs promise the readers of a pull request | abstract specification |
| `VerifyJob` | `run_verify` inside the job of `verify.yml`, on several runners | exit codes as `Baselines` ends with; implements `Publication` |
| `Journal` | what the history promises its reader | abstract specification |
| `RunLog` | `history.py`: the recorder of a verification, and a dashboard's reading of it | threads, one database; implements `Journal` |
| `ImagePull` | the image gate of `execution.py`, called by several cases at once | two threads per call, and the daemon |
| `CasePlan` | `contract/inputs.py`, `pict.py` and `cases.py`, and the case loop that uses them | a request from admission to coverage |
| `*Proofs` | the theorems | one module per component |
| `MC*` | values of the constants | one module per component |

How they fit: `Scheduler` runs items without looking into them, and an item is what
`CaseRun` describes; `CaseRun` mounts a cache whose lease is `CacheSlots`. The results
of the case runs are the raw runs of `Baselines`, whose exit code is the verdict that
`VerifyJob` writes down and publishes. `RunLog` is the same process once more, as its
history sees it: phases of `run_verify`, workers that end case runs, a sampler beside them.
`CasePlan` is what comes before: the number of cases that `Scheduler` starts with is the
length of its array, and its exit codes 2 and 3 are the refusals of `VerifyJob`.
`ImagePull` is the gate in `Prepare` of `CaseRun`, whose failure is one of its faults.

### Scheduler

The dispatcher is a program counter over one turn of the loop in `dispatch`: `Poll`
(drop the done futures), `Observe` (the probe, which may fail), `AdmitFixed` or
`AdmitAuto` and `Grow` (the governor's answer), `Start` (the budget test and the
submit), `Wait`. A worker is `LoseGpu`, `BackOff`, `End`. A step ends where CPython
3.11 may switch threads: at a call or a loop's jump. `admit()` reads the level
and calls `sum` and `len` before it stores one, and `back_off()` calls `max` between
its read and its stores; those are the interleavings of the model. The two stores at the
end of `back_off()` have no call between them and are one step. Footprints and free
memory are small integers with the code's arithmetic: the largest footprint only grows,
a candidate is taken 5/4 as large, and the reserve stays free. `topLevel` and
`lossLevel` are history that no action reads.

### CacheSlots

A holder is one `run_sim_case` in flight, of whatever process: flocks of two opens
exclude each other within a process as between two. The action names follow the
code: `Begin`, `TryLock` (the scan for the lowest free slot), `Provision` (marker, or
copy container), `SuperviseCopy`, `TeardownCopy`, `Mark`, then `StartSim`,
`SuperviseSim`, `Teardown`, `Release`. A tree's content is empty, partial or warm.
Faults are a process that dies (the kernel drops its locks, the daemon keeps its
containers) and any Docker or file operation that fails; a start that fails leaves a
created container with its name taken. `orphans` counts sims nobody supervises.
`InContainersRun` names the two places where a holder is at a `containers.run`, of its sim
or of the copy into a new slot: an image that is not there is pulled inside that call, with no
deadline, so the call may never return and the slot is never given back (see Fairness).

`TreeLease` is the promise without locks, copies and markers: a tree is leased to one
holder, an Isaac is started only on a tree that is leased and ready, a ready tree stays
ready under everybody who is on it, and an Isaac that is given up may stay on as a
stray. The mapping reads the lease off the flock, and calls a slot ready when it is
marked, its tree is warm and nothing copies to it. So `Begin`, the failing leases, the
copy and the failing teardown are stutters, `Mark` makes a tree ready, and a crash gives
lease and Isaac back in one step.

### CaseRun

The processes are at the same case. Its slug, hence the names of its containers and
network and its scratch directory, is the same for all; each has its own run directory.
The run record holds exactly the locals that `run_sim_case`'s `finally` looks at: the
handles that are not None. Containers are of the daemon: who started one, for which
attempt, in which state, and whether the directory it has mounted is still the one at that
path (`bound`; a removed directory lives on under a container that nobody could stop).
`hung` is Kit after it has lost its GPU. `image` is the one image of a verification, of
the sim and of the oracle: `Prepare` has the gate that makes sure of it (`ImageEnsured`),
and what the gate may get wrong, an error of the registry read as progress, is one of the
faults; the operator may remove the image while no container is of it (`ImageRemoved`),
and the oracle has no gate of its own. A `containers.run` that finds the image missing
pulls it: the run is then at `"pull"` until `ImplicitPull`, which nothing bounds. `out`
and `evidence` are the attempts whose files are in the output directory and in the zip.

### Verdicts and Baselines

A raw run is what the execution seam reports; the operators of `Verdicts` are the
functions that turn it into a lane, checks, metrics, rows, a comparison and an exit
code. A ratio or a mean is the exact fraction that the float rounds. `Baselines` has
two actions per process, because the code opens the store twice: `Compare`, and
`UpsertAndReport`, with another process possibly in between; each access may fail and
the run goes on without it, as `compare_best_effort` and `upsert_best_effort` do. A
key that is a boolean in one repeat and a number in another is in the model, with the
row that survives. What a store may hold when a process starts is an input.

### VerifyJob

`Take` to `Reflect` is one job: a runner takes a job and wipes the run directory; the
CLI admits the request or refuses it, runs the cases, writes `report.json` and the
three payloads in their order, and refuses an empty gate after that; the steps that
publish run whatever came before them and go by which files are there. A file records
whose it is and what report it holds, so that a file of an earlier job, and one cut short
by a failed write, can be told apart. `Kill` is the job cancelled or the step dead before
it wrote its outputs; `Die` is the process dead, which leaves the step with some status.
Status 3 stands for every status that is not 0, 1 or 2, since the job treats all of those
alike. Comments are a sequence, of which the listing returns the first page.
A job finds the comment to write over as the script does, by its text: the marker is the
first line of the body in hand (`FirstLines`), and the first listed comment that starts with it
(`StartsWith`) is the one, whoever wrote it. All that matters of two texts is how much of the
marker each begins with, from nothing (`0`) to all of it (`MarkerLength`): a whole body
begins with all of it, one cut short by a failed write with any part, and so may the
comment of anybody else.

`Publication` is what of this a reader of the pull request sees, and is promised: a
job speaks for itself alone and only while it runs; it annotates a refusal once and
first, publishes one Check Run, of that refusal if there was one, and comments what the
Check Run says, in a new comment, in place of one of a job's, or in place of one that begins as
its own does, with the whole marker if its own is whole;
it ends green only with a Check Run and an artifact of its own that say 0 and no refusal.
The map is `waiting <- todo`, `check <- checkOf`, `refusal <- annotated`,
`artifact <- uploaded`; wiping, the CLI, the summary, the listing and staging are stutters,
since they only touch a runner. Three things the code does not promise and `Publication`
therefore allows: an artifact that is an earlier job's, a comment that is cut short, and,
in place of somebody else's comment, one that begins alike.

### RunLog

The main thread's program counter follows `run_verify` and `_run_cases` from
`RunRecorder.begin` to the end of the process (`Begin`, `FirstSample`, `EndDispatch`,
`Join`, `Report`, `Finish`, `Close`); a worker is `StartCase`, `EndCase`, and the sampler
`Sample`, which waits, probes, and looks at the stop event only between the two. All of
them write over one connection through `_write` and `_fail`, whose steps are `Write`,
`Fail` and `TurnOff`: the store is closed first and dropped after, and a thread may be
anywhere in between when another one writes. `Proceed` is what the thread does next,
which does not depend on what became of its write. The process may die anywhere. `Look` is
the dashboard: it reads the row and the samples in two statements with no snapshot
over both, then calls a running row stale or not.

There is no clock. `quiet` is the age of the newest sample, or else of the run's start,
and `since` how long a thread has been on its way; `Tick` makes all of them older and is
held back (`InTime`) where the code bounds the time a thread may take: a sampling turn is
5 s of waiting, at most 10 s of `nvidia-smi` and the busy timeout of 5 s for each writer
before it, against `STALE_AFTER_S` of 300 s. So it is an assumption of the model, and not
checked, that starting the run and writing its report take less than a third of that
(`MaxGap`).

### ImagePull

A call of `_ensure_image_present` is a caller and, where the image is absent, a drain
thread. The caller is `Look`, then in turns `Expire` (the interval of `finished.wait` is
over), `ReadClock` and `Compare`, or `Wake`; then `Run` is `containers.run`, which pulls an
image that is not there with nobody watching (`ImplicitPullEnds`). The thread is `Event`
and `Stamp` (the clock is read, then stored), `StreamEnds`, `Store` (`box["error"]`) and
`Finish` (`finished.set()` in the `finally`). The daemon may end a stream whose last
event was an error (`told`), which docker-py's low-level pull yields as any other.
Times are ages, in a unit the constants are counted in: `at` is how old the stored
progress is, `silent` how old the daemon's last word. `Tick` makes all of them older and is
held back by a caller that has a step to take: `Poll` bounds its wait and `Turn` what it
may need for any other step, which is an assumption about the host's scheduling of
threads. What a caller does once its call is answered, and a client without an images
API (only test doubles are), are left out.

### CasePlan

A request goes through `Consent`, `Read`, the lines of the model, `Fields`, `Admit`
(`inputs.parse` in its order), the lines once more, `Resolve` and `Pict`
(`pict.generate`), `Client`, `RunCase` and `Report`. A call of `pict.plan` has `Orders`
instead, and `Fits`, `NextOrder` or `Cut` after each array; it shares the validation and
`Pict`. `Exit(2)` is a `ContractError` or a `PictError`, `Exit(3)` everything else that
leaves `run_verify` early. `CheckLine` is one turn of the loop of `validate_model`.

A model file is a sequence of lines that are an axis, a constraint or neither; a
constraint excludes the rows in which all its axes have their first value. A name is one
of a few: one that cannot become a flag, one that begins with IF, which
`_declared_parameters` takes for a constraint and `validate_model` does not. `Pict`
appends any row that brings a combination not yet there, in any order, until none is
missing, which is all the code relies on. Combinations and the coverage of a prefix are
defined over such rows as in the code. What a row's values are called, seeds, case ids and
command lines, the spelling of every single field of a request (one boolean, `fields`),
and the `ValueError`s for arguments no caller passes are left out; a quotient of floats is
exact; `plan()` without a limit on cases is one with a large limit. On the runner one
thing may go wrong anywhere: the file is edited or gone, the binary is removed, killed or
hangs, the Docker client cannot be made.

### What is external

The Docker daemon (it refuses a name it has, keeps what nobody removes, refuses to
remove a network with an endpoint, refuses a second network of one name, as a recent
daemon does and an old one did not, and pulls inside `containers.run` an image it does not
have), the operating system (a dead process's flocks are
gone), GitHub (a listing without a page parameter returns the first page, the oldest
comments), and other people who comment. They are modelled as the code uses them,
inside the actions that call them, or as actions of their own (`SimExits`, `CopyExits`,
`Exits`, `ImplicitPull`, `ImageRemoved`, `Others`).

## 3. The runs

Each passing run checks one type invariant and properties that take several steps,
mostly of several actors, to break. For every property there is a mutant of a mapped
definition, a bug one could plausibly write, under which TLC finds it violated.

| Run | Question | Properties | Size |
|---|---|---|---|
| `scheduler` | does every interleaving of the dispatcher and the back-offs keep what `dispatch` promises? | `LevelWasReached`, `TopLevelLostForGood`, `BlindMeansSerial`, `ImplementsDispatch` | 211 thousand states, 40 s |
| `cache_slots` | do leases, copies, crashes and failures ever share or spoil a tree, or lose a slot? | `ImplementsTreeLease`, `NoLockLeft`, `MarkerMeansWarm`, `SimTreeIntact`, `EveryRunEnds` | 31 thousand, 15 s |
| `case_run` | does a case run remove only its own, judge its own evidence, and clean up? | `HandlesAreMine`, `EvidenceIsStill`, `EvidenceOfTheLastAttempt`, `NothingLeftBehind`, `EveryRunIsJudged` | 487 thousand, 45 s |
| `baselines` | are exit codes deserved and references moved by judgement, whatever the store does? | `ExitCodeIsDeserved`, `BaselineMovesByJudgement`, `LoweredIsReported` | 1.8 million, 110 s |
| `verify_job` | is what a job publishes its own, backed, and consistent with its colour? | `StatusIsBacked`, `GreenMeansPassed`, `CommentHasItsCheck`, `ImplementsPublication` | 2.8 million, 140 s |
| `run_log` | is what is recorded complete, and is "stale" only ever said of runs that are gone? | `ImplementsJournal`, `StaleIsDeadOrOff`, `CleanRunIsRecorded`, `DeadIsSeen` | 98 thousand, 18 s |
| `image_pull` | does the watchdog give up silence and nothing else, and is no error of the thread lost? | `StallIsSilence`, `PulledIsBacked`, `GivenUpInTime`, `EveryCallIsAnswered` | 483 thousand, 66 s |
| `case_plan` | is the right party blamed, and is the coverage that is reported that of what ran? | `BlameIsRight`, `CoverageIsHonest`, `CutsOnlyWhatDoesNotFit` | 520 thousand, 110 s |

The violation runs are in section 5.

**Bounds, and why they are enough.**

- *Scheduler*: three cases and three threads are the least for a refill, a growth and
  two overlapping back-offs at one time; one loss per case; two host samples, one that
  shows room for everything and one that is busy and shows footprints outgrowing the
  assumption; a budget that ends in the middle and one that does not; a clock of two
  units, since the code compares it with one spacing and one deadline.
- *CacheSlots*: three holders on two slots, so that one finds none; three faults are a
  crash, a failure and a failure after it. Each holder begins one case run, so a slot is
  reused by another holder; the proofs have no such bound.
- *CaseRun*: two processes, both attempts, with and without oracle and scratch root, one
  fault at any point, with the image there at first or not. The proofs cover any number of
  processes and faults.
- *Baselines*: two processes, one case of two repeats, one key, all seven results a run
  may come to, all rows a store may hold among four. One key is enough because the exit
  code and the comparison quantify over keys independently; the proofs have any number.
- *VerifyJob*: two runners and two jobs, so that a disk is used twice or two jobs are
  under way at once; a page of one comment with one of somebody else before it; two
  faults; a marker of length 2, so that a comment may begin with none, a part or all of it.
- *RunLog*: two case runs, so that one worker may be in `_fail` while another writes;
  two faults; a gap of one unit and a stale bound of three, which is as tight as the
  assumption allows. The proof has any gap, and any bound of at least three of them.

- *ImagePull*: two calls, so that the second one may find the image while the first
  pulls it, or both pull at once; a window of two units and an interval of one, so that
  the caller looks at least twice before it gives up; one event per pull, since each
  event starts the window anew; two faults.
- *CasePlan*: every model of up to three lines over eight kinds of line, so that an axis may
  come after a constraint or a namesake, and a constraint before its axis, or exclude a
  combination, or every row; requests that differ from a right one in one thing; plans whose
  budget is met, missed by one row, and too small for any; one mishap at any point.

`MaxFaults`, `MaxRuns`, `MaxTime`, `Repeats`, `MaxOthers`, `MaxEvents` and `MaxMishaps` are
the only bounds on counters and occur only in guards (`MaxTime` bounds the clock: beyond
it the growth test and the deadline just keep their last answer). Symmetry is used in the
two runs without liveness, on processes, runners and jobs.

**Fairness.** `Scheduler` asks that the dispatcher's loop turns and that a worker comes to
its end; `CacheSlots` and `CaseRun` that a case run in flight goes on, except within
`containers.run`. The code justifies it: `dispatch` waits with a tick, every wait on a
container is bounded by the case's timeout, every other request to the daemon by its
client's, the copy of a scratch tree is a local one that is assumed to end (`cp` is given
no timeout), and no lock is waited for without a bound (the flock is `LOCK_NB`, SQLite
gives up). The exception is the code's own (`execution.py:655`): a `containers.run` whose
image is missing pulls it, "the unbounded hang". So `ImplicitPull` has no fairness in
`CaseRun`, as its end has none in `ImagePull`, and in `CacheSlots`, which does not know of
images, none of the steps at a `containers.run` has (`InContainersRun`). What is then
claimed, and holds, is that this is the only way not to end: `EveryRunIsJudged` and
`EveryRunEnds` say that a case run is judged, or gives its slot back, unless it stays for
ever in that call. `Scheduler` assumes that a worker ends, hence that none does. `RunLog`
asks that the main thread and the workers go on, that somebody looks again, and that time
passes between the looks (strongly, since a look in progress holds the clock back); of the
sampler it asks nothing. `ImagePull` asks that both threads of a call go on and that time
passes; of the daemon it asks nothing, so that a pull may fall silent at any point.
`CasePlan` states none and has no liveness property. Nothing is asked of containers: they
may run or hang for ever. In `CacheSlots`, deadlock is not checked, because the system
stops once every holder has had its runs; the others have an explicit final step.

## 4. The proofs

The proof modules extend the component and prove, for every value of its constants
that satisfies the module's assumption, that an inductive invariant holds:
`Init => IInv`, one lemma per action that it keeps `IInv`, and each property from `IInv`.

| Module | Theorems | Why the properties alone are not inductive |
|---|---|---|
| `SchedulerProofs` | `TypeCorrect`, `NeverOversubscribed`, `LevelStaysWithinCeiling`, `RefillsAreProven`, `TopLevelStaysLost`, `BlindStartsAlone`, `DispatchSafety` | A back-off stores what it read earlier. `Levels` says what any value read and not yet stored may be: at most the top level and at most one more than the peak. `Tracked` says that the dispatcher's set contains every case at work, and `Loop` what has been established at each point of the loop, so that a start never exceeds `MaxParallel`. |
| `CacheSlotsProofs` | `TypeCorrect`, `OneInstancePerTreeAlways`, `LocksAreReturned`, `MarkerIsHonest`, `TreesStayIntact`, `SlotsAreTreeLeases`, `OnlyFaultsShare`, `CaseRunsAreShort`, `CaseRunsFindSlots` | Sims exclude each other because their holders' locks do (`Locked`, `SimsAreRun`). A marked tree stays warm because nobody copies to a marked slot, and what a crashed process still copies is to an unmarked one (`MarkedMeansSettled`); orphans only sit on marked trees (`InUseMeansMarked`). Sharing is charged to faults: supervised sims and orphans of one tree are at most one more than the faults so far (`SharingIsAFault`). `Left` counts the steps a case run still has. Whoever is at a slot leaves a case run of its own behind for each slot before it (`Spread`). |
| `CaseRunProofs` | `TypeCorrect`, `HandlesAreMineAlways`, `EvidenceStaysStill`, `EvidenceIsOfTheLastAttempt`, `NothingStaysBehind`, `CaseRunsAreBounded`, `NoCaseRunIsStuck`, `HangsTakeAFault` | A handle is only had while its container exists under that name (`Handles`); a sim that ran to completion is over, and no other of this process can be started under its name (`SimOver`); output is of this attempt unless a discard failed (`FilesOfTheAttempt`). While no fault has happened, whatever exists is held by a process that is not past giving it back (`Tidy`), and no sim of its own is at a network that is being removed. `Left` counts the steps a run still has; `AllStarted` says that a handle is never to a container that was created but not started; `Gated` that without a fault whoever is past the gate finds the image. |
| `BaselinesProofs` | `TypeCorrect`, `ExitCodeIsAlwaysDeserved`, `BaselineOnlyMovesByJudgement`, `LoweringIsReported` | The regressions are those of the rows that were read (`RegressedAsRead`). |
| `RunLogProofs` | `TypeCorrect`, `DoneRunsAreComplete`, `CleanRunsAreRecorded`, `StaleRunsAreDeadOrOff`, `StaleStaysStale`, `HistoryIsAJournal` | `Logged` says that while the connection is open nothing that ended is missing, and that it is closed before the log is off; `Timely` how old the newest sample may be in each phase, one thread standing for the run after the other, which is where the three gaps come from; `Answered` that what the dashboard has read stays true or fresh until it answers. `Reading` adds that its answers never run ahead of the row. |
| `ImagePullProofs` | `TypeCorrect`, `PullsAreBacked`, `SilenceIsGivenUp`, `StallsAreSilence`, `WildPullsWereTold` | `Pulling` follows an exception from the thread to the caller, a step at a time: it is stored before the event is set. `Timed` bounds, for each step of the caller, how old the last word of the daemon may be, from how long the caller has been at it; and says that the stored time is never younger than that word, so that reading the clock first can only make an interval look shorter. `LetThrough` says what a call that came back without an error has behind it: the image, or an event that told a failure. |
| `CasePlanProofs` | `TypeCorrect`, `BlameIsAlwaysRight`, `PlansCutOnlyWhatDoesNotFit`, `CoverageIsAlwaysHonest` | `Validated` says that the lines before the current one are well formed and what `declared` and the constraint flag know of them, `Admission` what each step of a verification has established about who is right, and `Walk` that each order a plan may take did not fit, is being tried, or is left and smaller. `Quotient` turns the code's floored quotient into the products the property compares. |
| `VerifyJobProofs` | `TypeCorrect`, `EvidenceIsOwn`, `StatusIsAlwaysBacked`, `GreenAlwaysMeansPassed`, `CommentsHaveTheirCheck`, `JobsArePublications` | `Writing` says exactly which files there are at each step of the CLI, `Written` what may be found after it ended anywhere, `Published` what a job without a failed step has published so far, `Apart` that two runners never have one job. `Speaking` is what the refinement adds: only a refused job has annotated, the comment a job found is still there, and is a job's or begins with as much of the marker as it was found by, and what is staged is of a job that has begun. |

Four theorems are refinements: initial states map to initial states of the abstract
specification, and every step to a step of it or to none. `DispatchSafety` is the safety
half of `ImplementsDispatch`; `Dispatch` has fairness too. `SlotsAreTreeLeases`,
`HistoryIsAJournal` and `JobsArePublications` are all of `ImplementsTreeLease`,
`ImplementsJournal` and `ImplementsPublication`, with one lemma per group of actions. What
each needs beyond the types is the inductive invariant of its component: that a slot is
not marked while it is copied to, that a connection which is open has lost nothing, that a
comment, once listed, is not taken away.

`CaseRunsFindSlots` counts: with as many slots as case runs ever taken up, none is refused
for want of a slot, whoever crashes, and of n case runs none goes past slot n - 1. It needs
the number of case runs to be finite and nothing else; an orphan of a crash does not hold
the lock, so it takes no slot away.

`CaseRunsAreShort` is the part of `EveryRunEnds` that is in the prover's reach. A case run
makes at most `NSlots` + 9 steps of its own, since each lowers `Left` and no other
holder's step, crash or fault raises it; with weak fairness of its steps, none of which
waits for another, it ends, unless one of them is a `containers.run` that never returns.
In the same way `CaseRunsAreBounded` and `NoCaseRunIsStuck` are what `EveryRunIsJudged`
rests on besides fairness: at most 25 steps, the retry, the oracle and their pulls
included, of which only the supervision waits for a container, and it has one, and only
the pull waits without a bound, and it takes a fault to get there (`HangsTakeAFault`).
`CoverageIsAlwaysHonest` follows the array row by row (`Array`): the rows that ran are a
prefix of those generated, so that what they cover is a subset of what all cover, and a
subset of the same finite cardinality is the whole.

`ExitCodeIsAlwaysDeserved` says something that the code's comments do not. A stored
ratio is at most 1 (that is in the inductive invariant), so a check that falls below it
is below 1, and a run in which it happens fails by that check alone. So the baseline
never decides an exit code, for any store contents and any writer, although the
docstring at `baselines.py:133` says that `regressed` "moves the exit code". Comparing
tells the reader what is new, not what is red.

Two conventions of the modules come from the prover: records in a function are
changed by a nested `EXCEPT`, because two updates at one index in a single
`EXCEPT` are not translated correctly by tlapm 1.4.5, and no module that is proved about
declares a RECURSIVE operator (sums are folds of the community modules).

Some theorems state what no run is spent on: `NeverOversubscribed` (`InFlightWithinPeak`),
`LevelStaysWithinCeiling` (`LevelWithinCeiling`), `StaleStaysStale` (`StaleIsForGood`),
`OnlyFaultsShare`, `CaseRunsAreShort`, `CaseRunsFindSlots`, `CaseRunsAreBounded`,
`NoCaseRunIsStuck`, `HangsTakeAFault` (`NoPullWithoutAFault`) and `WildPullsWereTold`; and
three what a refinement has replaced in its run, `OneInstancePerTreeAlways`
(`OneInstancePerTree`), `DoneRunsAreComplete` (`DoneIsComplete`) and `EvidenceIsOwn`
(`OwnEvidence`).

**Only model-checked:** everything temporal beyond safety (`EveryRunEnds`,
`EveryRunIsJudged`, `DeadIsSeen`, `EveryCallIsAnswered`, and the liveness half of
`ImplementsDispatch`), because the prover has no ENABLED and no rule for fairness here.
What a sum or a mean comes to is used in the proofs only as a value: induction over data
is out of the prover's reach.

## 5. What the runs found

Each of these runs checks one sentence of the code's comments and ends in a
counterexample; `PROJECT.json` quotes the line and tells the story under `findings`.

| Run | Sentence | What happens |
|---|---|---|
| `back_off` | a back-off never lets the level "back up to the level it happened at" | two workers read level 3 and both store 2, or a stale read overwrites a lower level. What does hold, and is proved: the level never exceeds the ceiling, and never gets back to the run's highest (`LevelWithinCeiling`, `TopLevelLostForGood`) |
| `slots_shared` | "Two Isaac instances must not share one Kit cache tree" | the flock dies with the process, or is released after a teardown that failed, while the container runs on. What does hold: no two supervised sims share, and no tree is copied over under any sim (`OneInstancePerTree`, `SimTreeIntact`), and without a fault no two share at all (`OnlyFaultsShare`) |
| `stale_output` | an output directory that cannot be removed is "a disk-space problem" | the retry of a lost GPU finds it and zips the lost attempt's files as its own evidence |
| `pull_error` | a failed pull "is a finite case ERROR instead of the unbounded hang" of the pull in `containers.run` | the stream of the low-level pull reports most failures as an event; the thread counts it as progress, the call answers that it has pulled, and `containers.run`, finding no image, pulls by itself with nobody watching. What does hold, and is proved: it only does so after an event of the stream told the failure (`WildPullsWereTold`) |

More facts came out of the models and are not worth a run of their own:

- A copy container's name is fixed per slot and it is only removed by the process that
  started it. So a copy that died half-way with its process is not copied again, as the
  docstring at `execution.py:326` has it, before an operator removes it; until then the
  slot errors.
- A payload that cannot be written makes the status 3 after `report.json` said 0, and the
  workflow publishes what it finds: the Check Run and the status then disagree.
  `GreenMeansPassed` holds all the same.
- The sticky comment is found by its text alone (`verify.yml:259-263`). A comment of anybody
  that begins with the marker is taken for the job's and overwritten; and where the
  sticky file was cut short within its first line, so is the first listed comment that begins
  with that fragment: any comment at all, if the file is empty and the API accepts that.
- The oracle's container has no image gate of its own, and the sim's gate reads an error of
  the registry as progress. Where the image is missing for either reason, `containers.run` pulls
  without a deadline: the case is not judged while that lasts, its slot not given back, and
  `dispatch` waits for it (`execution.py:655`).
- The listing of comments is its first page only: where the sticky comment is on a
  later one, the job creates another (`verify.yml:260`).
- A model's axis that begins with IF is not counted where orders are clamped
  (`pict.py:473`), so an order that PICT would take is refused with exit 2.
- A line `name:` with nothing after the colon matches no rule of `validate_model` and is
  skipped, although its docstring counts an empty list of values among what it catches.
- What the runner breaks after admission is blamed on the model: the binary removed, or
  PICT killed, is exit 2 (`pict.py:313`). A model file that vanishes or is not UTF-8
  is exit 3.
- A header without rows is an array of no cases, whose coverage is 1.0.
- `float()` takes "nan" and "inf" for a timeout or a budget, and no test of the contract
  refuses them (`inputs.py:421`).
- The memory baseline is the first sample that could be read. If the first probe fails
  while the first case starts at once, the baseline is of a host with a case on it
  (`scheduler.py:174`).
- Two processes at one case on one scratch root share one scratch tree, which the first
  to end removes (`execution.py:830`).
- A container that was created but could not be started is removed by nobody
  (`execution.py:933`); its name stays taken for that case.
- When staging fails before it has emptied the staging directory, the upload step, which
  runs regardless, uploads the artifact of an earlier job of that runner
  (`publish_glue.py:211`). The job is red in that case: `GreenMeansPassed` holds.
- A request with an empty gate is refused (exit 2) after its metric rows were upserted
  (`main.py:198`): the reference has moved by a run that was never judged.
- A run whose log was turned off by one failed write reads as stale from then on,
  however well it goes (`history.py:449`); `StaleIsDeadOrOff` names the case.

## 6. Not modelled

- *Dashboard* (`dashboard/`): server, page and charts read the history and keep no state
  of their own; of the history, the contents of rows and the schema's version are left out.
- *Strings of the contract* (`contract/inputs.py`, `contract/errors.py`): which path, number
  or image is refused and in which words, the warnings read off the sim script, the
  seeds, ids and command lines of `cases.py`.
- *Rendering* (`report/github.py` beyond the order of payloads and the conclusion, the
  layout of the report document): wording and markdown. The step summary page of the
  job is left out of the published results; the step is there with its failure.
- *Guards of the staging path* (`publish_glue.py`): which paths are refused.
- *Workstation set-up, consent and measurement scripts, self-test example*: run by hand,
  or input data; they keep no state the system uses.
- *Widths*: numbers are exact. The one place where a width matters, `float()` of an
  oracle's integer beyond the range of a double (`verdict.py:151`), ends a run with
  status 3, an outcome `VerifyJob` has for `RunCases`.

## 7. Plan

Done, in order of importance: `Dispatch` and `Scheduler`; `CacheSlots`; `CaseRun`;
`Verdicts` and `Baselines`; `VerifyJob`; `RunLog`; `ImagePull`; `CasePlan`; the proofs of each.

Left:

1. Composition: `Scheduler` with the slots its workers lease, so that `MaxParallel` in one
   process and another process on the host together meet the number of slots. The counting
   half is proved (`CaseRunsFindSlots`).
2. That `CaseRun` without faults implements an abstract case run (started, judged or
   failed, nothing left).
3. The scripts of the workstation set-up, should they come to be run unattended.

## 8. Running it

```
tlc -workers 2 -config Scheduler.cfg MCScheduler.tla
tlapm SchedulerProofs.tla
```

`PROJECT.json` has every run with its module and configuration, the mutants, the source
lines behind each definition, the hazards and the theorems.
