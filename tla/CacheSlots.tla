----------------------------- MODULE CacheSlots -----------------------------
(***************************************************************************)
(* The cache slots of cv_infra/execution.py: every case run leases one of  *)
(* the Kit cache trees of its image by an flock, copies a new slot warm    *)
(* from slot 0 in a container, runs its sim container on the tree, tears   *)
(* it down best-effort and gives the lock back.                            *)
(*                                                                         *)
(* A holder is one run_sim_case() in flight: a worker thread of this CLI   *)
(* process or of another one on the host (flocks of separate opens exclude *)
(* each other all the same).  The Docker daemon is the environment: it     *)
(* keeps a container by its name, whatever becomes of the CLI process.     *)
(***************************************************************************)
EXTENDS Integers, FiniteSets

CONSTANTS
    Holders,    \* case runs that may be in flight at once, over all processes
    NoHolder,   \* a slot's lock while nobody has it
    NSlots,     \* MAX_CACHE_SLOTS
    MaxRuns,    \* bound: case runs each holder begins
    MaxFaults   \* bound: crashes and failing Docker or file operations

ASSUME CacheSlotsAssumption ==
    /\ NoHolder \notin Holders
    /\ NSlots \in Nat \ {0}
    /\ MaxRuns \in Nat
    /\ MaxFaults \in Nat

Slots == 0 .. NSlots - 1

VARIABLES
    pc,         \* where each holder is in run_sim_case
    at,         \* the slot it is trying, or has
    sim,        \* its sim container: "absent", "running", "exited"
    runs,       \* case runs it has begun
    lock,       \* per slot: who has the flock
    marker,     \* per slot: .cv-infra-slot-ready is there (slot 0 needs none)
    tree,       \* per slot: "empty", "partial" or "warm"
    copier,     \* per slot: the container cv-cache-<ns>-slot<k>
    orphans,    \* per slot: sim containers still running that nobody supervises
    faults      \* how many faults have happened

holderVars == <<pc, at, sim, runs>>
diskVars == <<marker, tree>>
vars == <<holderVars, lock, diskVars, copier, orphans, faults>>

PCs == {"idle", "scan", "provision", "copying", "copied", "not_copied", "mark", "leased",
        "running", "teardown", "release"}

\* The holder has the flock of the slot it is at.
Holding(h) == pc[h] \notin {"idle", "scan"}

Init ==
    /\ pc = [h \in Holders |-> "idle"]
    /\ at = [h \in Holders |-> 0]
    /\ sim = [h \in Holders |-> "absent"]
    /\ runs = [h \in Holders |-> 0]
    /\ lock = [s \in Slots |-> NoHolder]
    /\ marker = [s \in Slots |-> s = 0]
    /\ tree = [s \in Slots |-> IF s = 0 THEN "warm" ELSE "empty"]
    /\ copier = [s \in Slots |-> "absent"]
    /\ orphans = [s \in Slots |-> 0]
    /\ faults = 0

Goto(h, label) == pc' = [pc EXCEPT ![h] = label]

\* A fault of the environment, while the bound allows one.
Fault == faults < MaxFaults /\ faults' = faults + 1

-----------------------------------------------------------------------------
(* _lease_cache_slot                                                       *)

\* A case run reaches _cache_volumes.
Begin(h) ==
    /\ pc[h] = "idle"
    /\ runs[h] < MaxRuns
    /\ runs' = [runs EXCEPT ![h] = @ + 1]
    /\ at' = [at EXCEPT ![h] = 0]
    /\ Goto(h, "scan")
    /\ UNCHANGED <<sim, lock, diskVars, copier, orphans, faults>>

\* LOCK_EX | LOCK_NB takes the lock only from nobody.  (Bug variant: an open of
\* its own is taken for a lock of its own.)
LockIsMine(s) == TRUE
LockIsFree(s) == lock[s] = NoHolder

\* The slot after which every slot has been tried.  (Bug variant: one too far.)
PastTheLastSlot == NSlots
LastSlot == NSlots - 1

\* The lowest free slot; with every slot leased the case errors.
TryLock(h) ==
    /\ pc[h] = "scan"
    /\ \/ /\ LockIsFree(at[h])
          /\ lock' = [lock EXCEPT ![at[h]] = h]
          /\ Goto(h, IF at[h] = 0 THEN "leased" ELSE "provision")
          /\ UNCHANGED <<at, faults>>
       \/ /\ ~LockIsFree(at[h])
          /\ IF at[h] = LastSlot
             THEN Goto(h, "idle") /\ UNCHANGED at
             ELSE at' = [at EXCEPT ![h] = @ + 1] /\ UNCHANGED pc
          /\ UNCHANGED <<lock, faults>>
       \/ Fault /\ Goto(h, "idle") /\ UNCHANGED <<at, lock>>     \* the lock file
    /\ UNCHANGED <<sim, runs, diskVars, copier, orphans>>

\* lease.release(): also what the except of _lease_cache_slot does.  (Bug variant:
\* the case boundary swallows the error and the lock stays.)
KeptBy(h) == lock
ReleasedBy(h) == [lock EXCEPT ![at[h]] = NoHolder]

\* Provisioning failed: the lock goes back and the case errors.
GiveUp(h) ==
    /\ lock' = ReleasedBy(h)
    /\ Goto(h, "idle")

-----------------------------------------------------------------------------
(* _provision_slot                                                         *)

\* The daemon refuses a name it already holds.
NameIsFree(s) == copier[s] = "absent"

\* The ready marker is what says a slot needs no copy.  (Bug variant: a slot whose
\* directories exist is taken for ready.)
ExistsOnDisk(s) == tree[s] # "empty"
IsReady(s) == marker[s]

\* The slot's directories, then either it is ready or the copy container starts.
Provision(h) ==
    LET s == at[h]
    IN /\ pc[h] = "provision"
       /\ \/ /\ IsReady(s)
             /\ Goto(h, "leased")
             /\ UNCHANGED <<lock, tree, copier, faults>>
          \/ /\ ~IsReady(s) /\ NameIsFree(s)
             /\ copier' = [copier EXCEPT ![s] = "copying"]
             /\ tree' = [tree EXCEPT ![s] = "partial"]
             /\ Goto(h, "copying")
             /\ UNCHANGED <<lock, faults>>
          \/ /\ ~IsReady(s) /\ ~NameIsFree(s)
             /\ GiveUp(h)
             /\ UNCHANGED <<tree, copier, faults>>
          \/ /\ Fault                       \* mkdir, or the daemon before it created
             /\ GiveUp(h)
             /\ UNCHANGED <<tree, copier>>
          \/ /\ ~IsReady(s) /\ NameIsFree(s) /\ Fault    \* created, but start failed
             /\ copier' = [copier EXCEPT ![s] = "failed"]
             /\ GiveUp(h)
             /\ UNCHANGED tree
       /\ UNCHANGED <<at, sim, runs, marker, orphans>>

\* A copy that exited with 0 is a copy.  (Bug variant: any exit is.)
CopyExited(s) == copier[s] \in {"ok", "failed"}
CopyWorked(s) == copier[s] = "ok"

\* _supervise_until_exit over the copy: its exit, or the timeout, or the daemon
\* does not answer.
SuperviseCopy(h) ==
    /\ pc[h] = "copying"
    /\ \/ CopyWorked(at[h]) /\ Goto(h, "copied") /\ UNCHANGED faults
       \/ ~CopyWorked(at[h]) /\ Goto(h, "not_copied") /\ UNCHANGED faults
       \/ Fault /\ Goto(h, "not_copied")
    /\ UNCHANGED <<at, sim, runs, lock, diskVars, copier, orphans>>

\* _teardown of the copy container, best effort; an unsuccessful copy ends the lease.
TeardownCopy(h) ==
    LET s == at[h]
    IN /\ pc[h] \in {"copied", "not_copied"}
       /\ \/ copier' = [copier EXCEPT ![s] = "absent"] /\ UNCHANGED faults
          \/ Fault /\ UNCHANGED copier
          \/ /\ Fault /\ copier[s] = "copying"
             /\ copier' = [copier EXCEPT ![s] = "failed"]
       /\ IF pc[h] = "copied"
          THEN Goto(h, "mark") /\ UNCHANGED lock
          ELSE GiveUp(h)
       /\ UNCHANGED <<at, sim, runs, diskVars, orphans>>

\* The marker is written last, once the copy has exited with 0.
Mark(h) ==
    /\ pc[h] = "mark"
    /\ \/ /\ marker' = [marker EXCEPT ![at[h]] = TRUE]
          /\ Goto(h, "leased")
          /\ UNCHANGED <<lock, faults>>
       \/ Fault /\ GiveUp(h) /\ UNCHANGED marker
    /\ UNCHANGED <<at, sim, runs, tree, copier, orphans>>

-----------------------------------------------------------------------------
(* run_sim_case, from the lease to the finally                             *)

\* The case's network and sim container; whatever fails goes to the finally.
StartSim(h) ==
    /\ pc[h] = "leased"
    /\ \/ /\ sim' = [sim EXCEPT ![h] = "running"]
          /\ Goto(h, "running")
          /\ UNCHANGED faults
       \/ Fault /\ Goto(h, "teardown") /\ UNCHANGED sim
    /\ UNCHANGED <<at, runs, lock, diskVars, copier, orphans>>

\* Supervision ends with the sim's own exit, or before it: the timeout, a lost GPU,
\* a daemon that does not answer.  (Bug variant: only with its exit.)
SimExited(h) == sim[h] = "exited"
SuperviseEnds(h) == sim[h] \in {"running", "exited"}

SuperviseSim(h) ==
    /\ pc[h] = "running"
    /\ SuperviseEnds(h)
    /\ Goto(h, "teardown")
    /\ UNCHANGED <<at, sim, runs, lock, diskVars, copier, orphans, faults>>

\* _teardown of the sim container: failures are printed, never raised, so a sim
\* that could not be removed runs on.
Teardown(h) ==
    /\ pc[h] = "teardown"
    /\ sim' = [sim EXCEPT ![h] = "absent"]
    /\ Goto(h, "release")
    /\ \/ UNCHANGED <<orphans, faults>>
       \/ /\ sim[h] = "running" /\ Fault
          /\ orphans' = [orphans EXCEPT ![at[h]] = @ + 1]
    /\ UNCHANGED <<at, runs, lock, diskVars, copier>>

\* _release_lease, after the teardown.
Release(h) ==
    /\ pc[h] = "release"
    /\ GiveUp(h)
    /\ UNCHANGED <<at, sim, runs, diskVars, copier, orphans, faults>>

-----------------------------------------------------------------------------
(* The environment                                                         *)

\* The process dies: the kernel drops its lock, the daemon keeps its containers.
Crash(h) ==
    /\ pc[h] # "idle"
    /\ Fault
    /\ Goto(h, "idle")
    /\ sim' = [sim EXCEPT ![h] = "absent"]
    /\ lock' = [s \in Slots |-> IF lock[s] = h THEN NoHolder ELSE lock[s]]
    /\ IF sim[h] = "running"
       THEN orphans' = [orphans EXCEPT ![at[h]] = @ + 1]
       ELSE UNCHANGED orphans
    /\ UNCHANGED <<at, runs, diskVars, copier>>

\* A sim container exits.
SimExits(h) ==
    /\ sim[h] = "running"
    /\ sim' = [sim EXCEPT ![h] = "exited"]
    /\ UNCHANGED <<pc, at, runs, lock, diskVars, copier, orphans, faults>>

OrphanExits(s) ==
    /\ orphans[s] > 0
    /\ orphans' = [orphans EXCEPT ![s] = @ - 1]
    /\ UNCHANGED <<holderVars, lock, diskVars, copier, faults>>

\* The copy script ends: every tier replaced whole, or exit 1 half-way.
CopyExits(s) ==
    /\ copier[s] = "copying"
    /\ \/ /\ copier' = [copier EXCEPT ![s] = "ok"]
          /\ tree' = [tree EXCEPT ![s] = "warm"]
          /\ UNCHANGED faults
       \/ /\ Fault
          /\ copier' = [copier EXCEPT ![s] = "failed"]
          /\ UNCHANGED tree
    /\ UNCHANGED <<holderVars, lock, marker, orphans>>

CaseRun(h) ==
    \/ TryLock(h) \/ Provision(h) \/ SuperviseCopy(h) \/ TeardownCopy(h) \/ Mark(h)
    \/ StartSim(h) \/ SuperviseSim(h) \/ Teardown(h) \/ Release(h)

Next ==
    \/ \E h \in Holders : Begin(h) \/ CaseRun(h) \/ Crash(h) \/ SimExits(h)
    \/ \E s \in Slots : OrphanExits(s) \/ CopyExits(s)

\* The holder is at a containers.run, of its sim or of the copy into a new slot.  When the
\* image is not there the call pulls it, and that pull has no deadline: "an unbounded hang"
\* (execution.py:655).
InContainersRun(h) == pc[h] = "leased" \/ (pc[h] = "provision" /\ ~IsReady(at[h]))

\* A case run in flight goes on: each of its waits is bounded by a timeout, except in
\* containers.run, which may never return.  Nothing is asked of the containers.
Fairness == \A h \in Holders : WF_vars(CaseRun(h) /\ ~InContainersRun(h))

Spec == Init /\ [][Next]_vars /\ Fairness

-----------------------------------------------------------------------------
(* Properties                                                              *)

\* The types of the variables.
TypeOK ==
    /\ pc \in [Holders -> PCs]
    /\ at \in [Holders -> Slots]
    /\ sim \in [Holders -> {"absent", "running", "exited"}]
    /\ runs \in [Holders -> 0 .. MaxRuns]
    /\ lock \in [Slots -> Holders \cup {NoHolder}]
    /\ marker \in [Slots -> BOOLEAN]
    /\ tree \in [Slots -> {"empty", "partial", "warm"}]
    /\ copier \in [Slots -> {"absent", "copying", "ok", "failed"}]
    /\ orphans \in [Slots -> 0 .. MaxFaults]
    /\ faults \in 0 .. MaxFaults

\* Two supervised Isaac instances never share one cache tree, whatever crashes or
\* fails (execution.py:98 "must not share one Kit cache tree").
OneInstancePerTree ==
    \A g, h \in Holders :
        sim[g] = "running" /\ sim[h] = "running" /\ at[g] = at[h] => g = h

\* A lock is had exactly by the case run that is using it: no path out of a case
\* run, an error in the middle of the lease included, leaves its slot taken.
NoLockLeft ==
    \A s \in Slots : lock[s] # NoHolder => Holding(lock[s]) /\ at[lock[s]] = s

\* The ready marker vouches for the tree at any time, even with the copy of a
\* crashed process still writing somewhere.
MarkerMeansWarm == \A s \in Slots : marker[s] => tree[s] = "warm"

\* No sim, not even one nobody supervises, has its tree copied over under it, and
\* none runs on a tree that is not warm ("would run all-cold while measured as warm").
SimTreeIntact ==
    \A s \in Slots :
        orphans[s] > 0 \/ (\E h \in Holders : sim[h] = "running" /\ at[h] = s)
            => copier[s] # "copying" /\ tree[s] = "warm"

\* The slots are leases of trees (TreeLease.tla): a slot is ready when it is marked and its
\* tree is whole with no copy at work on it, and no crash, failing copy or teardown makes
\* a ready one unready, or starts an Isaac on one that is not, or on another's.
Lease == INSTANCE TreeLease WITH
    Nobody <- NoHolder,
    Trees <- Slots,
    Provisioned <- {0},
    lease <- lock,
    ready <- {s \in Slots : marker[s] /\ tree[s] = "warm" /\ copier[s] # "copying"},
    using <- {h \in Holders : sim[h] = "running"},
    strays <- orphans

ImplementsTreeLease == Lease!Spec

\* Whoever asks for a slot gets its case done or its error, and gives the slot back - unless
\* it is kept for ever by the pull a containers.run does of an image that is missing.
EveryRunEnds ==
    \A h \in Holders : (pc[h] # "idle" ~> pc[h] = "idle") \/ <>[]InContainersRun(h)

\* execution.py:98: "Two Isaac instances must not share one Kit cache tree ... So
\* every run LEASES a slot for its lifetime", and the lock "dies with a crashed process".
InstancesNeverShare ==
    \A s \in Slots :
        Cardinality({h \in Holders : sim[h] = "running" /\ at[h] = s}) + orphans[s] <= 1
=============================================================================
