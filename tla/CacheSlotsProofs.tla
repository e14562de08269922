-------------------------- MODULE CacheSlotsProofs --------------------------
(***************************************************************************)
(* The safety of the cache slots for every number of case runs, slots,     *)
(* crashes and failures.                                                   *)
(***************************************************************************)
EXTENDS CacheSlots, FiniteSetTheorems, TLAPS

(* The inductive invariant.                                                *)

\* The lock of a slot is had by exactly the holder that is past the scan with it.
Locked ==
    /\ \A h \in Holders : Holding(h) => lock[at[h]] = h
    /\ NoLockLeft

\* A sim exists only between its start and its teardown.
SimsAreRun == \A h \in Holders : sim[h] # "absent" => pc[h] \in {"running", "teardown"}

\* A tree in use has been vouched for ...
InUseMeansMarked ==
    /\ \A s \in Slots : orphans[s] > 0 => marker[s]
    /\ \A h \in Holders : sim[h] # "absent" \/ pc[h] = "leased" => marker[at[h]]

\* ... and a tree vouched for, or about to be, is warm with no copy at work on it.
MarkedMeansSettled ==
    /\ \A s \in Slots : marker[s] => tree[s] = "warm" /\ copier[s] # "copying"
    /\ \A s \in Slots : copier[s] = "ok" => tree[s] = "warm"
    /\ \A h \in Holders : pc[h] = "copied" => copier[at[h]] = "ok"
    /\ \A h \in Holders : pc[h] = "mark" => tree[at[h]] = "warm" /\ copier[at[h]] # "copying"

\* Slot 0 is never provisioned: it is the provisioned tree itself.
BaseIsMarked ==
    /\ marker[0]
    /\ \A h \in Holders : pc[h] = "provision" => at[h] # 0

\* Every orphan is the work of a fault.
OrphansAreFaults == \A s \in Slots : orphans[s] <= faults

IInv ==
    /\ TypeOK
    /\ Locked
    /\ SimsAreRun
    /\ InUseMeansMarked
    /\ MarkedMeansSettled
    /\ BaseIsMarked
    /\ OrphansAreFaults

USE DEF vars, holderVars, diskVars, Holding, Goto, Fault

-----------------------------------------------------------------------------
(* One lemma per action, one step per part of the invariant.               *)

\* The initial states satisfy the invariant.
LEMMA Initially == Init => IInv
  <1> SUFFICES ASSUME Init PROVE IInv
    OBVIOUS
  <1>1. 0 \in Slots
    BY CacheSlotsAssumption DEF Slots
  <1>2. TypeOK
    <2>1. /\ pc \in [Holders -> PCs] /\ at \in [Holders -> Slots]
          /\ sim \in [Holders -> {"absent", "running", "exited"}]
          /\ runs \in [Holders -> 0 .. MaxRuns]
      BY <1>1, CacheSlotsAssumption DEF Init, PCs
    <2>2. /\ lock \in [Slots -> Holders \cup {NoHolder}]
          /\ tree \in [Slots -> {"empty", "partial", "warm"}]
          /\ copier \in [Slots -> {"absent", "copying", "ok", "failed"}]
          /\ orphans \in [Slots -> 0 .. MaxFaults]
          /\ faults \in 0 .. MaxFaults
      BY CacheSlotsAssumption DEF Init
    <2>3. marker \in [Slots -> BOOLEAN]
      BY Zenon DEF Init
    <2> QED
      BY <2>1, <2>2, <2>3 DEF TypeOK
  <1>3. Locked /\ SimsAreRun
    BY DEF Init, Locked, NoLockLeft, SimsAreRun
  <1>4. InUseMeansMarked /\ MarkedMeansSettled /\ BaseIsMarked
    <2>1. \A s \in Slots : marker[s] <=> s = 0
      BY Zenon DEF Init
    <2>2. InUseMeansMarked
      BY DEF Init, InUseMeansMarked
    <2>3. MarkedMeansSettled
      BY <2>1 DEF Init, MarkedMeansSettled
    <2>4. BaseIsMarked
      BY <1>1, <2>1 DEF Init, BaseIsMarked
    <2> QED
      BY <2>2, <2>3, <2>4
  <1>5. OrphansAreFaults
    BY DEF Init, OrphansAreFaults
  <1> QED
    BY <1>2, <1>3, <1>4, <1>5 DEF IInv

\* A case run reaching the lease keeps the invariant.
LEMMA BeginKeeps ==
    ASSUME NEW h \in Holders, IInv, Begin(h)
    PROVE  IInv'
  <1> USE DEF IInv, Begin
  <1>1. TypeOK'
    <2>1. 0 \in Slots
      BY CacheSlotsAssumption DEF Slots
    <2> QED
      BY <2>1, CacheSlotsAssumption DEF TypeOK, PCs
  <1>2. Locked'
    BY CacheSlotsAssumption DEF TypeOK, Locked, NoLockLeft
  <1>3. SimsAreRun'
    BY DEF TypeOK, SimsAreRun
  <1>4. InUseMeansMarked'
    BY DEF TypeOK, SimsAreRun, InUseMeansMarked, MarkedMeansSettled, BaseIsMarked
  <1>5. MarkedMeansSettled'
    BY DEF TypeOK, Locked, NoLockLeft, InUseMeansMarked, MarkedMeansSettled
  <1>6. BaseIsMarked'
    BY DEF TypeOK, BaseIsMarked
  <1>7. OrphansAreFaults'
    BY DEF TypeOK, OrphansAreFaults
  <1> QED
    BY <1>1, <1>2, <1>3, <1>4, <1>5, <1>6, <1>7

\* Trying one slot's lock keeps the invariant.
LEMMA TryLockKeeps ==
    ASSUME NEW h \in Holders, IInv, TryLock(h)
    PROVE  IInv'
  <1> USE DEF IInv, TryLock, LockIsFree, LastSlot
  <1>1. TypeOK'
    <2>1. at[h] # NSlots - 1 => at[h] + 1 \in Slots
      <3>1. at[h] \in Slots
        BY DEF TypeOK
      <3> QED
        BY <3>1, CacheSlotsAssumption DEF Slots
    <2>2. at' \in [Holders -> Slots]
      BY <2>1 DEF TypeOK
    <2>3. faults' \in 0 .. MaxFaults
      BY CacheSlotsAssumption DEF TypeOK
    <2>4. pc' \in [Holders -> PCs] /\ lock' \in [Slots -> Holders \cup {NoHolder}]
      BY DEF TypeOK, PCs
    <2> QED
      BY <2>2, <2>3, <2>4 DEF TypeOK
  <1>2. Locked'
    BY CacheSlotsAssumption DEF TypeOK, Locked, NoLockLeft
  <1>3. SimsAreRun'
    BY DEF TypeOK, SimsAreRun
  <1>4. InUseMeansMarked'
    BY DEF TypeOK, SimsAreRun, InUseMeansMarked, MarkedMeansSettled, BaseIsMarked
  <1>5. MarkedMeansSettled'
    BY DEF TypeOK, Locked, NoLockLeft, InUseMeansMarked, MarkedMeansSettled
  <1>6. BaseIsMarked'
    BY DEF TypeOK, BaseIsMarked
  <1>7. OrphansAreFaults'
    BY DEF TypeOK, OrphansAreFaults
  <1> QED
    BY <1>1, <1>2, <1>3, <1>4, <1>5, <1>6, <1>7

\* Starting the copy, finding it done or failing to start it keeps the invariant.
LEMMA ProvisionKeeps ==
    ASSUME NEW h \in Holders, IInv, Provision(h)
    PROVE  IInv'
  <1> USE DEF IInv, Provision, GiveUp, ReleasedBy, IsReady, NameIsFree
  <1>1. TypeOK'
    BY CacheSlotsAssumption DEF TypeOK, PCs
  <1>2. Locked'
    BY CacheSlotsAssumption DEF TypeOK, Locked, NoLockLeft
  <1>3. SimsAreRun'
    BY DEF TypeOK, SimsAreRun
  <1>4. InUseMeansMarked'
    BY DEF TypeOK, SimsAreRun, InUseMeansMarked, MarkedMeansSettled, BaseIsMarked
  <1>5. MarkedMeansSettled'
    BY DEF TypeOK, Locked, NoLockLeft, InUseMeansMarked, MarkedMeansSettled
  <1>6. BaseIsMarked'
    BY DEF TypeOK, BaseIsMarked
  <1>7. OrphansAreFaults'
    BY DEF TypeOK, OrphansAreFaults
  <1> QED
    BY <1>1, <1>2, <1>3, <1>4, <1>5, <1>6, <1>7

\* The end of the copy's supervision keeps the invariant.
LEMMA SuperviseCopyKeeps ==
    ASSUME NEW h \in Holders, IInv, SuperviseCopy(h)
    PROVE  IInv'
  <1> USE DEF IInv, SuperviseCopy, CopyWorked
  <1>1. TypeOK'
    BY CacheSlotsAssumption DEF TypeOK, PCs
  <1>2. Locked'
    BY CacheSlotsAssumption DEF TypeOK, Locked, NoLockLeft
  <1>3. SimsAreRun'
    BY DEF TypeOK, SimsAreRun
  <1>4. InUseMeansMarked'
    BY DEF TypeOK, SimsAreRun, InUseMeansMarked, MarkedMeansSettled, BaseIsMarked
  <1>5. MarkedMeansSettled'
    BY DEF TypeOK, Locked, NoLockLeft, InUseMeansMarked, MarkedMeansSettled
  <1>6. BaseIsMarked'
    BY DEF TypeOK, BaseIsMarked
  <1>7. OrphansAreFaults'
    BY DEF TypeOK, OrphansAreFaults
  <1> QED
    BY <1>1, <1>2, <1>3, <1>4, <1>5, <1>6, <1>7

\* The copy container's teardown, whatever it achieves, keeps the invariant.
LEMMA TeardownCopyKeeps ==
    ASSUME NEW h \in Holders, IInv, TeardownCopy(h)
    PROVE  IInv'
  <1> USE DEF IInv, TeardownCopy, GiveUp, ReleasedBy
  <1>1. TypeOK'
    BY CacheSlotsAssumption DEF TypeOK, PCs
  <1>2. Locked'
    BY CacheSlotsAssumption DEF TypeOK, Locked, NoLockLeft
  <1>3. SimsAreRun'
    BY DEF TypeOK, SimsAreRun
  <1>4. InUseMeansMarked'
    BY DEF TypeOK, SimsAreRun, InUseMeansMarked, MarkedMeansSettled, BaseIsMarked
  <1>5. MarkedMeansSettled'
    BY DEF TypeOK, Locked, NoLockLeft, InUseMeansMarked, MarkedMeansSettled
  <1>6. BaseIsMarked'
    BY DEF TypeOK, BaseIsMarked
  <1>7. OrphansAreFaults'
    BY DEF TypeOK, OrphansAreFaults
  <1> QED
    BY <1>1, <1>2, <1>3, <1>4, <1>5, <1>6, <1>7

\* Writing the marker keeps the invariant.
LEMMA MarkKeeps ==
    ASSUME NEW h \in Holders, IInv, Mark(h)
    PROVE  IInv'
  <1> USE DEF IInv, Mark, GiveUp, ReleasedBy
  <1>1. TypeOK'
    <2>1. marker' = [marker EXCEPT ![at[h]] = TRUE] \/ marker' = marker
      BY Zenon
    <2>2. marker' \in [Slots -> BOOLEAN]
      BY <2>1, Zenon DEF TypeOK
    <2>3. faults' \in 0 .. MaxFaults
      BY CacheSlotsAssumption DEF TypeOK
    <2>4. pc' \in [Holders -> PCs] /\ lock' \in [Slots -> Holders \cup {NoHolder}]
      BY DEF TypeOK, PCs
    <2> QED
      BY <2>2, <2>3, <2>4 DEF TypeOK
  <1>2. Locked'
    BY CacheSlotsAssumption DEF TypeOK, Locked, NoLockLeft
  <1>3. SimsAreRun'
    BY DEF TypeOK, SimsAreRun
  <1>4. InUseMeansMarked'
    BY DEF TypeOK, SimsAreRun, InUseMeansMarked, MarkedMeansSettled, BaseIsMarked
  <1>5. MarkedMeansSettled'
    BY DEF TypeOK, Locked, NoLockLeft, InUseMeansMarked, MarkedMeansSettled
  <1>6. BaseIsMarked'
    <2>1. 0 \in Slots
      BY CacheSlotsAssumption DEF Slots
    <2>2. marker'[0]
      BY <2>1 DEF TypeOK, BaseIsMarked
    <2> QED
      BY <2>2 DEF TypeOK, BaseIsMarked
  <1>7. OrphansAreFaults'
    BY DEF TypeOK, OrphansAreFaults
  <1> QED
    BY <1>1, <1>2, <1>3, <1>4, <1>5, <1>6, <1>7

\* The sim's start keeps the invariant.
LEMMA StartSimKeeps ==
    ASSUME NEW h \in Holders, IInv, StartSim(h)
    PROVE  IInv'
  <1> USE DEF IInv, StartSim
  <1>1. TypeOK'
    BY CacheSlotsAssumption DEF TypeOK, PCs
  <1>2. Locked'
    BY CacheSlotsAssumption DEF TypeOK, Locked, NoLockLeft
  <1>3. SimsAreRun'
    BY DEF TypeOK, SimsAreRun
  <1>4. InUseMeansMarked'
    BY DEF TypeOK, SimsAreRun, InUseMeansMarked, MarkedMeansSettled, BaseIsMarked
  <1>5. MarkedMeansSettled'
    BY DEF TypeOK, Locked, NoLockLeft, InUseMeansMarked, MarkedMeansSettled
  <1>6. BaseIsMarked'
    BY DEF TypeOK, BaseIsMarked
  <1>7. OrphansAreFaults'
    BY DEF TypeOK, OrphansAreFaults
  <1> QED
    BY <1>1, <1>2, <1>3, <1>4, <1>5, <1>6, <1>7

\* The end of the sim's supervision keeps the invariant.
LEMMA SuperviseSimKeeps ==
    ASSUME NEW h \in Holders, IInv, SuperviseSim(h)
    PROVE  IInv'
  <1> USE DEF IInv, SuperviseSim, SuperviseEnds
  <1>1. TypeOK'
    BY CacheSlotsAssumption DEF TypeOK, PCs
  <1>2. Locked'
    BY CacheSlotsAssumption DEF TypeOK, Locked, NoLockLeft
  <1>3. SimsAreRun'
    BY DEF TypeOK, SimsAreRun
  <1>4. InUseMeansMarked'
    BY DEF TypeOK, SimsAreRun, InUseMeansMarked, MarkedMeansSettled, BaseIsMarked
  <1>5. MarkedMeansSettled'
    BY DEF TypeOK, Locked, NoLockLeft, InUseMeansMarked, MarkedMeansSettled
  <1>6. BaseIsMarked'
    BY DEF TypeOK, BaseIsMarked
  <1>7. OrphansAreFaults'
    BY DEF TypeOK, OrphansAreFaults
  <1> QED
    BY <1>1, <1>2, <1>3, <1>4, <1>5, <1>6, <1>7

\* The sim's teardown, whatever it achieves, keeps the invariant.
LEMMA TeardownKeeps ==
    ASSUME NEW h \in Holders, IInv, Teardown(h)
    PROVE  IInv'
  <1> USE DEF IInv, Teardown
  <1>1. TypeOK'
    <2>1. orphans' \in [Slots -> 0 .. MaxFaults] /\ faults' \in 0 .. MaxFaults
      BY CacheSlotsAssumption DEF TypeOK, OrphansAreFaults
    <2>2. /\ pc' \in [Holders -> PCs]
          /\ sim' \in [Holders -> {"absent", "running", "exited"}]
          /\ lock' \in [Slots -> Holders \cup {NoHolder}]
      BY DEF TypeOK, PCs
    <2> QED
      BY <2>1, <2>2 DEF TypeOK
  <1>2. Locked'
    BY CacheSlotsAssumption DEF TypeOK, Locked, NoLockLeft
  <1>3. SimsAreRun'
    BY DEF TypeOK, SimsAreRun
  <1>4. InUseMeansMarked'
    BY DEF TypeOK, SimsAreRun, InUseMeansMarked, MarkedMeansSettled, BaseIsMarked
  <1>5. MarkedMeansSettled'
    BY DEF TypeOK, Locked, NoLockLeft, InUseMeansMarked, MarkedMeansSettled
  <1>6. BaseIsMarked'
    BY DEF TypeOK, BaseIsMarked
  <1>7. OrphansAreFaults'
    BY DEF TypeOK, OrphansAreFaults
  <1> QED
    BY <1>1, <1>2, <1>3, <1>4, <1>5, <1>6, <1>7

\* Giving the lease back keeps the invariant.
LEMMA ReleaseKeeps ==
    ASSUME NEW h \in Holders, IInv, Release(h)
    PROVE  IInv'
  <1> USE DEF IInv, Release, GiveUp, ReleasedBy
  <1>1. TypeOK'
    BY CacheSlotsAssumption DEF TypeOK, PCs
  <1>2. Locked'
    BY CacheSlotsAssumption DEF TypeOK, Locked, NoLockLeft
  <1>3. SimsAreRun'
    BY DEF TypeOK, SimsAreRun
  <1>4. InUseMeansMarked'
    BY DEF TypeOK, SimsAreRun, InUseMeansMarked, MarkedMeansSettled, BaseIsMarked
  <1>5. MarkedMeansSettled'
    BY DEF TypeOK, Locked, NoLockLeft, InUseMeansMarked, MarkedMeansSettled
  <1>6. BaseIsMarked'
    BY DEF TypeOK, BaseIsMarked
  <1>7. OrphansAreFaults'
    BY DEF TypeOK, OrphansAreFaults
  <1> QED
    BY <1>1, <1>2, <1>3, <1>4, <1>5, <1>6, <1>7

\* A crash at any point keeps the invariant.
LEMMA CrashKeeps ==
    ASSUME NEW h \in Holders, IInv, Crash(h)
    PROVE  IInv'
  <1> USE DEF IInv, Crash
  <1>1. TypeOK'
    <2>1. orphans' \in [Slots -> 0 .. MaxFaults] /\ faults' \in 0 .. MaxFaults
      BY CacheSlotsAssumption DEF TypeOK, OrphansAreFaults
    <2>2. /\ pc' \in [Holders -> PCs]
          /\ sim' \in [Holders -> {"absent", "running", "exited"}]
          /\ lock' \in [Slots -> Holders \cup {NoHolder}]
      BY DEF TypeOK, PCs
    <2> QED
      BY <2>1, <2>2 DEF TypeOK
  <1>2. Locked'
    BY CacheSlotsAssumption DEF TypeOK, Locked, NoLockLeft
  <1>3. SimsAreRun'
    BY DEF TypeOK, SimsAreRun
  <1>4. InUseMeansMarked'
    BY DEF TypeOK, SimsAreRun, InUseMeansMarked, MarkedMeansSettled, BaseIsMarked
  <1>5. MarkedMeansSettled'
    BY DEF TypeOK, Locked, NoLockLeft, InUseMeansMarked, MarkedMeansSettled
  <1>6. BaseIsMarked'
    BY DEF TypeOK, BaseIsMarked
  <1>7. OrphansAreFaults'
    BY DEF TypeOK, OrphansAreFaults
  <1> QED
    BY <1>1, <1>2, <1>3, <1>4, <1>5, <1>6, <1>7

\* A sim's own exit keeps the invariant.
LEMMA SimExitsKeeps ==
    ASSUME NEW h \in Holders, IInv, SimExits(h)
    PROVE  IInv'
  <1> USE DEF IInv, SimExits
  <1>1. TypeOK'
    BY CacheSlotsAssumption DEF TypeOK, PCs
  <1>2. Locked'
    BY CacheSlotsAssumption DEF TypeOK, Locked, NoLockLeft
  <1>3. SimsAreRun'
    BY DEF TypeOK, SimsAreRun
  <1>4. InUseMeansMarked'
    BY DEF TypeOK, SimsAreRun, InUseMeansMarked, MarkedMeansSettled, BaseIsMarked
  <1>5. MarkedMeansSettled'
    BY DEF TypeOK, Locked, NoLockLeft, InUseMeansMarked, MarkedMeansSettled
  <1>6. BaseIsMarked'
    BY DEF TypeOK, BaseIsMarked
  <1>7. OrphansAreFaults'
    BY DEF TypeOK, OrphansAreFaults
  <1> QED
    BY <1>1, <1>2, <1>3, <1>4, <1>5, <1>6, <1>7

\* The exit of a sim nobody supervises keeps the invariant.
LEMMA OrphanExitsKeeps ==
    ASSUME NEW s \in Slots, IInv, OrphanExits(s)
    PROVE  IInv'
  <1> USE DEF IInv, OrphanExits
  <1>1. TypeOK'
    BY CacheSlotsAssumption DEF TypeOK, PCs
  <1>2. Locked'
    BY CacheSlotsAssumption DEF TypeOK, Locked, NoLockLeft
  <1>3. SimsAreRun'
    BY DEF TypeOK, SimsAreRun
  <1>4. InUseMeansMarked'
    BY DEF TypeOK, SimsAreRun, InUseMeansMarked, MarkedMeansSettled, BaseIsMarked
  <1>5. MarkedMeansSettled'
    BY DEF TypeOK, Locked, NoLockLeft, InUseMeansMarked, MarkedMeansSettled
  <1>6. BaseIsMarked'
    BY DEF TypeOK, BaseIsMarked
  <1>7. OrphansAreFaults'
    BY DEF TypeOK, OrphansAreFaults
  <1> QED
    BY <1>1, <1>2, <1>3, <1>4, <1>5, <1>6, <1>7

\* The end of a copy keeps the invariant.
LEMMA CopyExitsKeeps ==
    ASSUME NEW s \in Slots, IInv, CopyExits(s)
    PROVE  IInv'
  <1> USE DEF IInv, CopyExits
  <1>1. TypeOK'
    BY CacheSlotsAssumption DEF TypeOK, PCs
  <1>2. Locked'
    BY CacheSlotsAssumption DEF TypeOK, Locked, NoLockLeft
  <1>3. SimsAreRun'
    BY DEF TypeOK, SimsAreRun
  <1>4. InUseMeansMarked'
    BY DEF TypeOK, SimsAreRun, InUseMeansMarked, MarkedMeansSettled, BaseIsMarked
  <1>5. MarkedMeansSettled'
    BY DEF TypeOK, Locked, NoLockLeft, InUseMeansMarked, MarkedMeansSettled
  <1>6. BaseIsMarked'
    BY DEF TypeOK, BaseIsMarked
  <1>7. OrphansAreFaults'
    BY DEF TypeOK, OrphansAreFaults
  <1> QED
    BY <1>1, <1>2, <1>3, <1>4, <1>5, <1>6, <1>7

\* Every step keeps the invariant.
LEMMA StepKeeps == IInv /\ [Next]_vars => IInv'
  <1> SUFFICES ASSUME IInv, [Next]_vars PROVE IInv'
    OBVIOUS
  <1>1. CASE UNCHANGED vars
    BY <1>1 DEF IInv, TypeOK, Locked, NoLockLeft, SimsAreRun, InUseMeansMarked,
                MarkedMeansSettled, BaseIsMarked, OrphansAreFaults
  <1>2. ASSUME NEW h \in Holders, Begin(h) \/ CaseRun(h) \/ Crash(h) \/ SimExits(h)
        PROVE  IInv'
    BY <1>2, BeginKeeps, TryLockKeeps, ProvisionKeeps, SuperviseCopyKeeps, TeardownCopyKeeps,
       MarkKeeps, StartSimKeeps, SuperviseSimKeeps, TeardownKeeps, ReleaseKeeps, CrashKeeps,
       SimExitsKeeps DEF CaseRun
  <1>3. ASSUME NEW s \in Slots, OrphanExits(s) \/ CopyExits(s)
        PROVE  IInv'
    BY <1>3, OrphanExitsKeeps, CopyExitsKeeps
  <1> QED
    BY <1>1, <1>2, <1>3 DEF Next

\* The inductive invariant holds throughout.
LEMMA Invariance == Spec => []IInv
  BY Initially, StepKeeps, PTL DEF Spec

-----------------------------------------------------------------------------
(* The theorems.                                                           *)

\* The types of the variables are kept for any number of case runs and slots.
THEOREM TypeCorrect == Spec => []TypeOK
  <1>1. IInv => TypeOK
    BY DEF IInv
  <1> QED
    BY <1>1, Invariance, PTL

\* Supervised sims are alone on their trees, because their holders' locks are.
LEMMA InstancesAreAlone == IInv => OneInstancePerTree
  <1> SUFFICES ASSUME IInv, NEW g \in Holders, NEW h \in Holders,
                      sim[g] = "running", sim[h] = "running", at[g] = at[h]
               PROVE  g = h
    BY DEF OneInstancePerTree
  <1>1. lock[at[g]] = g /\ lock[at[h]] = h
    BY DEF IInv, SimsAreRun, Locked
  <1> QED
    BY <1>1

\* No two supervised Isaac instances ever share a cache tree (_lease_cache_slot).
THEOREM OneInstancePerTreeAlways == Spec => []OneInstancePerTree
  BY InstancesAreAlone, Invariance, PTL

\* No path out of a case run, a crash included, leaves its slot locked.
THEOREM LocksAreReturned == Spec => []NoLockLeft
  <1>1. IInv => NoLockLeft
    BY DEF IInv, Locked
  <1> QED
    BY <1>1, Invariance, PTL

\* A slot's ready marker vouches for a warm tree (_provision_slot).
THEOREM MarkerIsHonest == Spec => []MarkerMeansWarm
  <1>1. IInv => MarkerMeansWarm
    BY DEF IInv, MarkedMeansSettled, MarkerMeansWarm
  <1> QED
    BY <1>1, Invariance, PTL

\* No sim's tree, supervised or orphaned, is copied over or cold under it.
THEOREM TreesStayIntact == Spec => []SimTreeIntact
  <1>1. IInv => SimTreeIntact
    BY DEF IInv, TypeOK, InUseMeansMarked, MarkedMeansSettled, SimTreeIntact
  <1> QED
    BY <1>1, Invariance, PTL

-----------------------------------------------------------------------------
(* The slots implement the leases of TreeLease.tla.                        *)

\* What the refinement mapping gives for the trees that are ready and for the holders
\* whose Isaac runs.
Ready == {s \in Slots : marker[s] /\ tree[s] = "warm" /\ copier[s] # "copying"}
Using == {h \in Holders : sim[h] = "running"}

\* Ready is what is marked.
LEMMA ReadyIsMarked == ASSUME IInv PROVE Ready = {s \in Slots : marker[s]}
  BY DEF IInv, MarkedMeansSettled, Ready

\* A step that leaves the markers alone leaves the ready trees as they are.
LEMMA ReadyKept == ASSUME IInv, IInv', marker' = marker PROVE Ready' = Ready
  <1>1. Ready = {s \in Slots : marker[s]}
    BY ReadyIsMarked
  <1>2. Ready' = {s \in Slots : marker'[s]}
    BY DEF IInv, MarkedMeansSettled, Ready
  <1> QED
    BY <1>1, <1>2

\* Who holds has the lock, and who has a lock holds.
LEMMA LockOf ==
    ASSUME IInv, NEW h \in Holders
    PROVE  /\ at[h] \in Slots
           /\ Holding(h) => lock[at[h]] = h
           /\ \A s \in Slots : lock[s] = h => Holding(h) /\ at[h] = s
  <1>1. h # NoHolder
    BY CacheSlotsAssumption
  <1> QED
    BY <1>1 DEF IInv, TypeOK, Locked, NoLockLeft

\* A holder without a running sim gives the lease back.
LEMMA ReturnsLease ==
    ASSUME IInv, NEW h \in Holders, Holding(h), h \notin Using,
           lock' = [lock EXCEPT ![at[h]] = NoHolder],
           Ready' = Ready, Using' = Using, orphans' = orphans
    PROVE  \E t \in Slots : Lease!Return(h, t)
  <1>1. at[h] \in Slots /\ lock[at[h]] = h
    BY LockOf
  <1>2. Lease!Return(h, at[h])
    BY <1>1 DEF Lease!Return, Ready, Using
  <1> QED
    BY <1>1, <1>2

\* What changes neither locks, markers, sims nor orphans is invisible.
LEMMA Invisible ==
    ASSUME IInv, IInv', UNCHANGED <<lock, marker, orphans>>, Using' = Using
    PROVE  UNCHANGED Lease!vars
  BY ReadyKept DEF Lease!vars, Ready, Using

\* The steps of a case run, one by one.
LEMMA CaseRunImplements ==
    ASSUME IInv, IInv', NEW h \in Holders, CaseRun(h)
    PROVE  Lease!Next \/ UNCHANGED Lease!vars
  <1>0. h # NoHolder /\ at[h] \in Slots /\ sim \in [Holders -> {"absent", "running", "exited"}]
    BY LockOf, CacheSlotsAssumption DEF IInv, TypeOK
  <1>1. CASE TryLock(h)
    <2>0. Ready' = Ready /\ Using' = Using
      BY <1>1, ReadyKept DEF TryLock, Using
    <2>1. CASE lock' = lock
      BY <1>1, <2>0, <2>1, Invisible DEF TryLock
    <2>2. CASE LockIsFree(at[h]) /\ lock' = [lock EXCEPT ![at[h]] = h]
      <3>1. \A u \in Slots : lock[u] # h
        BY <1>1, LockOf DEF TryLock
      <3>2. Lease!Take(h, at[h])
        BY <1>1, <2>0, <2>2, <3>1 DEF TryLock, LockIsFree, Lease!Take, Ready, Using
      <3> QED
        BY <1>0, <3>2 DEF Lease!Next
    <2> QED
      BY <1>1, <2>1, <2>2 DEF TryLock
  <1>2. ASSUME Holding(h), sim[h] # "running", marker' = marker, sim' = sim, orphans' = orphans,
               lock' = lock \/ GiveUp(h)
        PROVE  Lease!Next \/ UNCHANGED Lease!vars
    <2>1. Ready' = Ready /\ Using' = Using
      BY <1>2, ReadyKept DEF Using
    <2>2. CASE lock' = lock
      BY <1>2, <2>1, <2>2, Invisible
    <2>3. CASE GiveUp(h)
      <3>1. h \notin Using
        BY <1>2 DEF Using
      <3> QED
        BY <1>2, <2>1, <2>3, <3>1, ReturnsLease DEF GiveUp, ReleasedBy, Lease!Next
    <2> QED
      BY <1>2, <2>2, <2>3
  <1>a. pc[h] \notin {"running", "teardown"} => sim[h] # "running"
    BY DEF IInv, SimsAreRun
  <1>3. CASE Provision(h) \/ SuperviseCopy(h) \/ TeardownCopy(h) \/ Release(h)
    BY <1>2, <1>3, <1>a DEF Provision, SuperviseCopy, TeardownCopy, Release
  <1>4. CASE Mark(h)
    <2>1. CASE marker' = marker
      BY <1>2, <1>4, <1>a, <2>1 DEF Mark
    <2>2. CASE marker' = [marker EXCEPT ![at[h]] = TRUE] /\ lock' = lock
      <3>1. Ready = {s \in Slots : marker[s]} /\ Ready' = {s \in Slots : marker'[s]}
        BY ReadyIsMarked DEF IInv, MarkedMeansSettled, Ready
      <3>2. Ready' = Ready \cup {at[h]}
        BY <1>0, <2>2, <3>1 DEF IInv, TypeOK
      <3>3. lock[at[h]] = h /\ h \notin Using /\ Using' = Using
        BY <1>4, <1>a, LockOf DEF Mark, Using
      <3>t. \A t \in Slots : t = at[h] => Lease!Prepare(h, t)
        BY <1>4, <2>2, <3>2, <3>3 DEF Mark, Lease!Prepare, Ready, Using
      <3>5. \E g \in Holders, t \in Slots : Lease!Prepare(g, t)
        BY <1>0, <3>t
      <3> QED
        BY <3>5, Zenon DEF Lease!Next
    <2> QED
      BY <1>4, <2>1, <2>2 DEF Mark
  <1>5. CASE StartSim(h)
    <2>1. CASE sim' = sim
      BY <1>2, <1>5, <1>a, <2>1 DEF StartSim
    <2>2. CASE sim' = [sim EXCEPT ![h] = "running"]
      <3>1. Ready' = Ready /\ at[h] \in Ready
        BY <1>0, <1>5, ReadyKept, ReadyIsMarked DEF StartSim, IInv, InUseMeansMarked
      <3>2. lock[at[h]] = h /\ h \notin Using
        BY <1>5, <1>a, LockOf DEF StartSim, Using
      <3>3. Using' = Using \cup {h}
        BY <1>0, <2>2 DEF Using
      <3>t. \A t \in Slots : t = at[h] => Lease!Use(h, t)
        BY <1>5, <3>1, <3>2, <3>3 DEF StartSim, Lease!Use, Ready, Using
      <3>5. \E g \in Holders, t \in Slots : Lease!Use(g, t)
        BY <1>0, <3>t
      <3> QED
        BY <3>5, Zenon DEF Lease!Next
    <2> QED
      BY <1>5, <2>1, <2>2 DEF StartSim
  <1>6. CASE SuperviseSim(h)
    BY <1>6, Invisible DEF SuperviseSim, Using
  <1>7. CASE Teardown(h)
    <2>0. Ready' = Ready
      BY <1>7, ReadyKept DEF Teardown
    <2>1. CASE sim[h] # "running"
      <3>1. Using' = Using /\ orphans' = orphans
        BY <1>0, <1>7, <2>1 DEF Teardown, Using
      <3> QED
        BY <1>7, <3>1, Invisible DEF Teardown
    <2>2. CASE sim[h] = "running"
      <3>1. Using' = Using \ {h} /\ h \in Using
        BY <1>0, <1>7, <2>2 DEF Teardown, Using
      <3>2. orphans' \in {orphans, [orphans EXCEPT ![at[h]] = @ + 1]}
        BY <1>7 DEF Teardown
      <3>3. lock[at[h]] = h
        BY <1>7, LockOf DEF Teardown
      <3>4. Lease!End(h, at[h])
        BY <1>7, <2>0, <3>1, <3>2, <3>3 DEF Teardown, Lease!End, Lease!GivenUp, Ready, Using
      <3> QED
        BY <1>0, <3>4 DEF Lease!Next
    <2> QED
      BY <2>1, <2>2
  <1> QED
    BY <1>1, <1>3, <1>4, <1>5, <1>6, <1>7 DEF CaseRun

\* A crash gives back what is leased, and leaves the sim that runs behind.
LEMMA CrashImplements ==
    ASSUME IInv, IInv', NEW h \in Holders, Crash(h)
    PROVE  Lease!Next \/ UNCHANGED Lease!vars
  <1>0. at[h] \in Slots /\ sim \in [Holders -> {"absent", "running", "exited"}]
    BY LockOf DEF IInv, TypeOK
  <1>a. lock \in [Slots -> Holders \cup {NoHolder}]
    BY DEF IInv, TypeOK
  <1>1. Ready' = Ready
    BY ReadyKept DEF Crash
  <1>2. CASE ~Holding(h)
    <2>1. lock' = lock
      BY <1>2, <1>a, LockOf DEF Crash
    <2>2. sim[h] = "absent"
      BY <1>0, <1>2 DEF IInv, SimsAreRun
    <2>3. Using' = Using /\ orphans' = orphans
      BY <1>0, <2>2 DEF Crash, Using
    <2> QED
      BY <2>1, <2>3, Invisible DEF Crash
  <1>3. CASE Holding(h)
    <2>1. lock[at[h]] = h /\ \A s \in Slots : lock[s] = h => s = at[h]
      BY <1>3, LockOf
    <2>2. lock' = [lock EXCEPT ![at[h]] = NoHolder]
      BY <1>0, <1>a, <2>1 DEF Crash
    <2>3. CASE sim[h] # "running"
      <3>1. Using' = Using /\ orphans' = orphans /\ h \notin Using
        BY <1>0, <2>3 DEF Crash, Using
      <3> QED
        BY <1>1, <1>3, <2>2, <3>1, ReturnsLease DEF Lease!Next
    <2>4. CASE sim[h] = "running"
      <3>1. Using' = Using \ {h} /\ h \in Using
        BY <1>0, <2>4 DEF Crash, Using
      <3>2. orphans' = [orphans EXCEPT ![at[h]] = @ + 1]
        BY <2>4 DEF Crash
      <3>3. Lease!Return(h, at[h])
        BY <1>1, <2>1, <2>2, <3>1, <3>2 DEF Lease!Return, Lease!GivenUp, Ready, Using
      <3> QED
        BY <1>0, <3>3 DEF Lease!Next
    <2> QED
      BY <2>3, <2>4
  <1> QED
    BY <1>2, <1>3

\* So does every other step, or it is invisible.
LEMMA StepImplements ==
    ASSUME IInv, IInv', [Next]_vars
    PROVE  [Lease!Next]_(Lease!vars)
  <1>1. CASE UNCHANGED vars
    BY <1>1, Invisible DEF Using
  <1>2. ASSUME NEW h \in Holders, Begin(h)
        PROVE  UNCHANGED Lease!vars
    BY <1>2, Invisible DEF Begin, Using
  <1>3. ASSUME NEW h \in Holders, SimExits(h)
        PROVE  Lease!Next
    <2>1. Ready' = Ready
      BY <1>3, ReadyKept DEF SimExits
    <2>2. Using' = Using \ {h} /\ h \in Using
      BY <1>3 DEF SimExits, Using, IInv, TypeOK
    <2>3. at[h] \in Slots /\ lock[at[h]] = h
      BY <1>3, LockOf DEF SimExits, IInv, SimsAreRun
    <2>4. Lease!End(h, at[h])
      BY <1>3, <2>1, <2>2, <2>3 DEF SimExits, Lease!End, Lease!GivenUp, Ready, Using
    <2> QED
      BY <2>3, <2>4 DEF Lease!Next
  <1>4. ASSUME NEW s \in Slots, OrphanExits(s)
        PROVE  Lease!Next
    <2>1. Ready' = Ready /\ Using' = Using
      BY <1>4, ReadyKept DEF OrphanExits, Using
    <2>2. Lease!StrayEnds(s)
      BY <1>4, <2>1 DEF OrphanExits, Lease!StrayEnds, Ready, Using
    <2> QED
      BY <2>2 DEF Lease!Next
  <1>5. ASSUME NEW s \in Slots, CopyExits(s)
        PROVE  UNCHANGED Lease!vars
    BY <1>5, Invisible DEF CopyExits, Using
  <1> QED
    BY <1>1, <1>2, <1>3, <1>4, <1>5, CaseRunImplements, CrashImplements DEF Next

\* For any number of holders, slots and faults the slots are leases of trees: one holder a
\* tree, an Isaac only on a leased tree that is ready, and a ready tree stays ready.
THEOREM SlotsAreTreeLeases == Spec => ImplementsTreeLease
  <1>1. Init => Lease!Init
    <2> SUFFICES ASSUME Init PROVE Lease!Init
      OBVIOUS
    <2>1. IInv
      BY Initially
    <2>2. Ready = {0}
      <3>1. 0 \in Slots
        BY CacheSlotsAssumption DEF Slots
      <3>2. \A s \in Slots : marker[s] <=> s = 0
        BY Zenon DEF Init
      <3> QED
        BY <2>1, <3>1, <3>2, ReadyIsMarked
    <2>3. Using = {}
      BY DEF Init, Using
    <2> QED
      BY <2>2, <2>3 DEF Init, Lease!Init, Ready, Using
  <1> QED
    BY <1>1, StepImplements, Invariance, PTL DEF Spec, ImplementsTreeLease, Lease!Spec

-----------------------------------------------------------------------------
(* What the broken rule of execution.py:98 costs, and why case runs end.   *)

\* Isaac instances share a tree only after a fault, and one fault more for each that shares.
SharingIsAFault ==
    \A s \in Slots :
        Cardinality({h \in Holders : sim[h] = "running" /\ at[h] = s}) + orphans[s]
            <= 1 + faults

\* As long as nothing crashes and no teardown fails, InstancesNeverShare; each instance
\* that shares a tree beyond the first is the work of a fault of its own.
THEOREM OnlyFaultsShare ==
    Spec => [](SharingIsAFault /\ (faults = 0 => InstancesNeverShare))
  <1>1. IInv => OneInstancePerTree
    BY InstancesAreAlone
  <1>2. IInv /\ OneInstancePerTree => SharingIsAFault /\ (faults = 0 => InstancesNeverShare)
    <2> SUFFICES ASSUME IInv, OneInstancePerTree, NEW s \in Slots
                 PROVE  LET there == {h \in Holders : sim[h] = "running" /\ at[h] = s}
                        IN  /\ Cardinality(there) + orphans[s] <= 1 + faults
                            /\ faults = 0 => Cardinality(there) + orphans[s] <= 1
      BY DEF SharingIsAFault, InstancesNeverShare
    <2> DEFINE there == {h \in Holders : sim[h] = "running" /\ at[h] = s}
    <2>1. \A g, h \in there : g = h
      BY DEF OneInstancePerTree
    <2>2. Cardinality(there) \in 0 .. 1
      <3>1. CASE there = {}
        BY <3>1, FS_EmptySet
      <3>2. CASE there # {}
        <4>1. PICK h \in there : TRUE
          BY <3>2
        <4> HIDE DEF there
        <4>2. there = {h}
          BY <2>1, <4>1
        <4> QED
          BY <4>2, FS_Singleton
      <3> QED
        BY <3>1, <3>2
    <2>3. orphans[s] \in Nat /\ faults \in Nat /\ orphans[s] <= faults
      BY CacheSlotsAssumption DEF IInv, TypeOK, OrphansAreFaults
    <2> HIDE DEF there
    <2>4. /\ Cardinality(there) + orphans[s] <= 1 + faults
          /\ faults = 0 => Cardinality(there) + orphans[s] <= 1
      BY <2>2, <2>3
    <2> QED
      BY <2>4 DEF there
  <1> QED
    BY <1>1, <1>2, Invariance, PTL

\* How many steps of its own a case run has left at most, by where it is.
LeftAt(label, s) ==
    IF label = "scan" THEN 9 + NSlots - s
    ELSE [idle |-> 0, provision |-> 9, copying |-> 8, copied |-> 7, not_copied |-> 7,
          mark |-> 6, leased |-> 5, running |-> 4, teardown |-> 3, release |-> 2][label]
Left(h) == LeftAt(pc[h], at[h])

\* The values of LeftAt.
LEMMA LeftAtValues ==
    ASSUME NEW s \in Slots
    PROVE  /\ s \in 0 .. NSlots - 1 /\ NSlots \in Nat
           /\ LeftAt("idle", s) = 0 /\ LeftAt("scan", s) = 9 + NSlots - s
           /\ LeftAt("provision", s) = 9 /\ LeftAt("copying", s) = 8
           /\ LeftAt("copied", s) = 7 /\ LeftAt("not_copied", s) = 7 /\ LeftAt("mark", s) = 6
           /\ LeftAt("leased", s) = 5 /\ LeftAt("running", s) = 4
           /\ LeftAt("teardown", s) = 3 /\ LeftAt("release", s) = 2
  BY CacheSlotsAssumption DEF LeftAt, Slots

\* Where a step of a case run leads.
LEMMA CaseRunMoves ==
    ASSUME IInv, NEW h \in Holders, CaseRun(h)
    PROVE  \/ at'[h] = at[h] /\ LeftAt(pc'[h], at[h]) < LeftAt(pc[h], at[h])
           \/ pc[h] = "scan" /\ pc'[h] = "scan" /\ at'[h] = at[h] + 1
  <1>0. at[h] \in Slots /\ pc \in [Holders -> PCs] /\ at \in [Holders -> Slots]
    BY DEF IInv, TypeOK
  <1> USE LeftAtValues
  <1>1. CASE TryLock(h)
    <2>1. CASE pc'[h] = "scan"
      BY <1>0, <1>1, <2>1 DEF TryLock
    <2>2. CASE pc'[h] \in {"idle", "provision", "leased"} /\ at' = at
      BY <1>0, <1>1, <2>2 DEF TryLock
    <2> QED
      BY <1>0, <1>1, <2>1, <2>2 DEF TryLock
  <1>2. CASE Provision(h)
    BY <1>0, <1>2 DEF Provision, GiveUp
  <1>3. CASE SuperviseCopy(h)
    BY <1>0, <1>3 DEF SuperviseCopy
  <1>4. CASE TeardownCopy(h)
    BY <1>0, <1>4 DEF TeardownCopy, GiveUp
  <1>5. CASE Mark(h)
    BY <1>0, <1>5 DEF Mark, GiveUp
  <1>6. CASE StartSim(h) \/ SuperviseSim(h) \/ Teardown(h)
    BY <1>0, <1>6 DEF StartSim, SuperviseSim, Teardown
  <1>7. CASE Release(h)
    BY <1>0, <1>7 DEF Release, GiveUp
  <1> QED
    BY <1>1, <1>2, <1>3, <1>4, <1>5, <1>6, <1>7 DEF CaseRun

\* A holder's place only changes by its own steps.
LEMMA OthersStay ==
    ASSUME IInv, [Next]_vars, NEW h \in Holders, ~Begin(h), ~CaseRun(h)
    PROVE  at'[h] = at[h] /\ (pc'[h] = pc[h] \/ pc'[h] = "idle")
  <1>0. pc \in [Holders -> PCs] /\ at \in [Holders -> Slots]
    BY DEF IInv, TypeOK
  <1>1. CASE UNCHANGED vars
    BY <1>1
  <1>2. ASSUME NEW g \in Holders, Begin(g) \/ CaseRun(g) \/ Crash(g) \/ SimExits(g)
        PROVE  at'[h] = at[h] /\ (pc'[h] = pc[h] \/ pc'[h] = "idle")
    <2>1. CASE Crash(g) \/ SimExits(g)
      BY <1>0, <2>1 DEF Crash, SimExits
    <2>2. CASE (Begin(g) \/ CaseRun(g)) /\ g # h
      <3>1. pc'[h] = pc[h]
        BY <1>0, <2>2 DEF Begin, CaseRun, TryLock, Provision, SuperviseCopy, TeardownCopy, Mark,
           StartSim, SuperviseSim, Teardown, Release, GiveUp
      <3>2. at'[h] = at[h]
        BY <1>0, <2>2 DEF Begin, CaseRun, TryLock, Provision, SuperviseCopy, TeardownCopy, Mark,
           StartSim, SuperviseSim, Teardown, Release
      <3> QED
        BY <3>1, <3>2
    <2> QED
      BY <1>2, <2>1, <2>2
  <1>3. ASSUME NEW s \in Slots, OrphanExits(s) \/ CopyExits(s)
        PROVE  at'[h] = at[h] /\ pc'[h] = pc[h]
    BY <1>3 DEF OrphanExits, CopyExits
  <1> QED
    BY <1>1, <1>2, <1>3 DEF Next

\* There are at most 9 steps and one for each slot; each is one less, and nobody else's
\* step is one more.
StepsRunOut ==
    [][\A h \in Holders :
         /\ Left(h) <= NSlots + 9
         /\ CaseRun(h) => Left(h)' < Left(h)
         /\ pc[h] # "idle" => Left(h)' <= Left(h)]_vars

\* A case run has a bounded number of steps, whatever the other holders, the daemon and the
\* faults do meanwhile: what EveryRunEnds needs besides the fairness of its steps.
THEOREM CaseRunsAreShort == Spec => StepsRunOut
  <1>1. ASSUME IInv, IInv', [Next]_vars, NEW h \in Holders
        PROVE  /\ Left(h) <= NSlots + 9
               /\ CaseRun(h) => Left(h)' < Left(h)
               /\ pc[h] # "idle" => Left(h)' <= Left(h)
    <2>0. /\ at[h] \in Slots /\ at'[h] \in Slots /\ pc[h] \in PCs /\ pc'[h] \in PCs
      BY <1>1 DEF IInv, TypeOK
    <2>1. /\ at[h] \in 0 .. NSlots - 1 /\ NSlots \in Nat
          /\ LeftAt("scan", at[h]) = 9 + NSlots - at[h]
          /\ LeftAt("scan", at'[h]) = 9 + NSlots - at'[h]
          /\ LeftAt("idle", at'[h]) = 0
      BY <2>0, LeftAtValues
    <2>2. LeftAt(pc[h], at[h]) \in Nat /\ LeftAt(pc[h], at[h]) <= NSlots + 9
      BY <2>0, LeftAtValues DEF PCs
    <2>3. pc[h] # "scan" => LeftAt(pc[h], at'[h]) = LeftAt(pc[h], at[h])
      BY DEF LeftAt
    <2>4. Left(h) = LeftAt(pc[h], at[h]) /\ Left(h)' = LeftAt(pc'[h], at'[h])
      BY DEF Left
    <2>5. CASE CaseRun(h)
      <3>1. CASE at'[h] = at[h] /\ LeftAt(pc'[h], at[h]) < LeftAt(pc[h], at[h])
        <4>1. LeftAt(pc'[h], at[h]) \in Nat
          BY <2>0, LeftAtValues DEF PCs
        <4> QED
          BY <2>2, <2>4, <3>1, <4>1
      <3>2. CASE pc[h] = "scan" /\ pc'[h] = "scan" /\ at'[h] = at[h] + 1
        BY <2>1, <2>2, <2>4, <3>2
      <3> QED
        BY <1>1, <2>5, <3>1, <3>2, CaseRunMoves
    <2>6. CASE ~CaseRun(h) /\ pc[h] # "idle"
      <3>1. ~Begin(h)
        BY <2>6 DEF Begin
      <3>2. at'[h] = at[h] /\ (pc'[h] = pc[h] \/ pc'[h] = "idle")
        BY <1>1, <2>6, <3>1, OthersStay
      <3> QED
        BY <2>1, <2>2, <2>4, <2>6, <3>2
    <2>7. CASE ~CaseRun(h) /\ pc[h] = "idle"
      BY <2>2, <2>4, <2>7
    <2> QED
      BY <2>5, <2>6, <2>7
  <1>2. IInv /\ IInv' /\ [Next]_vars =>
          [\A h \in Holders :
             /\ Left(h) <= NSlots + 9
             /\ CaseRun(h) => Left(h)' < Left(h)
             /\ pc[h] # "idle" => Left(h)' <= Left(h)]_vars
    BY <1>1
  <1> QED
    BY <1>2, Invariance, PTL DEF Spec, StepsRunOut

-----------------------------------------------------------------------------
(* How many slots so many case runs need.                                  *)

\* The case runs in flight that lease slot k, or have found the slots before it leased.
Beyond(k) == {h \in Holders : pc[h] # "idle" /\ at[h] >= k}

\* Whoever is that far leaves a case run of its own behind for each slot before, even if
\* the lease it ran into has been given back since and its holder scans anew.
Spread ==
    \A k \in Slots : Beyond(k) # {} => Cardinality(Beyond(k)) + k <= Cardinality(Holders)

\* Case runs never lease, and so never copy, more slots than there may be case runs in
\* flight; and if there are enough slots, none is refused for want of one, although the
\* scan looks at one slot after the other.
SlotsSuffice ==
    /\ \A h \in Holders : pc[h] # "idle" => at[h] < Cardinality(Holders)
    /\ Cardinality(Holders) <= NSlots =>
         \A h \in Holders : pc[h] = "scan" /\ at[h] = LastSlot => LockIsFree(at[h])

\* The case runs at a slot or beyond are finitely many.
LEMMA BeyondIsFinite ==
    ASSUME IsFiniteSet(Holders), NEW k \in Int
    PROVE  /\ IsFiniteSet(Beyond(k)) /\ Cardinality(Beyond(k)) \in Nat
           /\ Cardinality(Beyond(k)) <= Cardinality(Holders)
  <1>1. Beyond(k) \subseteq Holders
    BY DEF Beyond
  <1> QED
    BY <1>1, FS_Subset, FS_CardinalityType

\* One that goes on to slot k leaves the holder of the slot before behind.
LEMMA HolderIsLeftBehind ==
    ASSUME IInv, NEW h \in Holders, pc[h] = "scan", ~LockIsFree(at[h])
    PROVE  \E g \in Holders : g # h /\ pc[g] # "idle" /\ at[g] = at[h]
  <1>1. at[h] \in Slots /\ lock[at[h]] \in Holders
    BY DEF IInv, TypeOK, LockIsFree
  <1>2. Holding(lock[at[h]]) /\ at[lock[at[h]]] = at[h]
    BY <1>1, CacheSlotsAssumption DEF IInv, Locked, NoLockLeft
  <1>3. lock[at[h]] # h /\ pc[lock[at[h]]] # "idle"
    BY <1>2
  <1> QED
    BY <1>1, <1>2, <1>3

\* Only a step past a leased slot adds a case run to those at slot k or beyond.
LEMMA SpreadKept ==
    ASSUME IsFiniteSet(Holders), IInv, IInv', Spread, [Next]_vars
    PROVE  Spread'
  <1> SUFFICES ASSUME NEW k \in Slots, Beyond(k)' # {}
               PROVE  Cardinality(Beyond(k)') + k <= Cardinality(Holders)
    BY DEF Spread
  <1>0. /\ k \in Nat /\ Cardinality(Holders) \in Nat
        /\ pc \in [Holders -> PCs] /\ at \in [Holders -> Slots]
        /\ \A g \in Holders : at[g] \in Nat /\ at[g] \in Slots
    <2>1. \A s \in Slots : s \in Nat
      BY DEF Slots
    <2>2. pc \in [Holders -> PCs] /\ at \in [Holders -> Slots]
      BY DEF IInv, TypeOK
    <2> QED
      BY <2>1, <2>2, FS_CardinalityType
  <1>1. CASE Beyond(k)' \subseteq Beyond(k)
    <2>1. Cardinality(Beyond(k)') <= Cardinality(Beyond(k)) /\ Beyond(k) # {}
      BY <1>0, <1>1, BeyondIsFinite, FS_Subset
    <2>2. Cardinality(Beyond(k)) + k <= Cardinality(Holders)
      BY <2>1 DEF Spread
    <2>3. Cardinality(Beyond(k)) \in Nat /\ Cardinality(Beyond(k)') \in Nat
      BY <1>0, <1>1, BeyondIsFinite, FS_Subset, FS_CardinalityType
    <2> QED
      BY <1>0, <2>1, <2>2, <2>3
  <1>2. CASE k = 0
    <2>1. Beyond(k)' \subseteq Holders
      BY DEF Beyond
    <2>2. Cardinality(Beyond(k)') <= Cardinality(Holders) /\ Cardinality(Beyond(k)') \in Nat
      BY <2>1, FS_Subset, FS_CardinalityType
    <2> QED
      BY <1>0, <1>2, <2>2
  <1>3. ASSUME NEW h \in Holders, pc[h] = "scan", ~LockIsFree(at[h]), pc' = pc,
               at' = [at EXCEPT ![h] = @ + 1]
        PROVE  Cardinality(Beyond(k)') + k <= Cardinality(Holders) \/ Beyond(k)' \subseteq Beyond(k)
    <2>0. \A g \in Holders : at'[g] = (IF g = h THEN at[h] + 1 ELSE at[g]) /\ pc'[g] = pc[g]
      BY <1>0, <1>3
    <2>1. CASE k # at[h] + 1
      BY <1>0, <1>3, <2>0, <2>1 DEF Beyond
    <2>2. CASE k = at[h] + 1
      <3>1. PICK g \in Holders : g # h /\ pc[g] # "idle" /\ at[g] = at[h]
        BY <1>3, HolderIsLeftBehind
      <3>2. g \in Beyond(at[h]) /\ g \notin Beyond(k)'
        BY <1>0, <2>0, <2>2, <3>1 DEF Beyond
      <3>3. Beyond(k)' \subseteq Beyond(at[h]) \ {g}
        BY <1>0, <1>3, <2>0, <2>2, <3>2 DEF Beyond
      <3>4. /\ IsFiniteSet(Beyond(at[h]))
            /\ Cardinality(Beyond(at[h])) + at[h] <= Cardinality(Holders)
        BY <1>0, <3>2, BeyondIsFinite DEF Spread
      <3>5. /\ Cardinality(Beyond(at[h]) \ {g}) = Cardinality(Beyond(at[h])) - 1
            /\ IsFiniteSet(Beyond(at[h]) \ {g})
        BY <3>2, <3>4, FS_RemoveElement
      <3>6. /\ Cardinality(Beyond(k)') <= Cardinality(Beyond(at[h]) \ {g})
            /\ Cardinality(Beyond(k)') \in Nat /\ Cardinality(Beyond(at[h])) \in Nat
        BY <3>3, <3>4, <3>5, FS_Subset, FS_CardinalityType
      <3> QED
        BY <1>0, <2>2, <3>4, <3>5, <3>6
    <2> QED
      BY <2>1, <2>2
  <1>4. ASSUME k # 0, \A h \in Holders : ~(/\ pc[h] = "scan" /\ ~LockIsFree(at[h]) /\ pc' = pc
                                   /\ at' = [at EXCEPT ![h] = @ + 1])
        PROVE  Beyond(k)' \subseteq Beyond(k)
    <2> SUFFICES ASSUME NEW h \in Holders, pc'[h] # "idle", at'[h] >= k
                 PROVE  pc[h] # "idle" /\ at[h] >= k
      BY DEF Beyond
    <2>1. ~Begin(h)
      BY <1>0, <1>4 DEF Begin
    <2>2. CASE ~CaseRun(h)
      BY <1>0, <2>1, <2>2, OthersStay
    <2>3. CASE CaseRun(h)
      <3>1. pc[h] # "idle"
        BY <2>3 DEF CaseRun, TryLock, Provision, SuperviseCopy, TeardownCopy, Mark, StartSim,
           SuperviseSim, Teardown, Release
      <3>2. CASE pc[h] = "scan" /\ pc'[h] = "scan" /\ at'[h] = at[h] + 1
        <4>1. TryLock(h)
          BY <2>3, <3>2 DEF CaseRun, TryLock, Provision, SuperviseCopy, TeardownCopy, Mark,
             StartSim, SuperviseSim, Teardown, Release
        <4>2. at' # at
          BY <1>0, <3>2
        <4> QED
          BY <1>4, <3>2, <4>1, <4>2 DEF TryLock
      <3> QED
        BY <1>0, <2>3, <3>1, <3>2, CaseRunMoves
    <2> QED
      BY <2>2, <2>3
  <1> QED
    BY <1>1, <1>2, <1>3, <1>4

\* MAX_CACHE_SLOTS is enough if it is not below what the processes of the host run at once;
\* and what they run at once bounds the copies on the disk.
THEOREM CaseRunsFindSlots == ASSUME IsFiniteSet(Holders) PROVE Spec => []SlotsSuffice
  <1>1. Init => Spread
    BY DEF Init, Spread, Beyond
  <1>2. IInv /\ IInv' /\ Spread /\ [Next]_vars => Spread'
    BY SpreadKept
  <1>3. IInv /\ Spread => SlotsSuffice
    <2> SUFFICES ASSUME IInv, Spread PROVE SlotsSuffice
      OBVIOUS
    <2>0. Cardinality(Holders) \in Nat /\ NSlots \in Nat /\ (\A s \in Slots : s \in Nat)
      BY CacheSlotsAssumption, FS_CardinalityType DEF Slots
    <2>1. ASSUME NEW h \in Holders, pc[h] # "idle"
          PROVE  /\ at[h] \in Slots /\ h \in Beyond(at[h])
                 /\ Cardinality(Beyond(at[h])) + at[h] <= Cardinality(Holders)
                 /\ IsFiniteSet(Beyond(at[h])) /\ Cardinality(Beyond(at[h])) \in Nat
      <3>1. at[h] \in Slots
        BY DEF IInv, TypeOK
      <3>2. h \in Beyond(at[h])
        BY <2>0, <2>1, <3>1 DEF Beyond
      <3> QED
        BY <2>0, <3>1, <3>2, BeyondIsFinite DEF Spread
    <2>2. ASSUME NEW h \in Holders, pc[h] # "idle" PROVE at[h] < Cardinality(Holders)
      <3>1. Cardinality(Beyond(at[h])) # 0
        BY <2>1, <2>2, FS_EmptySet
      <3> QED
        BY <2>0, <2>1, <2>2, <3>1
    <2>3. ASSUME Cardinality(Holders) <= NSlots,
                 NEW h \in Holders, pc[h] = "scan", at[h] = LastSlot, ~LockIsFree(at[h])
          PROVE  FALSE
      <3>1. PICK g \in Holders : g # h /\ pc[g] # "idle" /\ at[g] = at[h]
        BY <2>3, HolderIsLeftBehind
      <3>2. {g, h} \subseteq Beyond(at[h]) /\ Cardinality({g, h}) = 2
        <4>1. IsFiniteSet({g}) /\ Cardinality({g}) = 1
          BY FS_Singleton
        <4>2. h \notin {g} /\ 1 + 1 = 2
          BY <3>1
        <4>3. Cardinality({g} \cup {h}) = 2
          BY <4>1, <4>2, FS_AddElement
        <4>4. at[h] \in Nat /\ {g} \cup {h} = {g, h}
          BY <2>0, <2>1, <2>3
        <4> QED
          BY <2>3, <3>1, <4>3, <4>4 DEF Beyond
      <3>3. 2 <= Cardinality(Beyond(at[h]))
        BY <2>1, <2>3, <3>2, FS_Subset
      <3> QED
        BY <2>0, <2>1, <2>3, <3>3 DEF LastSlot
    <2> QED
      BY <2>2, <2>3 DEF SlotsSuffice
  <1> QED
    BY <1>1, <1>2, <1>3, Invariance, PTL DEF Spec
=============================================================================
