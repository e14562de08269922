--------------------------- MODULE CaseRunProofs ---------------------------
(***************************************************************************)
(* The safety of case runs for every number of processes at one case and   *)
(* every number of faults.                                                 *)
(***************************************************************************)
EXTENDS CaseRun, TLAPS

(* The inductive invariant.                                                *)

\* A container exists exactly when it has an owner.
Owned == \A k \in Kinds : box[k].owner = Nobody <=> box[k].state = "absent"

\* A container handle is live only while its run is supervised or cleaned up, and
\* handles are to what this attempt started.
Handles(p) ==
    /\ run[p].container =>
        /\ run[p].pc \in {"supervise", "cleanup", "dead"}
        /\ box[run[p].stage].owner = p
        /\ box[run[p].stage].attempt = run[p].attempt
    /\ run[p].pc = "supervise" => run[p].container
    /\ run[p].network => net = p

\* There is no exit code before there is a container, and a process has no sim of its
\* own still going once its sim has run to completion.
SimOver(p) ==
    /\ run[p].pc \in {"prepare", "network", "run", "pull"} => run[p].rc = "none"
    /\ run[p].stage = "oracle" \/ RanToCompletion(p)
         => ~(box["sim"].owner = p /\ Alive("sim"))

\* While nothing outlives a discard, files are those of the attempt.
FilesOfTheAttempt(p) ==
    p \notin undiscarded =>
        /\ out[p] \subseteq {run[p].attempt}
        /\ run[p].pc \in {"decide", "finish", "ok"} \/ run[p].stage = "oracle"
             => evidence[p] \subseteq {run[p].attempt}

ProcInv(p) == Handles(p) /\ SimOver(p) /\ FilesOfTheAttempt(p)

IInv == TypeOK /\ Owned /\ \A p \in Procs : ProcInv(p)

USE DEF vars, config, files, daemon, Goto, Fail, Fault, NoFault

-----------------------------------------------------------------------------
(* What the steps have in common.                                          *)

\* A step of p changes p's run only.
OnlyRunOf(p) ==
    /\ run' \in [Procs -> Runs]
    /\ \A q \in Procs \ {p} : run'[q] = run[q]

\* A step of p leaves the containers, the network and the files of the others alone.
OthersUntouched(p) ==
    /\ \A k \in Kinds :
        box'[k] = box[k] \/ (box[k].owner \in {p, Nobody} /\ box'[k].owner \in {p, Nobody})
    /\ net' = net \/ (net \in {p, Nobody} /\ net' \in {p, Nobody})
    /\ \A q \in Procs \ {p} :
        out'[q] = out[q] /\ evidence'[q] = evidence[q]
            /\ (q \in undiscarded' <=> q \in undiscarded)

\* Giving p a new record is such a step.
LEMMA NewRun ==
    ASSUME NEW p \in Procs, NEW r \in Runs, run \in [Procs -> Runs],
           run' = [run EXCEPT ![p] = r]
    PROVE  OnlyRunOf(p) /\ run'[p] = r
  BY DEF OnlyRunOf

\* What such a step has to show: the types, the owners, and p's own invariant.
LEMMA OneProcessMoves ==
    ASSUME IInv, NEW p \in Procs, OnlyRunOf(p), OthersUntouched(p), TypeOK', Owned',
           ProcInv(p)'
    PROVE  IInv'
  <1> SUFFICES ASSUME NEW q \in Procs PROVE ProcInv(q)'
    BY DEF IInv
  <1>1. CASE q = p
    BY <1>1
  <1>2. CASE q # p
    <2>1. run'[q] = run[q] /\ run[q].stage \in Kinds /\ "sim" \in Kinds
      BY <1>2 DEF IInv, TypeOK, OnlyRunOf, Runs, Kinds
    <2>2. ProcInv(q)
      BY DEF IInv
    <2>3. q # Nobody
      BY CaseRunAssumption
    <2>4. Handles(q)'
      BY <1>2, <2>1, <2>2, <2>3 DEF ProcInv, Handles, OthersUntouched
    <2>5. SimOver(q)'
      BY <1>2, <2>1, <2>2, <2>3 DEF ProcInv, SimOver, RanToCompletion, Alive, OthersUntouched
    <2>6. FilesOfTheAttempt(q)'
      BY <1>2, <2>1, <2>2 DEF ProcInv, FilesOfTheAttempt, OthersUntouched
    <2> QED
      BY <2>4, <2>5, <2>6 DEF ProcInv
  <1> QED
    BY <1>1, <1>2

\* Giving a name a new container, or none, touches no other.
LEMMA NewBox ==
    ASSUME NEW k \in Kinds, NEW b \in Boxes, box \in [Kinds -> Boxes],
           box' = [box EXCEPT ![k] = b]
    PROVE  /\ box' \in [Kinds -> Boxes]
           /\ box'[k] = b
           /\ \A j \in Kinds \ {k} : box'[j] = box[j]
  OBVIOUS

\* A discarded directory is no longer bound by the containers of its process, and
\* that is all.
LEMMA Unbound ==
    ASSUME NEW p \in Procs, box \in [Kinds -> Boxes],
           \/ UNCHANGED box
           \/ box' = [k \in Kinds |->
                IF box[k].owner = p THEN [box[k] EXCEPT !.bound = FALSE] ELSE box[k]]
    PROVE  /\ box' \in [Kinds -> Boxes]
           /\ \A k \in Kinds : /\ box'[k].owner = box[k].owner
                               /\ box'[k].attempt = box[k].attempt
                               /\ box'[k].state = box[k].state
                               /\ box'[k] = box[k] \/ box[k].owner = p
  <1>1. CASE UNCHANGED box
    BY <1>1
  <1>2. CASE box' = [k \in Kinds |->
                IF box[k].owner = p THEN [box[k] EXCEPT !.bound = FALSE] ELSE box[k]]
    <2>1. ASSUME NEW k \in Kinds
          PROVE  [box[k] EXCEPT !.bound = FALSE] \in Boxes
      BY DEF Boxes
    <2> QED
      BY <1>2, <2>1 DEF Boxes
  <1> QED
    BY <1>1, <1>2

\* The initial states satisfy the invariant.
LEMMA Initially == Init => IInv
  <1> SUFFICES ASSUME Init PROVE IInv
    OBVIOUS
  <1>1. \A p \in Procs : run[p] = Fresh(1)
    BY DEF Init
  <1>2. \A k \in Kinds : box[k] = Absent
    BY DEF Init
  <1>3. TypeOK
    <2>1. Fresh(1) \in Runs
      BY DEF Fresh, Runs, PCs, Kinds, Attempts
    <2>2. Absent \in Boxes
      BY DEF Absent, Boxes, Attempts
    <2>3. run \in [Procs -> Runs] /\ box \in [Kinds -> Boxes]
      BY <2>1, <2>2 DEF Init
    <2>4. gate \in BOOLEAN /\ seeded \in BOOLEAN /\ scratch \in BOOLEAN
      BY Zenon DEF Init
    <2> QED
      BY <2>3, <2>4, CaseRunAssumption DEF Init, TypeOK
  <1>4. Owned
    BY <1>2 DEF Owned, Absent
  <1>5. \A p \in Procs : ProcInv(p)
    BY <1>1 DEF Init, ProcInv, Handles, SimOver, RanToCompletion, FilesOfTheAttempt, Fresh
  <1> QED
    BY <1>3, <1>4, <1>5 DEF IInv

-----------------------------------------------------------------------------
(* One lemma per action: what it does to p's run (<1>2), the daemon (<1>3), *)
(* the files (<1>4) and the rest (<1>5), then the parts of the invariant.   *)

\* Preparing the run keeps the invariant.
LEMMA PrepareKeeps ==
    ASSUME NEW p \in Procs, IInv, Prepare(p)
    PROVE  IInv'
  <1> USE DEF Prepare, ImageEnsured
  <1>1. TypeOK /\ Owned /\ ProcInv(p)
    BY DEF IInv
  <1>2. \/ run' = [run EXCEPT ![p] = [run[p] EXCEPT !.pc = "network"]]
        \/ run' = [run EXCEPT ![p] = [run[p] EXCEPT !.pc = "network", !.scratch = TRUE]]
        \/ run' = [run EXCEPT ![p] = [run[p] EXCEPT !.pc = "cleanup", !.err = "infra"]]
    OBVIOUS
  <1>3. UNCHANGED <<box, net>>
    OBVIOUS
  <1>4. UNCHANGED <<out, evidence, undiscarded>>
    OBVIOUS
  <1>5. /\ scratch' \in BOOLEAN /\ faults' \in 0 .. MaxFaults /\ UNCHANGED config
        /\ image' \in {"local", "missing"}
    <2>1. scratch' \in BOOLEAN
      BY <1>1, Zenon DEF TypeOK
    <2>2. image' \in {"local", "missing"} /\ faults' \in 0 .. MaxFaults /\ UNCHANGED config
      BY <1>1, CaseRunAssumption DEF TypeOK
    <2> QED
      BY <2>1, <2>2
  <1>6. /\ run[p] \in Runs /\ run[p].stage \in Kinds
        /\ run[p].pc = "prepare"
    BY <1>1 DEF TypeOK, Runs
  <1> HIDE DEF Prepare, ImageEnsured
  <1>7. /\ OnlyRunOf(p)
        /\ \/ run'[p] = [run[p] EXCEPT !.pc = "network"]
           \/ run'[p] = [run[p] EXCEPT !.pc = "network", !.scratch = TRUE]
           \/ run'[p] = [run[p] EXCEPT !.pc = "cleanup", !.err = "infra"]
    <2>1. ASSUME run' = [run EXCEPT ![p] = [run[p] EXCEPT !.pc = "network"]]
          PROVE  OnlyRunOf(p) /\ run'[p] = [run[p] EXCEPT !.pc = "network"]
      <3>1. [run[p] EXCEPT !.pc = "network"] \in Runs
        BY <1>6 DEF Runs, PCs, Kinds, Attempts, Fresh
      <3> QED
        BY <1>1, <2>1, <3>1, NewRun DEF TypeOK
    <2>2. ASSUME run' = [run EXCEPT ![p] = [run[p] EXCEPT !.pc = "network", !.scratch = TRUE]]
          PROVE  OnlyRunOf(p) /\ run'[p] = [run[p] EXCEPT !.pc = "network", !.scratch = TRUE]
      <3>1. [run[p] EXCEPT !.pc = "network", !.scratch = TRUE] \in Runs
        BY <1>6 DEF Runs, PCs, Kinds, Attempts, Fresh
      <3> QED
        BY <1>1, <2>2, <3>1, NewRun DEF TypeOK
    <2>3. ASSUME run' = [run EXCEPT ![p] = [run[p] EXCEPT !.pc = "cleanup", !.err = "infra"]]
          PROVE  OnlyRunOf(p) /\ run'[p] = [run[p] EXCEPT !.pc = "cleanup", !.err = "infra"]
      <3>1. [run[p] EXCEPT !.pc = "cleanup", !.err = "infra"] \in Runs
        BY <1>6 DEF Runs, PCs, Kinds, Attempts, Fresh
      <3> QED
        BY <1>1, <2>3, <3>1, NewRun DEF TypeOK
    <2> QED
      BY <1>2, <2>1, <2>2, <2>3
  <1>8. /\ run[p].pc = "prepare" /\ run'[p].pc \in {"network", "cleanup"}
        /\ run'[p].stage = run[p].stage /\ run'[p].attempt = run[p].attempt
        /\ run'[p].rc = run[p].rc
        /\ run'[p].container = run[p].container /\ run'[p].network = run[p].network
    BY <1>3, <1>6, <1>7 DEF Runs
  <1>9. TypeOK'
    <2>1. run' \in [Procs -> Runs]
      BY <1>7 DEF OnlyRunOf
    <2>2. box' \in [Kinds -> Boxes] /\ net' \in Procs \cup {Nobody}
      BY <1>1, <1>3 DEF TypeOK
    <2>3. /\ out' \in [Procs -> SUBSET Attempts] /\ evidence' \in [Procs -> SUBSET Attempts]
          /\ undiscarded' \in SUBSET Procs
      BY <1>1, <1>4 DEF TypeOK, Runs
    <2> QED
      BY <1>1, <1>5, <2>1, <2>2, <2>3 DEF TypeOK
  <1>10. Owned'
    BY <1>1, <1>3 DEF Owned
  <1>11. OthersUntouched(p)
    BY <1>1, <1>3, <1>4 DEF TypeOK, Runs, OthersUntouched, Owned, ProcInv, Handles
  <1>12. ProcInv(p)'
    <2>1. Handles(p)'
      BY <1>1, <1>3, <1>8 DEF ProcInv, Handles
    <2>2. SimOver(p)'
      BY <1>1, <1>3, <1>6, <1>8 DEF Kinds, ProcInv, SimOver, RanToCompletion, Alive
    <2>3. FilesOfTheAttempt(p)'
      BY <1>1, <1>4, <1>8 DEF TypeOK, ProcInv, FilesOfTheAttempt
    <2> QED
      BY <2>1, <2>2, <2>3 DEF ProcInv
  <1> QED
    BY <1>7, <1>9, <1>10, <1>11, <1>12, OneProcessMoves

\* Creating the network, or failing to, keeps the invariant.
LEMMA CreateNetworkKeeps ==
    ASSUME NEW p \in Procs, IInv, CreateNetwork(p)
    PROVE  IInv'
  <1> USE DEF CreateNetwork
  <1>1. TypeOK /\ Owned /\ ProcInv(p)
    BY DEF IInv
  <1>2. \/ /\ run' = [run EXCEPT ![p] = [run[p] EXCEPT !.pc = "run", !.network = TRUE]]
           /\ net' = p
        \/ /\ run' = [run EXCEPT ![p] = [run[p] EXCEPT !.pc = "cleanup", !.err = "infra"]]
           /\ net' = net
    OBVIOUS
  <1>3. UNCHANGED box /\ (net' = net \/ (net = Nobody /\ net' = p))
    OBVIOUS
  <1>4. UNCHANGED <<out, evidence, undiscarded>>
    OBVIOUS
  <1>5. /\ scratch' \in BOOLEAN /\ faults' \in 0 .. MaxFaults /\ UNCHANGED config
        /\ image' \in {"local", "missing"}
    BY <1>1, CaseRunAssumption DEF TypeOK
  <1>6. /\ run[p] \in Runs /\ run[p].stage \in Kinds
        /\ run[p].pc = "network"
    BY <1>1 DEF TypeOK, Runs
  <1> HIDE DEF CreateNetwork
  <1>7. /\ OnlyRunOf(p)
        /\ \/ /\ run'[p] = [run[p] EXCEPT !.pc = "run", !.network = TRUE]
              /\ net' = p
           \/ /\ run'[p] = [run[p] EXCEPT !.pc = "cleanup", !.err = "infra"]
              /\ net' = net
    <2>1. ASSUME run' = [run EXCEPT ![p] = [run[p] EXCEPT !.pc = "run", !.network = TRUE]]
          PROVE  OnlyRunOf(p) /\ run'[p] = [run[p] EXCEPT !.pc = "run", !.network = TRUE]
      <3>1. [run[p] EXCEPT !.pc = "run", !.network = TRUE] \in Runs
        BY <1>6 DEF Runs, PCs, Kinds, Attempts, Fresh
      <3> QED
        BY <1>1, <2>1, <3>1, NewRun DEF TypeOK
    <2>2. ASSUME run' = [run EXCEPT ![p] = [run[p] EXCEPT !.pc = "cleanup", !.err = "infra"]]
          PROVE  OnlyRunOf(p) /\ run'[p] = [run[p] EXCEPT !.pc = "cleanup", !.err = "infra"]
      <3>1. [run[p] EXCEPT !.pc = "cleanup", !.err = "infra"] \in Runs
        BY <1>6 DEF Runs, PCs, Kinds, Attempts, Fresh
      <3> QED
        BY <1>1, <2>2, <3>1, NewRun DEF TypeOK
    <2> QED
      BY <1>2, <2>1, <2>2
  <1>8. /\ run[p].pc = "network" /\ run'[p].pc \in {"run", "cleanup"}
        /\ run'[p].stage = run[p].stage /\ run'[p].attempt = run[p].attempt
        /\ run'[p].rc = run[p].rc /\ run'[p].container = run[p].container
        /\ (run'[p].network = run[p].network /\ net' = net) \/ net' = p
    BY <1>3, <1>6, <1>7 DEF Runs
  <1>9. TypeOK'
    <2>1. run' \in [Procs -> Runs]
      BY <1>7 DEF OnlyRunOf
    <2>2. box' \in [Kinds -> Boxes] /\ net' \in Procs \cup {Nobody}
      BY <1>1, <1>3 DEF TypeOK, Runs, Boxes, Absent, Kinds, Attempts
    <2>3. /\ out' \in [Procs -> SUBSET Attempts] /\ evidence' \in [Procs -> SUBSET Attempts]
          /\ undiscarded' \in SUBSET Procs
      BY <1>1, <1>4 DEF TypeOK, Runs
    <2> QED
      BY <1>1, <1>5, <2>1, <2>2, <2>3 DEF TypeOK
  <1>10. Owned'
    BY <1>1, <1>3, CaseRunAssumption DEF TypeOK, Runs, Boxes, Owned, Absent, Kinds
  <1>11. OthersUntouched(p)
    BY <1>1, <1>3, <1>4 DEF TypeOK, Runs, OthersUntouched, Owned, ProcInv, Handles
  <1>12. ProcInv(p)'
    <2>1. Handles(p)'
      BY <1>1, <1>3, <1>8 DEF ProcInv, Handles
    <2>2. SimOver(p)'
      BY <1>1, <1>3, <1>6, <1>8 DEF Kinds, ProcInv, SimOver, RanToCompletion, Alive
    <2>3. FilesOfTheAttempt(p)'
      BY <1>1, <1>4, <1>8 DEF TypeOK, ProcInv, FilesOfTheAttempt
    <2> QED
      BY <2>1, <2>2, <2>3 DEF ProcInv
  <1> QED
    BY <1>7, <1>9, <1>10, <1>11, <1>12, OneProcessMoves

\* What containers.run does and the pull within it: a container is started, half started
\* or refused, or the image is not there.
ContainersRun(p) ==
    /\ run[p].pc \in {"run", "pull"} /\ image' \in {"local", "missing"}
    /\ \/ Creates(p)
       \/ run[p].pc = "run" /\ Goto(p, "pull") /\ UNCHANGED <<out, box>> /\ NoFault
    /\ UNCHANGED <<config, evidence, undiscarded, net, scratch>>

LEMMA BothRunContainers ==
    ASSUME IInv, NEW p \in Procs, RunContainer(p) \/ ImplicitPull(p)
    PROVE  ContainersRun(p)
  <1>1. CASE RunContainer(p)
    BY <1>1 DEF IInv, TypeOK, RunContainer, ContainersRun
  <1>2. CASE ImplicitPull(p)
    <2>1. Creates(p)
      BY <1>2 DEF ImplicitPull, Creates
    <2> QED
      BY <1>2, <2>1 DEF IInv, TypeOK, ImplicitPull, ContainersRun
  <1> QED
    BY <1>1, <1>2

\* Starting a container, half starting it, failing to or waiting for it keeps the
\* invariant.
LEMMA ContainersRunKeeps ==
    ASSUME NEW p \in Procs, IInv, ContainersRun(p)
    PROVE  IInv'
  <1> USE DEF ContainersRun, Creates, Created, NameFree
  <1>1. TypeOK /\ Owned /\ ProcInv(p)
    BY DEF IInv
  <1>2. \/ /\ run' = [run EXCEPT ![p] = [run[p] EXCEPT !.pc = "supervise", !.container = TRUE]]
           /\ box'[run[p].stage].owner = p /\ box'[run[p].stage].attempt = run[p].attempt
        \/ run' = [run EXCEPT ![p] = [run[p] EXCEPT !.pc = "cleanup", !.err = "infra"]]
        \/ /\ run' = [run EXCEPT ![p] = [run[p] EXCEPT !.pc = "pull"]]
           /\ UNCHANGED box
    <2>1. \/ /\ run' = [run EXCEPT ![p] = [run[p] EXCEPT !.pc = "supervise", !.container = TRUE]]
             /\ box' = [box EXCEPT ![run[p].stage] =
                  [owner |-> p, attempt |-> run[p].attempt, bound |-> TRUE, state |-> "running"]]
          \/ run' = [run EXCEPT ![p] = [run[p] EXCEPT !.pc = "cleanup", !.err = "infra"]]
          \/ /\ run' = [run EXCEPT ![p] = [run[p] EXCEPT !.pc = "pull"]]
             /\ UNCHANGED box
      OBVIOUS
    <2>2. run[p].stage \in Kinds /\ box \in [Kinds -> Boxes]
      BY <1>1 DEF TypeOK, Runs
    <2> HIDE DEF ContainersRun, Creates, Created, NameFree
    <2> QED
      BY <2>1, <2>2
  <1>3. /\ UNCHANGED net
        /\ box' \in [Kinds -> Boxes]
        /\ \A k \in Kinds \ {run[p].stage} : box'[k] = box[k]
        /\ LET k == run[p].stage
           IN \/ box'[k] = box[k]
              \/ /\ box[k].state = "absent" /\ box'[k].state \in {"running", "created"}
                 /\ box'[k].owner = p /\ box'[k].attempt = run[p].attempt
    <2>1. run[p].stage \in Kinds /\ run[p].attempt \in Attempts /\ box \in [Kinds -> Boxes]
      BY <1>1 DEF TypeOK, Runs
    <2>2. \/ UNCHANGED box
          \/ /\ box[run[p].stage].state = "absent"
             /\ \E s \in {"running", "created"} : box' = [box EXCEPT ![run[p].stage] =
                  [owner |-> p, attempt |-> run[p].attempt, bound |-> TRUE, state |-> s]]
      OBVIOUS
    <2>3. CASE UNCHANGED box
      BY <2>1, <2>3
    <2>4. ASSUME NEW s \in {"running", "created"},
                 box' = [box EXCEPT ![run[p].stage] =
                  [owner |-> p, attempt |-> run[p].attempt, bound |-> TRUE, state |-> s]]
          PROVE  /\ box' \in [Kinds -> Boxes]
                 /\ \A k \in Kinds \ {run[p].stage} : box'[k] = box[k]
                 /\ box'[run[p].stage] =
                      [owner |-> p, attempt |-> run[p].attempt, bound |-> TRUE, state |-> s]
      <3> HIDE DEF ContainersRun, Creates, Created, NameFree
      <3>1. [owner |-> p, attempt |-> run[p].attempt, bound |-> TRUE, state |-> s] \in Boxes
        BY <2>1 DEF Boxes
      <3> QED
        BY <2>1, <2>4, <3>1, NewBox
    <2>5. UNCHANGED net
      OBVIOUS
    <2> HIDE DEF ContainersRun, Creates, Created, NameFree
    <2> QED
      BY <2>1, <2>2, <2>3, <2>4, <2>5
  <1>4. /\ UNCHANGED <<evidence, undiscarded>>
        /\ UNCHANGED out \/ out' = [out EXCEPT ![p] = @ \cup {run[p].attempt}]
    OBVIOUS
  <1>5. /\ scratch' \in BOOLEAN /\ faults' \in 0 .. MaxFaults /\ UNCHANGED config
        /\ image' \in {"local", "missing"}
    BY <1>1, CaseRunAssumption DEF TypeOK
  <1>6. /\ run[p] \in Runs /\ run[p].stage \in Kinds
        /\ run[p].pc \in {"run", "pull"}
    BY <1>1 DEF TypeOK, Runs
  <1> HIDE DEF ContainersRun, Creates, Created, NameFree
  <1>7. /\ OnlyRunOf(p)
        /\ \/ /\ run'[p] = [run[p] EXCEPT !.pc = "supervise", !.container = TRUE]
              /\ box'[run[p].stage].owner = p /\ box'[run[p].stage].attempt = run[p].attempt
           \/ run'[p] = [run[p] EXCEPT !.pc = "cleanup", !.err = "infra"]
           \/ /\ run'[p] = [run[p] EXCEPT !.pc = "pull"]
              /\ UNCHANGED box
    <2>1. ASSUME run' = [run EXCEPT ![p] = [run[p] EXCEPT !.pc = "supervise", !.container = TRUE]]
          PROVE  OnlyRunOf(p) /\ run'[p] = [run[p] EXCEPT !.pc = "supervise", !.container = TRUE]
      <3>1. [run[p] EXCEPT !.pc = "supervise", !.container = TRUE] \in Runs
        BY <1>6 DEF Runs, PCs, Kinds, Attempts, Fresh
      <3> QED
        BY <1>1, <2>1, <3>1, NewRun DEF TypeOK
    <2>2. ASSUME run' = [run EXCEPT ![p] = [run[p] EXCEPT !.pc = "cleanup", !.err = "infra"]]
          PROVE  OnlyRunOf(p) /\ run'[p] = [run[p] EXCEPT !.pc = "cleanup", !.err = "infra"]
      <3>1. [run[p] EXCEPT !.pc = "cleanup", !.err = "infra"] \in Runs
        BY <1>6 DEF Runs, PCs, Kinds, Attempts, Fresh
      <3> QED
        BY <1>1, <2>2, <3>1, NewRun DEF TypeOK
    <2>3. ASSUME run' = [run EXCEPT ![p] = [run[p] EXCEPT !.pc = "pull"]]
          PROVE  OnlyRunOf(p) /\ run'[p] = [run[p] EXCEPT !.pc = "pull"]
      <3>1. [run[p] EXCEPT !.pc = "pull"] \in Runs
        BY <1>6 DEF Runs, PCs, Kinds, Attempts, Fresh
      <3> QED
        BY <1>1, <2>3, <3>1, NewRun DEF TypeOK
    <2> QED
      BY <1>2, <2>1, <2>2, <2>3
  <1>8. /\ run[p].pc \in {"run", "pull"} /\ run'[p].pc \in {"supervise", "cleanup", "pull"}
        /\ run'[p].stage = run[p].stage /\ run'[p].attempt = run[p].attempt
        /\ run'[p].rc = run[p].rc /\ run'[p].network = run[p].network
        /\ run'[p].pc = "supervise" => run'[p].container
        /\ \/ run'[p].container = run[p].container /\ run'[p].err = "infra"
           \/ /\ run'[p].container = run[p].container /\ run'[p].err = run[p].err
              /\ run'[p].pc = "pull" /\ UNCHANGED box
           \/ /\ run'[p].pc = "supervise" /\ box'[run[p].stage].owner = p
              /\ box'[run[p].stage].attempt = run[p].attempt
    BY <1>3, <1>6, <1>7 DEF Runs
  <1>9. TypeOK'
    <2>1. run' \in [Procs -> Runs]
      BY <1>7 DEF OnlyRunOf
    <2>2. box' \in [Kinds -> Boxes] /\ net' \in Procs \cup {Nobody}
      BY <1>1, <1>3 DEF TypeOK
    <2>3. /\ out' \in [Procs -> SUBSET Attempts] /\ evidence' \in [Procs -> SUBSET Attempts]
          /\ undiscarded' \in SUBSET Procs
      BY <1>1, <1>4 DEF TypeOK, Runs
    <2> QED
      BY <1>1, <1>5, <2>1, <2>2, <2>3 DEF TypeOK
  <1>10. Owned'
    BY <1>3, <1>1, CaseRunAssumption DEF Owned
  <1>11. OthersUntouched(p)
    <2>1. \A q \in Procs \ {p} :
            out'[q] = out[q] /\ evidence'[q] = evidence[q]
              /\ (q \in undiscarded' <=> q \in undiscarded)
      BY <1>1, <1>4 DEF TypeOK
    <2>2. \A k \in Kinds : box[k].state = "absent" => box[k].owner = Nobody
      BY <1>1 DEF Owned
    <2> QED
      BY <1>3, <1>6, <2>1, <2>2 DEF OthersUntouched
  <1>12. ProcInv(p)'
    <2>1. Handles(p)'
      BY <1>1, <1>3, <1>8 DEF ProcInv, Handles
    <2>2. SimOver(p)'
      BY <1>1, <1>3, <1>6, <1>8 DEF Kinds, ProcInv, SimOver, RanToCompletion, Alive
    <2>3. FilesOfTheAttempt(p)'
      BY <1>1, <1>4, <1>8 DEF TypeOK, ProcInv, FilesOfTheAttempt
    <2> QED
      BY <2>1, <2>2, <2>3 DEF ProcInv
  <1> QED
    BY <1>7, <1>9, <1>10, <1>11, <1>12, OneProcessMoves

\* Every way supervision ends keeps the invariant.
LEMMA SuperviseKeeps ==
    ASSUME NEW p \in Procs, IInv, Supervise(p)
    PROVE  IInv'
  <1> USE DEF Supervise, Supervised
  <1>1. TypeOK /\ Owned /\ ProcInv(p)
    BY DEF IInv
  <1>2. \/ \E rc \in {"none", "zero", "nonzero"},
              err \in {"none", "timeout", "gpu_lost", "infra"} :
             /\ run' = [run EXCEPT ![p] = [run[p] EXCEPT !.pc = "cleanup", !.rc = rc, !.err = err]]
             /\ (rc = "zero" /\ err = "none" => box[run[p].stage].state = "ok")
        \/ run' = [run EXCEPT ![p] = [run[p] EXCEPT !.pc = "cleanup", !.err = "infra"]]
    OBVIOUS
  <1>3. UNCHANGED <<box, net>>
    OBVIOUS
  <1>4. UNCHANGED <<out, evidence, undiscarded>>
    OBVIOUS
  <1>5. /\ scratch' \in BOOLEAN /\ faults' \in 0 .. MaxFaults /\ UNCHANGED config
        /\ image' \in {"local", "missing"}
    BY <1>1, CaseRunAssumption DEF TypeOK
  <1>6. /\ run[p] \in Runs /\ run[p].stage \in Kinds
        /\ run[p].pc = "supervise"
    BY <1>1 DEF TypeOK, Runs
  <1> HIDE DEF Supervise, Supervised
  <1>7. /\ OnlyRunOf(p)
        /\ \/ \E rc \in {"none", "zero", "nonzero"},
                 err \in {"none", "timeout", "gpu_lost", "infra"} :
                /\ run'[p] = [run[p] EXCEPT !.pc = "cleanup", !.rc = rc, !.err = err]
                /\ (rc = "zero" /\ err = "none" => box[run[p].stage].state = "ok")
           \/ run'[p] = [run[p] EXCEPT !.pc = "cleanup", !.err = "infra"]
    <2>1. ASSUME NEW rc \in {"none", "zero", "nonzero"},
                 NEW err \in {"none", "timeout", "gpu_lost", "infra"},
                 run' = [run EXCEPT ![p] = [run[p] EXCEPT !.pc = "cleanup", !.rc = rc, !.err = err]]
          PROVE  OnlyRunOf(p) /\ run'[p] = [run[p] EXCEPT !.pc = "cleanup", !.rc = rc, !.err = err]
      <3>1. [run[p] EXCEPT !.pc = "cleanup", !.rc = rc, !.err = err] \in Runs
        BY <1>6 DEF Runs, PCs, Kinds, Attempts, Fresh
      <3> QED
        BY <1>1, <2>1, <3>1, NewRun DEF TypeOK
    <2>2. ASSUME run' = [run EXCEPT ![p] = [run[p] EXCEPT !.pc = "cleanup", !.err = "infra"]]
          PROVE  OnlyRunOf(p) /\ run'[p] = [run[p] EXCEPT !.pc = "cleanup", !.err = "infra"]
      <3>1. [run[p] EXCEPT !.pc = "cleanup", !.err = "infra"] \in Runs
        BY <1>6 DEF Runs, PCs, Kinds, Attempts, Fresh
      <3> QED
        BY <1>1, <2>2, <3>1, NewRun DEF TypeOK
    <2> QED
      BY <1>2, <2>1, <2>2
  <1>8. /\ run[p].pc = "supervise" /\ run'[p].pc = "cleanup"
        /\ run'[p].stage = run[p].stage /\ run'[p].attempt = run[p].attempt
        /\ run'[p].container = run[p].container /\ run'[p].network = run[p].network
        /\ run'[p].rc = "zero" /\ run'[p].err = "none" => box[run[p].stage].state = "ok"
    BY <1>3, <1>6, <1>7 DEF Runs
  <1>9. TypeOK'
    <2>1. run' \in [Procs -> Runs]
      BY <1>7 DEF OnlyRunOf
    <2>2. box' \in [Kinds -> Boxes] /\ net' \in Procs \cup {Nobody}
      BY <1>1, <1>3 DEF TypeOK
    <2>3. /\ out' \in [Procs -> SUBSET Attempts] /\ evidence' \in [Procs -> SUBSET Attempts]
          /\ undiscarded' \in SUBSET Procs
      BY <1>1, <1>4 DEF TypeOK, Runs
    <2> QED
      BY <1>1, <1>5, <2>1, <2>2, <2>3 DEF TypeOK
  <1>10. Owned'
    BY <1>1, <1>3 DEF Owned
  <1>11. OthersUntouched(p)
    BY <1>1, <1>3, <1>4 DEF TypeOK, Runs, OthersUntouched, Owned, ProcInv, Handles
  <1>12. ProcInv(p)'
    <2>1. Handles(p)'
      BY <1>1, <1>3, <1>8 DEF ProcInv, Handles
    <2>2. SimOver(p)'
      BY <1>1, <1>3, <1>6, <1>8 DEF Kinds, ProcInv, SimOver, RanToCompletion, Alive
    <2>3. FilesOfTheAttempt(p)'
      BY <1>1, <1>4, <1>8 DEF TypeOK, ProcInv, FilesOfTheAttempt
    <2> QED
      BY <2>1, <2>2, <2>3 DEF ProcInv
  <1> QED
    BY <1>7, <1>9, <1>10, <1>11, <1>12, OneProcessMoves

\* The container's teardown, whatever it achieves, keeps the invariant.
LEMMA CleanupKeeps ==
    ASSUME NEW p \in Procs, IInv, Cleanup(p)
    PROVE  IInv'
  <1> USE DEF Cleanup, Removed
  <1>1. TypeOK /\ Owned /\ ProcInv(p)
    BY DEF IInv
  <1>2. \/ /\ run' = [run EXCEPT ![p] = [run[p] EXCEPT !.pc = "unnet", !.container = FALSE]]
           /\ run[p].stage = "sim"
        \/ /\ run' = [run EXCEPT ![p] = [run[p] EXCEPT !.pc = "finish", !.container = FALSE]]
           /\ run[p].stage # "sim"
    OBVIOUS
  <1>3. /\ UNCHANGED net
        /\ box' \in [Kinds -> Boxes]
        /\ \A k \in Kinds \ {run[p].stage} : box'[k] = box[k]
        /\ LET k == run[p].stage
           IN \/ box'[k] = box[k]
              \/ run[p].container /\ box'[k] = Absent
              \/ /\ run[p].container /\ box[k].state # "absent" /\ box'[k].state = "failed"
                 /\ box'[k].owner = box[k].owner
    <2> DEFINE k == run[p].stage
    <2>1. k \in Kinds /\ box \in [Kinds -> Boxes] /\ box[k] \in Boxes
      BY <1>1 DEF TypeOK, Runs
    <2>2. \/ UNCHANGED box
          \/ run[p].container /\ box' = [box EXCEPT ![k] = Absent]
          \/ /\ run[p].container /\ Alive(k)
             /\ box' = [box EXCEPT ![k] = [box[k] EXCEPT !.state = "failed"]]
      OBVIOUS
    <2>3. Absent \in Boxes /\ [box[k] EXCEPT !.state = "failed"] \in Boxes
      BY <2>1 DEF Absent, Boxes, Attempts
    <2>4. UNCHANGED net
      OBVIOUS
    <2> HIDE DEF Cleanup, Removed, k
    <2>5. CASE UNCHANGED box
      BY <2>1, <2>4, <2>5 DEF k
    <2>6. CASE run[p].container /\ box' = [box EXCEPT ![k] = Absent]
      BY <2>1, <2>3, <2>4, <2>6, NewBox DEF k
    <2>7. CASE /\ run[p].container /\ Alive(k)
               /\ box' = [box EXCEPT ![k] = [box[k] EXCEPT !.state = "failed"]]
      <3>1. /\ box' \in [Kinds -> Boxes]
            /\ box'[k] = [box[k] EXCEPT !.state = "failed"]
            /\ \A j \in Kinds \ {k} : box'[j] = box[j]
        BY <2>1, <2>3, <2>7, NewBox
      <3>2. box'[k].state = "failed" /\ box'[k].owner = box[k].owner
        BY <2>1, <3>1 DEF Boxes
      <3> QED
        BY <2>4, <2>7, <3>1, <3>2 DEF Alive, k
    <2> QED
      BY <2>2, <2>5, <2>6, <2>7
  <1>4. UNCHANGED <<out, evidence, undiscarded>>
    OBVIOUS
  <1>5. /\ scratch' \in BOOLEAN /\ faults' \in 0 .. MaxFaults /\ UNCHANGED config
        /\ image' \in {"local", "missing"}
    BY <1>1, CaseRunAssumption DEF TypeOK
  <1>6. /\ run[p] \in Runs /\ run[p].stage \in Kinds
        /\ run[p].pc = "cleanup"
    BY <1>1 DEF TypeOK, Runs
  <1> HIDE DEF Cleanup, Removed
  <1>7. /\ OnlyRunOf(p)
        /\ \/ /\ run'[p] = [run[p] EXCEPT !.pc = "unnet", !.container = FALSE]
              /\ run[p].stage = "sim"
           \/ /\ run'[p] = [run[p] EXCEPT !.pc = "finish", !.container = FALSE]
              /\ run[p].stage # "sim"
    <2>1. ASSUME run' = [run EXCEPT ![p] = [run[p] EXCEPT !.pc = "unnet", !.container = FALSE]]
          PROVE  OnlyRunOf(p) /\ run'[p] = [run[p] EXCEPT !.pc = "unnet", !.container = FALSE]
      <3>1. [run[p] EXCEPT !.pc = "unnet", !.container = FALSE] \in Runs
        BY <1>6 DEF Runs, PCs, Kinds, Attempts, Fresh
      <3> QED
        BY <1>1, <2>1, <3>1, NewRun DEF TypeOK
    <2>2. ASSUME run' = [run EXCEPT ![p] = [run[p] EXCEPT !.pc = "finish", !.container = FALSE]]
          PROVE  OnlyRunOf(p) /\ run'[p] = [run[p] EXCEPT !.pc = "finish", !.container = FALSE]
      <3>1. [run[p] EXCEPT !.pc = "finish", !.container = FALSE] \in Runs
        BY <1>6 DEF Runs, PCs, Kinds, Attempts, Fresh
      <3> QED
        BY <1>1, <2>2, <3>1, NewRun DEF TypeOK
    <2> QED
      BY <1>2, <2>1, <2>2
  <1>8. /\ run[p].pc = "cleanup" /\ run'[p].pc \in {"unnet", "finish"}
        /\ ~run'[p].container
        /\ run'[p].stage = run[p].stage /\ run'[p].attempt = run[p].attempt
        /\ run'[p].rc = run[p].rc /\ run'[p].err = run[p].err
        /\ run'[p].network = run[p].network
        /\ run'[p].pc = "finish" => run[p].stage = "oracle"
    BY <1>3, <1>6, <1>7 DEF Runs, Kinds
  <1>9. TypeOK'
    <2>1. run' \in [Procs -> Runs]
      BY <1>7 DEF OnlyRunOf
    <2>2. box' \in [Kinds -> Boxes] /\ net' \in Procs \cup {Nobody}
      BY <1>1, <1>3 DEF TypeOK
    <2>3. /\ out' \in [Procs -> SUBSET Attempts] /\ evidence' \in [Procs -> SUBSET Attempts]
          /\ undiscarded' \in SUBSET Procs
      BY <1>1, <1>4 DEF TypeOK, Runs
    <2> QED
      BY <1>1, <1>5, <2>1, <2>2, <2>3 DEF TypeOK
  <1>10. Owned'
    <2>1. run[p].container => box[run[p].stage].owner # Nobody
      BY <1>1, CaseRunAssumption DEF ProcInv, Handles
    <2> QED
      BY <1>1, <1>3, <1>6, <2>1 DEF Owned, Absent
  <1>11. OthersUntouched(p)
    <2>1. run[p].container => box[run[p].stage].owner = p
      BY <1>1 DEF ProcInv, Handles
    <2> QED
      BY <1>3, <1>4, <1>6, <2>1 DEF OthersUntouched, Absent
  <1>12. ProcInv(p)'
    <2>1. Handles(p)'
      BY <1>1, <1>3, <1>8 DEF ProcInv, Handles
    <2>2. SimOver(p)'
      BY <1>1, <1>3, <1>6, <1>8, CaseRunAssumption
         DEF Kinds, Absent, ProcInv, SimOver, RanToCompletion, Alive
    <2>3. FilesOfTheAttempt(p)'
      BY <1>1, <1>4, <1>8 DEF TypeOK, ProcInv, FilesOfTheAttempt
    <2> QED
      BY <2>1, <2>2, <2>3 DEF ProcInv
  <1> QED
    BY <1>7, <1>9, <1>10, <1>11, <1>12, OneProcessMoves

\* Removing the network, or failing to, keeps the invariant.
LEMMA RemoveNetworkKeeps ==
    ASSUME NEW p \in Procs, IInv, RemoveNetwork(p)
    PROVE  IInv'
  <1> USE DEF RemoveNetwork
  <1>1. TypeOK /\ Owned /\ ProcInv(p)
    BY DEF IInv
  <1>2. run' = [run EXCEPT ![p] = [run[p] EXCEPT !.pc = "unscratch", !.network = FALSE]]
    OBVIOUS
  <1>3. UNCHANGED box /\ (net' = net \/ (run[p].network /\ net' = Nobody))
    OBVIOUS
  <1>4. UNCHANGED <<out, evidence, undiscarded>>
    OBVIOUS
  <1>5. /\ scratch' \in BOOLEAN /\ faults' \in 0 .. MaxFaults /\ UNCHANGED config
        /\ image' \in {"local", "missing"}
    BY <1>1, CaseRunAssumption DEF TypeOK
  <1>6. /\ run[p] \in Runs /\ run[p].stage \in Kinds
        /\ run[p].pc = "unnet"
    BY <1>1 DEF TypeOK, Runs
  <1> HIDE DEF RemoveNetwork
  <1>7. /\ OnlyRunOf(p)
        /\ run'[p] = [run[p] EXCEPT !.pc = "unscratch", !.network = FALSE]
    <2>1. ASSUME run' = [run EXCEPT ![p] = [run[p] EXCEPT !.pc = "unscratch", !.network = FALSE]]
          PROVE  OnlyRunOf(p) /\ run'[p] = [run[p] EXCEPT !.pc = "unscratch", !.network = FALSE]
      <3>1. [run[p] EXCEPT !.pc = "unscratch", !.network = FALSE] \in Runs
        BY <1>6 DEF Runs, PCs, Kinds, Attempts, Fresh
      <3> QED
        BY <1>1, <2>1, <3>1, NewRun DEF TypeOK
    <2> QED
      BY <1>2, <2>1
  <1>8. /\ run[p].pc = "unnet" /\ run'[p].pc = "unscratch"
        /\ ~run'[p].network
        /\ run'[p].stage = run[p].stage /\ run'[p].attempt = run[p].attempt
        /\ run'[p].rc = run[p].rc /\ run'[p].err = run[p].err
        /\ run'[p].container = run[p].container
    BY <1>3, <1>6, <1>7 DEF Runs
  <1>9. TypeOK'
    <2>1. run' \in [Procs -> Runs]
      BY <1>7 DEF OnlyRunOf
    <2>2. box' \in [Kinds -> Boxes] /\ net' \in Procs \cup {Nobody}
      BY <1>1, <1>3 DEF TypeOK, Runs, Boxes, Absent, Kinds, Attempts
    <2>3. /\ out' \in [Procs -> SUBSET Attempts] /\ evidence' \in [Procs -> SUBSET Attempts]
          /\ undiscarded' \in SUBSET Procs
      BY <1>1, <1>4 DEF TypeOK, Runs
    <2> QED
      BY <1>1, <1>5, <2>1, <2>2, <2>3 DEF TypeOK
  <1>10. Owned'
    BY <1>1, <1>3, CaseRunAssumption DEF TypeOK, Runs, Boxes, Owned, Absent, Kinds
  <1>11. OthersUntouched(p)
    BY <1>1, <1>3, <1>4 DEF TypeOK, Runs, OthersUntouched, Owned, ProcInv, Handles
  <1>12. ProcInv(p)'
    <2>1. Handles(p)'
      BY <1>1, <1>3, <1>8 DEF ProcInv, Handles
    <2>2. SimOver(p)'
      BY <1>1, <1>3, <1>6, <1>8 DEF Kinds, ProcInv, SimOver, RanToCompletion, Alive
    <2>3. FilesOfTheAttempt(p)'
      BY <1>1, <1>4, <1>8 DEF TypeOK, ProcInv, FilesOfTheAttempt
    <2> QED
      BY <2>1, <2>2, <2>3 DEF ProcInv
  <1> QED
    BY <1>7, <1>9, <1>10, <1>11, <1>12, OneProcessMoves

\* Discarding the scratch tree keeps the invariant.
LEMMA DiscardScratchKeeps ==
    ASSUME NEW p \in Procs, IInv, DiscardScratch(p)
    PROVE  IInv'
  <1> USE DEF DiscardScratch
  <1>1. TypeOK /\ Owned /\ ProcInv(p)
    BY DEF IInv
  <1>2. run' = [run EXCEPT ![p] = [run[p] EXCEPT !.pc = "zip", !.scratch = FALSE]]
    OBVIOUS
  <1>3. UNCHANGED <<box, net>>
    OBVIOUS
  <1>4. UNCHANGED <<out, evidence, undiscarded>>
    OBVIOUS
  <1>5. /\ scratch' \in BOOLEAN /\ faults' \in 0 .. MaxFaults /\ UNCHANGED config
        /\ image' \in {"local", "missing"}
    <2>1. scratch' \in BOOLEAN
      BY <1>1, Zenon DEF TypeOK
    <2> QED
      BY <1>1, <2>1, CaseRunAssumption DEF TypeOK
  <1>6. /\ run[p] \in Runs /\ run[p].stage \in Kinds
        /\ run[p].pc = "unscratch"
    BY <1>1 DEF TypeOK, Runs
  <1> HIDE DEF DiscardScratch
  <1>7. /\ OnlyRunOf(p)
        /\ run'[p] = [run[p] EXCEPT !.pc = "zip", !.scratch = FALSE]
    <2>1. ASSUME run' = [run EXCEPT ![p] = [run[p] EXCEPT !.pc = "zip", !.scratch = FALSE]]
          PROVE  OnlyRunOf(p) /\ run'[p] = [run[p] EXCEPT !.pc = "zip", !.scratch = FALSE]
      <3>1. [run[p] EXCEPT !.pc = "zip", !.scratch = FALSE] \in Runs
        BY <1>6 DEF Runs, PCs, Kinds, Attempts, Fresh
      <3> QED
        BY <1>1, <2>1, <3>1, NewRun DEF TypeOK
    <2> QED
      BY <1>2, <2>1
  <1>8. /\ run[p].pc = "unscratch" /\ run'[p].pc = "zip"
        /\ run'[p].stage = run[p].stage /\ run'[p].attempt = run[p].attempt
        /\ run'[p].network = run[p].network
        /\ run'[p].rc = run[p].rc /\ run'[p].err = run[p].err
        /\ run'[p].container = run[p].container
    BY <1>3, <1>6, <1>7 DEF Runs
  <1>9. TypeOK'
    <2>1. run' \in [Procs -> Runs]
      BY <1>7 DEF OnlyRunOf
    <2>2. box' \in [Kinds -> Boxes] /\ net' \in Procs \cup {Nobody}
      BY <1>1, <1>3 DEF TypeOK
    <2>3. /\ out' \in [Procs -> SUBSET Attempts] /\ evidence' \in [Procs -> SUBSET Attempts]
          /\ undiscarded' \in SUBSET Procs
      BY <1>1, <1>4 DEF TypeOK, Runs
    <2> QED
      BY <1>1, <1>5, <2>1, <2>2, <2>3 DEF TypeOK
  <1>10. Owned'
    BY <1>1, <1>3 DEF Owned
  <1>11. OthersUntouched(p)
    BY <1>1, <1>3, <1>4 DEF TypeOK, Runs, OthersUntouched, Owned, ProcInv, Handles
  <1>12. ProcInv(p)'
    <2>1. Handles(p)'
      BY <1>1, <1>3, <1>8 DEF ProcInv, Handles
    <2>2. SimOver(p)'
      BY <1>1, <1>3, <1>6, <1>8 DEF Kinds, ProcInv, SimOver, RanToCompletion, Alive
    <2>3. FilesOfTheAttempt(p)'
      BY <1>1, <1>4, <1>8 DEF TypeOK, ProcInv, FilesOfTheAttempt
    <2> QED
      BY <2>1, <2>2, <2>3 DEF ProcInv
  <1> QED
    BY <1>7, <1>9, <1>10, <1>11, <1>12, OneProcessMoves

\* Zipping the output keeps the invariant.
LEMMA ZipKeeps ==
    ASSUME NEW p \in Procs, IInv, Zip(p)
    PROVE  IInv'
  <1> USE DEF Zip
  <1>1. TypeOK /\ Owned /\ ProcInv(p)
    BY DEF IInv
  <1>2. \/ /\ run' = [run EXCEPT ![p] = [run[p] EXCEPT !.pc = "decide"]]
           /\ evidence' = [evidence EXCEPT ![p] = out[p]]
        \/ /\ run' = [run EXCEPT ![p] = [run[p] EXCEPT !.pc = "raised"]]
           /\ UNCHANGED evidence
    OBVIOUS
  <1>3. UNCHANGED <<box, net>>
    OBVIOUS
  <1>4. /\ UNCHANGED <<out, undiscarded>>
        /\ UNCHANGED evidence \/ evidence' = [evidence EXCEPT ![p] = out[p]]
    OBVIOUS
  <1>5. /\ scratch' \in BOOLEAN /\ faults' \in 0 .. MaxFaults /\ UNCHANGED config
        /\ image' \in {"local", "missing"}
    BY <1>1, CaseRunAssumption DEF TypeOK
  <1>6. /\ run[p] \in Runs /\ run[p].stage \in Kinds
        /\ run[p].pc = "zip"
    BY <1>1 DEF TypeOK, Runs
  <1> HIDE DEF Zip
  <1>7. /\ OnlyRunOf(p)
        /\ \/ /\ run'[p] = [run[p] EXCEPT !.pc = "decide"]
              /\ evidence' = [evidence EXCEPT ![p] = out[p]]
           \/ /\ run'[p] = [run[p] EXCEPT !.pc = "raised"]
              /\ UNCHANGED evidence
    <2>1. ASSUME run' = [run EXCEPT ![p] = [run[p] EXCEPT !.pc = "decide"]]
          PROVE  OnlyRunOf(p) /\ run'[p] = [run[p] EXCEPT !.pc = "decide"]
      <3>1. [run[p] EXCEPT !.pc = "decide"] \in Runs
        BY <1>6 DEF Runs, PCs, Kinds, Attempts, Fresh
      <3> QED
        BY <1>1, <2>1, <3>1, NewRun DEF TypeOK
    <2>2. ASSUME run' = [run EXCEPT ![p] = [run[p] EXCEPT !.pc = "raised"]]
          PROVE  OnlyRunOf(p) /\ run'[p] = [run[p] EXCEPT !.pc = "raised"]
      <3>1. [run[p] EXCEPT !.pc = "raised"] \in Runs
        BY <1>6 DEF Runs, PCs, Kinds, Attempts, Fresh
      <3> QED
        BY <1>1, <2>2, <3>1, NewRun DEF TypeOK
    <2> QED
      BY <1>2, <2>1, <2>2
  <1>8. /\ run[p].pc = "zip" /\ run'[p].pc \in {"decide", "raised"}
        /\ run'[p].stage = run[p].stage /\ run'[p].attempt = run[p].attempt
        /\ run'[p].network = run[p].network
        /\ run'[p].rc = run[p].rc /\ run'[p].err = run[p].err
        /\ run'[p].container = run[p].container
        /\ evidence'[p] = out[p] \/ (run'[p].pc = "raised" /\ UNCHANGED evidence)
    BY <1>1, <1>3, <1>6, <1>7 DEF TypeOK, Runs
  <1>9. TypeOK'
    <2>1. run' \in [Procs -> Runs]
      BY <1>7 DEF OnlyRunOf
    <2>2. box' \in [Kinds -> Boxes] /\ net' \in Procs \cup {Nobody}
      BY <1>1, <1>3 DEF TypeOK
    <2>3. /\ out' \in [Procs -> SUBSET Attempts] /\ evidence' \in [Procs -> SUBSET Attempts]
          /\ undiscarded' \in SUBSET Procs
      BY <1>1, <1>4 DEF TypeOK, Runs
    <2> QED
      BY <1>1, <1>5, <2>1, <2>2, <2>3 DEF TypeOK
  <1>10. Owned'
    BY <1>1, <1>3 DEF Owned
  <1>11. OthersUntouched(p)
    BY <1>1, <1>3, <1>4 DEF TypeOK, Runs, OthersUntouched, Owned, ProcInv, Handles
  <1>12. ProcInv(p)'
    <2>1. Handles(p)'
      BY <1>1, <1>3, <1>8 DEF ProcInv, Handles
    <2>2. SimOver(p)'
      BY <1>1, <1>3, <1>6, <1>8 DEF Kinds, ProcInv, SimOver, RanToCompletion, Alive
    <2>3. FilesOfTheAttempt(p)'
      BY <1>1, <1>4, <1>8 DEF TypeOK, ProcInv, FilesOfTheAttempt
    <2> QED
      BY <2>1, <2>2, <2>3 DEF ProcInv
  <1> QED
    BY <1>7, <1>9, <1>10, <1>11, <1>12, OneProcessMoves

\* The retry after a lost GPU keeps the invariant.
LEMMA RetryKeeps ==
    ASSUME NEW p \in Procs, IInv, Retry(p)
    PROVE  IInv'
  <1> USE DEF Retry, MayRetry, ClearForRetry, Discard
  <1>1. TypeOK /\ Owned /\ ProcInv(p)
    BY DEF IInv
  <1>2. /\ run' = [run EXCEPT ![p] = Fresh(2)]
        /\ run[p].attempt = 1
    OBVIOUS
  <1>3. /\ UNCHANGED net
        /\ box' \in [Kinds -> Boxes]
        /\ \A k \in Kinds : /\ box'[k].owner = box[k].owner
                            /\ box'[k].attempt = box[k].attempt
                            /\ box'[k].state = box[k].state
                            /\ box'[k] = box[k] \/ box[k].owner = p
    <2>1. \/ UNCHANGED box
          \/ box' = [k \in Kinds |->
               IF box[k].owner = p THEN [box[k] EXCEPT !.bound = FALSE] ELSE box[k]]
      OBVIOUS
    <2> QED
      BY <1>1, <2>1, Unbound DEF TypeOK
  <1>4. /\ UNCHANGED evidence
        /\ (p \in undiscarded' /\ UNCHANGED out) \/ out' = [out EXCEPT ![p] = {}]
        /\ undiscarded' \in {undiscarded, undiscarded \cup {p}}
    OBVIOUS
  <1>5. /\ scratch' \in BOOLEAN /\ faults' \in 0 .. MaxFaults /\ UNCHANGED config
        /\ image' \in {"local", "missing"}
    BY <1>1, CaseRunAssumption DEF TypeOK
  <1>6. /\ run[p] \in Runs /\ run[p].stage \in Kinds
        /\ run[p].pc = "decide"
    BY <1>1 DEF TypeOK, Runs
  <1> HIDE DEF Retry, MayRetry, ClearForRetry, Discard
  <1>7. /\ OnlyRunOf(p)
        /\ run'[p] = Fresh(2)
        /\ run[p].attempt = 1
    <2>1. ASSUME run' = [run EXCEPT ![p] = Fresh(2)]
          PROVE  OnlyRunOf(p) /\ run'[p] = Fresh(2)
      <3>1. Fresh(2) \in Runs
        BY <1>6 DEF Runs, PCs, Kinds, Attempts, Fresh
      <3> QED
        BY <1>1, <2>1, <3>1, NewRun DEF TypeOK
    <2> QED
      BY <1>2, <2>1
  <1>8. /\ run[p].pc = "decide"
        /\ run'[p].pc = "prepare" /\ run'[p].stage = "sim" /\ run'[p].rc = "none"
        /\ ~run'[p].container /\ ~run'[p].network
    BY <1>3, <1>6, <1>7 DEF Runs, Fresh
  <1>9. TypeOK'
    <2>1. run' \in [Procs -> Runs]
      BY <1>7 DEF OnlyRunOf
    <2>2. box' \in [Kinds -> Boxes] /\ net' \in Procs \cup {Nobody}
      BY <1>1, <1>3 DEF TypeOK
    <2>3. /\ out' \in [Procs -> SUBSET Attempts] /\ evidence' \in [Procs -> SUBSET Attempts]
          /\ undiscarded' \in SUBSET Procs
      BY <1>1, <1>4 DEF TypeOK, Runs
    <2> QED
      BY <1>1, <1>5, <2>1, <2>2, <2>3 DEF TypeOK
  <1>10. Owned'
    BY <1>1, <1>3 DEF Owned
  <1>11. OthersUntouched(p)
    <2>1. \A q \in Procs \ {p} :
            out'[q] = out[q] /\ evidence'[q] = evidence[q]
              /\ (q \in undiscarded' <=> q \in undiscarded)
      BY <1>1, <1>4 DEF TypeOK
    <2> QED
      BY <1>1, <1>3, <2>1 DEF OthersUntouched
  <1>12. ProcInv(p)'
    <2>1. Handles(p)'
      BY <1>1, <1>3, <1>8 DEF ProcInv, Handles
    <2>2. SimOver(p)'
      BY <1>1, <1>3, <1>6, <1>8 DEF Kinds, ProcInv, SimOver, RanToCompletion, Alive
    <2>3. FilesOfTheAttempt(p)'
      BY <1>1, <1>4, <1>8 DEF TypeOK, ProcInv, FilesOfTheAttempt
    <2> QED
      BY <2>1, <2>2, <2>3 DEF ProcInv
  <1> QED
    BY <1>7, <1>9, <1>10, <1>11, <1>12, OneProcessMoves

\* Going on to the oracle, or not, keeps the invariant.
LEMMA DecideKeeps ==
    ASSUME NEW p \in Procs, IInv, Decide(p)
    PROVE  IInv'
  <1> USE DEF Decide
  <1>1. TypeOK /\ Owned /\ ProcInv(p)
    BY DEF IInv
  <1>2. \/ /\ run' = [run EXCEPT ![p] = [run[p] EXCEPT
             !.pc = "run", !.stage = "oracle", !.rc = "none", !.err = "none"]]
           /\ RanToCompletion(p)
        \/ run' = [run EXCEPT ![p] = [run[p] EXCEPT !.pc = "finish"]]
    OBVIOUS
  <1>3. UNCHANGED <<box, net>>
    OBVIOUS
  <1>4. UNCHANGED <<out, evidence, undiscarded>>
    OBVIOUS
  <1>5. /\ scratch' \in BOOLEAN /\ faults' \in 0 .. MaxFaults /\ UNCHANGED config
        /\ image' \in {"local", "missing"}
    BY <1>1, CaseRunAssumption DEF TypeOK
  <1>6. /\ run[p] \in Runs /\ run[p].stage \in Kinds
        /\ run[p].pc = "decide"
    BY <1>1 DEF TypeOK, Runs
  <1> HIDE DEF Decide
  <1>7. /\ OnlyRunOf(p)
        /\ \/ /\ run'[p] = [run[p] EXCEPT
                !.pc = "run", !.stage = "oracle", !.rc = "none", !.err = "none"]
              /\ RanToCompletion(p)
           \/ run'[p] = [run[p] EXCEPT !.pc = "finish"]
    <2>1. ASSUME run' = [run EXCEPT ![p] = [run[p] EXCEPT
             !.pc = "run", !.stage = "oracle", !.rc = "none", !.err = "none"]]
          PROVE  OnlyRunOf(p) /\ run'[p] = [run[p] EXCEPT
             !.pc = "run", !.stage = "oracle", !.rc = "none", !.err = "none"]
      <3>1. [run[p] EXCEPT
             !.pc = "run", !.stage = "oracle", !.rc = "none", !.err = "none"] \in Runs
        BY <1>6 DEF Runs, PCs, Kinds, Attempts, Fresh
      <3> QED
        BY <1>1, <2>1, <3>1, NewRun DEF TypeOK
    <2>2. ASSUME run' = [run EXCEPT ![p] = [run[p] EXCEPT !.pc = "finish"]]
          PROVE  OnlyRunOf(p) /\ run'[p] = [run[p] EXCEPT !.pc = "finish"]
      <3>1. [run[p] EXCEPT !.pc = "finish"] \in Runs
        BY <1>6 DEF Runs, PCs, Kinds, Attempts, Fresh
      <3> QED
        BY <1>1, <2>2, <3>1, NewRun DEF TypeOK
    <2> QED
      BY <1>2, <2>1, <2>2
  <1>8. /\ run[p].pc = "decide" /\ run'[p].pc \in {"run", "finish"}
        /\ run'[p].attempt = run[p].attempt /\ run'[p].container = run[p].container
        /\ run'[p].network = run[p].network
        /\ \/ RanToCompletion(p) /\ run'[p].stage = "oracle" /\ run'[p].rc = "none"
           \/ run'[p].pc = "finish" /\ run'[p].stage = run[p].stage
              /\ run'[p].rc = run[p].rc /\ run'[p].err = run[p].err
    BY <1>3, <1>6, <1>7 DEF Runs
  <1>9. TypeOK'
    <2>1. run' \in [Procs -> Runs]
      BY <1>7 DEF OnlyRunOf
    <2>2. box' \in [Kinds -> Boxes] /\ net' \in Procs \cup {Nobody}
      BY <1>1, <1>3 DEF TypeOK
    <2>3. /\ out' \in [Procs -> SUBSET Attempts] /\ evidence' \in [Procs -> SUBSET Attempts]
          /\ undiscarded' \in SUBSET Procs
      BY <1>1, <1>4 DEF TypeOK, Runs
    <2> QED
      BY <1>1, <1>5, <2>1, <2>2, <2>3 DEF TypeOK
  <1>10. Owned'
    BY <1>1, <1>3 DEF Owned
  <1>11. OthersUntouched(p)
    BY <1>1, <1>3, <1>4 DEF TypeOK, Runs, OthersUntouched, Owned, ProcInv, Handles
  <1>12. ProcInv(p)'
    <2>1. Handles(p)'
      BY <1>1, <1>3, <1>8 DEF ProcInv, Handles
    <2>2. SimOver(p)'
      BY <1>1, <1>3, <1>6, <1>8 DEF Kinds, ProcInv, SimOver, RanToCompletion, Alive
    <2>3. FilesOfTheAttempt(p)'
      BY <1>1, <1>4, <1>8 DEF TypeOK, ProcInv, FilesOfTheAttempt
    <2> QED
      BY <2>1, <2>2, <2>3 DEF ProcInv
  <1> QED
    BY <1>7, <1>9, <1>10, <1>11, <1>12, OneProcessMoves

\* The verdict keeps the invariant.
LEMMA FinishKeeps ==
    ASSUME NEW p \in Procs, IInv, Finish(p)
    PROVE  IInv'
  <1> USE DEF Finish, Discard
  <1>1. TypeOK /\ Owned /\ ProcInv(p)
    BY DEF IInv
  <1>2. \/ run' = [run EXCEPT ![p] = [run[p] EXCEPT !.pc = "ok"]]
        \/ run' = [run EXCEPT ![p] = [run[p] EXCEPT !.pc = "error"]]
    OBVIOUS
  <1>3. /\ UNCHANGED net
        /\ box' \in [Kinds -> Boxes]
        /\ \A k \in Kinds : /\ box'[k].owner = box[k].owner
                            /\ box'[k].attempt = box[k].attempt
                            /\ box'[k].state = box[k].state
                            /\ box'[k] = box[k] \/ box[k].owner = p
    <2>1. \/ UNCHANGED box
          \/ box' = [k \in Kinds |->
               IF box[k].owner = p THEN [box[k] EXCEPT !.bound = FALSE] ELSE box[k]]
      OBVIOUS
    <2> QED
      BY <1>1, <2>1, Unbound DEF TypeOK
  <1>4. /\ UNCHANGED evidence
        /\ (p \in undiscarded' /\ UNCHANGED out) \/ out' = [out EXCEPT ![p] = {}]
        /\ undiscarded' \in {undiscarded, undiscarded \cup {p}}
    OBVIOUS
  <1>5. /\ scratch' \in BOOLEAN /\ faults' \in 0 .. MaxFaults /\ UNCHANGED config
        /\ image' \in {"local", "missing"}
    BY <1>1, CaseRunAssumption DEF TypeOK
  <1>6. /\ run[p] \in Runs /\ run[p].stage \in Kinds
        /\ run[p].pc = "finish"
    BY <1>1 DEF TypeOK, Runs
  <1> HIDE DEF Finish, Discard
  <1>7. /\ OnlyRunOf(p)
        /\ \/ run'[p] = [run[p] EXCEPT !.pc = "ok"]
           \/ run'[p] = [run[p] EXCEPT !.pc = "error"]
    <2>1. ASSUME run' = [run EXCEPT ![p] = [run[p] EXCEPT !.pc = "ok"]]
          PROVE  OnlyRunOf(p) /\ run'[p] = [run[p] EXCEPT !.pc = "ok"]
      <3>1. [run[p] EXCEPT !.pc = "ok"] \in Runs
        BY <1>6 DEF Runs, PCs, Kinds, Attempts, Fresh
      <3> QED
        BY <1>1, <2>1, <3>1, NewRun DEF TypeOK
    <2>2. ASSUME run' = [run EXCEPT ![p] = [run[p] EXCEPT !.pc = "error"]]
          PROVE  OnlyRunOf(p) /\ run'[p] = [run[p] EXCEPT !.pc = "error"]
      <3>1. [run[p] EXCEPT !.pc = "error"] \in Runs
        BY <1>6 DEF Runs, PCs, Kinds, Attempts, Fresh
      <3> QED
        BY <1>1, <2>2, <3>1, NewRun DEF TypeOK
    <2> QED
      BY <1>2, <2>1, <2>2
  <1>8. /\ run[p].pc = "finish" /\ run'[p].pc \in {"ok", "error"}
        /\ run'[p].stage = run[p].stage /\ run'[p].attempt = run[p].attempt
        /\ run'[p].network = run[p].network
        /\ run'[p].rc = run[p].rc /\ run'[p].err = run[p].err
        /\ run'[p].container = run[p].container
    BY <1>3, <1>6, <1>7 DEF Runs
  <1>9. TypeOK'
    <2>1. run' \in [Procs -> Runs]
      BY <1>7 DEF OnlyRunOf
    <2>2. box' \in [Kinds -> Boxes] /\ net' \in Procs \cup {Nobody}
      BY <1>1, <1>3 DEF TypeOK
    <2>3. /\ out' \in [Procs -> SUBSET Attempts] /\ evidence' \in [Procs -> SUBSET Attempts]
          /\ undiscarded' \in SUBSET Procs
      BY <1>1, <1>4 DEF TypeOK, Runs
    <2> QED
      BY <1>1, <1>5, <2>1, <2>2, <2>3 DEF TypeOK
  <1>10. Owned'
    BY <1>1, <1>3 DEF Owned
  <1>11. OthersUntouched(p)
    <2>1. \A q \in Procs \ {p} :
            out'[q] = out[q] /\ evidence'[q] = evidence[q]
              /\ (q \in undiscarded' <=> q \in undiscarded)
      BY <1>1, <1>4 DEF TypeOK
    <2> QED
      BY <1>1, <1>3, <2>1 DEF OthersUntouched
  <1>12. ProcInv(p)'
    <2>1. Handles(p)'
      BY <1>1, <1>3, <1>8 DEF ProcInv, Handles
    <2>2. SimOver(p)'
      BY <1>1, <1>3, <1>6, <1>8 DEF Kinds, ProcInv, SimOver, RanToCompletion, Alive
    <2>3. FilesOfTheAttempt(p)'
      BY <1>1, <1>4, <1>8 DEF TypeOK, ProcInv, FilesOfTheAttempt
    <2> QED
      BY <2>1, <2>2, <2>3 DEF ProcInv
  <1> QED
    BY <1>7, <1>9, <1>10, <1>11, <1>12, OneProcessMoves

\* A crash at any point keeps the invariant.
LEMMA CrashKeeps ==
    ASSUME NEW p \in Procs, IInv, Crash(p)
    PROVE  IInv'
  <1> USE DEF Crash
  <1>1. TypeOK /\ Owned /\ ProcInv(p)
    BY DEF IInv
  <1>2. run' = [run EXCEPT ![p] = [run[p] EXCEPT !.pc = "dead"]]
    OBVIOUS
  <1>3. UNCHANGED <<box, net>>
    OBVIOUS
  <1>4. UNCHANGED <<out, evidence, undiscarded>>
    OBVIOUS
  <1>5. /\ scratch' \in BOOLEAN /\ faults' \in 0 .. MaxFaults /\ UNCHANGED config
        /\ image' \in {"local", "missing"}
    BY <1>1, CaseRunAssumption DEF TypeOK
  <1>6. run[p] \in Runs /\ run[p].stage \in Kinds
    BY <1>1 DEF TypeOK, Runs
  <1> HIDE DEF Crash
  <1>7. /\ OnlyRunOf(p)
        /\ run'[p] = [run[p] EXCEPT !.pc = "dead"]
    <2>1. ASSUME run' = [run EXCEPT ![p] = [run[p] EXCEPT !.pc = "dead"]]
          PROVE  OnlyRunOf(p) /\ run'[p] = [run[p] EXCEPT !.pc = "dead"]
      <3>1. [run[p] EXCEPT !.pc = "dead"] \in Runs
        BY <1>6 DEF Runs, PCs, Kinds, Attempts, Fresh
      <3> QED
        BY <1>1, <2>1, <3>1, NewRun DEF TypeOK
    <2> QED
      BY <1>2, <2>1
  <1>8. /\ run'[p].pc = "dead"
        /\ run'[p].stage = run[p].stage /\ run'[p].attempt = run[p].attempt
        /\ run'[p].network = run[p].network
        /\ run'[p].rc = run[p].rc /\ run'[p].err = run[p].err
        /\ run'[p].container = run[p].container
    BY <1>3, <1>6, <1>7 DEF Runs
  <1>9. TypeOK'
    <2>1. run' \in [Procs -> Runs]
      BY <1>7 DEF OnlyRunOf
    <2>2. box' \in [Kinds -> Boxes] /\ net' \in Procs \cup {Nobody}
      BY <1>1, <1>3 DEF TypeOK
    <2>3. /\ out' \in [Procs -> SUBSET Attempts] /\ evidence' \in [Procs -> SUBSET Attempts]
          /\ undiscarded' \in SUBSET Procs
      BY <1>1, <1>4 DEF TypeOK, Runs
    <2> QED
      BY <1>1, <1>5, <2>1, <2>2, <2>3 DEF TypeOK
  <1>10. Owned'
    BY <1>1, <1>3 DEF Owned
  <1>11. OthersUntouched(p)
    BY <1>1, <1>3, <1>4 DEF TypeOK, Runs, OthersUntouched, Owned, ProcInv, Handles
  <1>12. ProcInv(p)'
    <2>1. Handles(p)'
      BY <1>1, <1>3, <1>8 DEF ProcInv, Handles
    <2>2. SimOver(p)'
      BY <1>1, <1>3, <1>6, <1>8 DEF Kinds, ProcInv, SimOver, RanToCompletion, Alive
    <2>3. FilesOfTheAttempt(p)'
      BY <1>1, <1>4, <1>8 DEF TypeOK, ProcInv, FilesOfTheAttempt
    <2> QED
      BY <2>1, <2>2, <2>3 DEF ProcInv
  <1> QED
    BY <1>7, <1>9, <1>10, <1>11, <1>12, OneProcessMoves

\* What a container does by itself keeps the invariant.
LEMMA ExitsKeeps ==
    ASSUME NEW k \in Kinds, IInv, Exits(k)
    PROVE  IInv'
  <1>1. TypeOK /\ Owned /\ \A p \in Procs : ProcInv(p)
    BY DEF IInv
  <1>2. /\ box[k].state = "running"
        /\ \E s \in {"ok", "failed", "hung"} : box' = [box EXCEPT ![k].state = s]
        /\ UNCHANGED <<config, run, files, net, image, scratch, faults>>
    BY DEF Exits
  <1>3. TypeOK'
    <2>1. box' \in [Kinds -> Boxes]
      BY <1>1, <1>2 DEF TypeOK, Boxes
    <2> QED
      BY <1>1, <1>2, <2>1 DEF TypeOK
  <1>4. /\ \A j \in Kinds : box'[j].owner = box[j].owner /\ box'[j].attempt = box[j].attempt
        /\ \A j \in Kinds :
             box'[j] = box[j] \/ (j = k /\ box'[j].state \in {"ok", "failed", "hung"})
    BY <1>1, <1>2 DEF TypeOK, Boxes
  <1>5. Owned'
    BY <1>1, <1>2, <1>4 DEF Owned
  <1>6. ASSUME NEW p \in Procs
        PROVE  ProcInv(p)'
    <2>1. ProcInv(p) /\ run[p].stage \in Kinds /\ "sim" \in Kinds
      BY <1>1 DEF TypeOK, Runs, Kinds
    <2>2. Handles(p)'
      BY <1>2, <1>4, <2>1 DEF ProcInv, Handles
    <2>3. SimOver(p)'
      BY <1>2, <1>4, <2>1 DEF ProcInv, SimOver, RanToCompletion, Alive
    <2>4. FilesOfTheAttempt(p)'
      BY <1>2, <2>1 DEF ProcInv, FilesOfTheAttempt
    <2> QED
      BY <2>2, <2>3, <2>4 DEF ProcInv
  <1> QED
    BY <1>3, <1>5, <1>6 DEF IInv

\* So does the removal of the image.
LEMMA ImageRemovedKeeps ==
    ASSUME IInv, ImageRemoved
    PROVE  IInv'
  <1>1. /\ UNCHANGED <<config, run, files, box, net, scratch>>
        /\ image' = "missing" /\ faults < MaxFaults /\ faults' = faults + 1
    BY DEF ImageRemoved
  <1>2. TypeOK'
    <2>1. faults' \in 0 .. MaxFaults
      BY <1>1, CaseRunAssumption DEF IInv, TypeOK
    <2>2. scratch' \in BOOLEAN
      BY <1>1, Zenon DEF IInv, TypeOK
    <2> QED
      BY <1>1, <2>1, <2>2 DEF IInv, TypeOK
  <1> QED
    BY <1>1, <1>2
       DEF IInv, Owned, ProcInv, Handles, SimOver, RanToCompletion, Alive, FilesOfTheAttempt

-----------------------------------------------------------------------------
(* The invariant holds in every reachable state, and what follows from it. *)

\* Any step keeps the invariant.
LEMMA StepKeeps == IInv /\ [Next]_vars => IInv'
  <1> SUFFICES ASSUME IInv, [Next]_vars
               PROVE  IInv'
    OBVIOUS
  <1>1. ASSUME NEW p \in Procs, CaseStep(p)
        PROVE  IInv'
    BY <1>1, PrepareKeeps, CreateNetworkKeeps, SuperviseKeeps,
       CleanupKeeps, RemoveNetworkKeeps, DiscardScratchKeeps, ZipKeeps, RetryKeeps,
       DecideKeeps, FinishKeeps, BothRunContainers, ContainersRunKeeps
       DEF CaseStep
  <1>2. ASSUME NEW p \in Procs, Crash(p)
        PROVE  IInv'
    BY <1>2, CrashKeeps
  <1>3. ASSUME NEW k \in Kinds, Exits(k)
        PROVE  IInv'
    BY <1>3, ExitsKeeps
  <1>4. CASE UNCHANGED vars
    BY <1>4
       DEF IInv, TypeOK, Owned, ProcInv, Handles, SimOver, RanToCompletion, Alive,
           FilesOfTheAttempt
  <1>5. ASSUME NEW p \in Procs, ImplicitPull(p)
        PROVE  IInv'
    BY <1>5, BothRunContainers, ContainersRunKeeps
  <1>6. ASSUME ImageRemoved
        PROVE  IInv'
    BY <1>6, ImageRemovedKeeps
  <1> QED
    BY <1>1, <1>2, <1>3, <1>4, <1>5, <1>6 DEF Next, Terminated

\* The inductive invariant holds throughout.
LEMMA Invariance == Spec => []IInv
  <1>1. Init => IInv
    BY Initially
  <1>2. IInv /\ [Next]_vars => IInv'
    BY StepKeeps
  <1> QED
    BY <1>1, <1>2, PTL DEF Spec

\* The variables keep their types; in particular no run gets to a third attempt
\* (main.py _run_once retries a lost GPU once).
THEOREM TypeCorrect == Spec => []TypeOK
  <1>1. IInv => TypeOK
    BY DEF IInv
  <1> QED
    BY <1>1, Invariance, PTL

\* The finally of run_sim_case and run_oracle only stops and removes what its own try
\* started, however many processes run the same case under the same names.
THEOREM HandlesAreMineAlways == Spec => []HandlesAreMine
  <1>1. IInv => HandlesAreMine
    BY DEF IInv, ProcInv, Handles, HandlesAreMine
  <1> QED
    BY <1>1, Invariance, PTL

\* An oracle's directory is never being written to by the sim it judges, although
\* stopping and removing that sim is best effort: a sim that outlived its teardown
\* was given up, and then no oracle runs.
THEOREM EvidenceStaysStill == Spec => []EvidenceIsStill
  <1>1. IInv => EvidenceIsStill
    BY DEF IInv, ProcInv, SimOver, EvidenceIsStill
  <1> QED
    BY <1>1, Invariance, PTL

\* The zip of a run that succeeded holds the last attempt's output only, as long as
\* its process could discard its directories.
THEOREM EvidenceIsOfTheLastAttempt == Spec => []EvidenceOfTheLastAttempt
  <1>1. IInv => EvidenceOfTheLastAttempt
    BY DEF IInv, ProcInv, FilesOfTheAttempt, EvidenceOfTheLastAttempt
  <1> QED
    BY <1>1, Invariance, PTL

-----------------------------------------------------------------------------
(* Without faults the runs leave nothing behind.                           *)

\* What a process may hold at which step, and what of the oracle's stage it no longer has.
Held(p) ==
    /\ run[p].stage = "oracle" =>
         /\ run[p].pc \in {"run", "pull", "supervise", "cleanup", "finish", "ok", "error"}
         /\ run[p].network = FALSE /\ run[p].scratch = FALSE
    /\ run[p].container = TRUE => run[p].pc \in {"supervise", "cleanup"}
    /\ run[p].network = TRUE => run[p].pc \in {"run", "pull", "supervise", "cleanup", "unnet"}
    /\ run[p].scratch = TRUE =>
         run[p].pc \in {"network", "run", "pull", "supervise", "cleanup", "unnet", "unscratch"}

\* Whatever exists is held by a process, which is not past giving it back.
BoxHeld(k) ==
    \/ box[k] = Absent
    \/ \E p \in Procs : box[k].owner = p /\ run[p].container = TRUE /\ run[p].stage = k
NetHeld == net = Nobody \/ \E p \in Procs : net = p /\ run[p].network = TRUE
ScratchHeld == scratch = TRUE => \E p \in Procs : run[p].scratch = TRUE

AllHeld ==
    /\ \A p \in Procs : Held(p)
    /\ \A k \in Kinds : BoxHeld(k)
    /\ NetHeld /\ ScratchHeld

\* The invariant of runs without a fault.
Tidy == faults = 0 => AllHeld

\* A step from and to a run without faults is none itself.
LEMMA Known ==
    ASSUME IInv, Tidy, faults' = 0, NEW p \in Procs
    PROVE  /\ run \in [Procs -> Runs] /\ run[p] \in Runs /\ run[p].stage \in Kinds
           /\ run[p].container \in BOOLEAN /\ run[p].network \in BOOLEAN
           /\ run[p].scratch \in BOOLEAN /\ scratch \in BOOLEAN
           /\ box \in [Kinds -> Boxes] /\ faults \in Nat /\ p # Nobody
           /\ (faults = 0 => AllHeld /\ Held(p))
  BY CaseRunAssumption DEF IInv, TypeOK, Runs, Tidy, AllHeld

OthersGoOn(p) == \A q \in Procs \ {p} : run'[q] = run[q]

\* A new record for p.
LEMMA NewRecord ==
    ASSUME IInv, NEW p \in Procs, NEW r, run' = [run EXCEPT ![p] = r]
    PROVE  OthersGoOn(p) /\ run'[p] = r
  BY DEF OthersGoOn, IInv, TypeOK

\* A step of p only gives up what it gives back, and takes hold of what it makes.
LEMMA HandsOver ==
    ASSUME IInv, Tidy, faults = 0, faults' = 0, NEW p \in Procs, OthersGoOn(p), Held(p)',
           \A k \in Kinds :
              \/ /\ box'[k] = box[k]
                 /\ run[p].container = TRUE /\ run[p].stage = k =>
                      run'[p].container = TRUE /\ run'[p].stage = k
              \/ box'[k] = Absent
              \/ box'[k].owner = p /\ run'[p].container = TRUE /\ run'[p].stage = k,
           \/ net' = net /\ (run[p].network = TRUE => run'[p].network = TRUE)
           \/ net' = Nobody
           \/ net' = p /\ run'[p].network = TRUE,
           \/ scratch' = scratch /\ (run[p].scratch = TRUE => run'[p].scratch = TRUE)
           \/ scratch' = FALSE
           \/ run'[p].scratch = TRUE
    PROVE  Tidy'
  <1>0. /\ \A q \in Procs : Held(q)
        /\ \A k \in Kinds : BoxHeld(k)
        /\ NetHeld /\ ScratchHeld
        /\ scratch \in BOOLEAN
    BY DEF IInv, TypeOK, Tidy, AllHeld
  <1>1. \A q \in Procs : Held(q)'
    BY <1>0 DEF Held, OthersGoOn
  <1>2. \A k \in Kinds : BoxHeld(k)'
    BY <1>0 DEF BoxHeld, OthersGoOn
  <1>3. NetHeld'
    BY <1>0 DEF NetHeld, OthersGoOn
  <1>4. ScratchHeld'
    BY <1>0 DEF ScratchHeld, OthersGoOn
  <1> QED
    BY <1>1, <1>2, <1>3, <1>4 DEF Tidy, AllHeld

\* Prepared, with a scratch tree or without.
LEMMA PrepareTidy ==
    ASSUME IInv, Tidy, faults' = 0, NEW p \in Procs, Prepare(p)
    PROVE  Tidy'
  <1>0. faults = 0 /\ faults' = faults
    BY Known DEF Prepare, ImageEnsured
  <1>1. \/ /\ run' = [run EXCEPT ![p] = [run[p] EXCEPT !.pc = "network"]]
           /\ scratch' = scratch
        \/ run' = [run EXCEPT ![p] = [run[p] EXCEPT !.pc = "network", !.scratch = TRUE]]
    BY <1>0, Known DEF Prepare, ImageEnsured
  <1>2. /\ OthersGoOn(p)
        /\ \/ /\ run'[p] = [run[p] EXCEPT !.pc = "network"]
              /\ scratch' = scratch
           \/ run'[p] = [run[p] EXCEPT !.pc = "network", !.scratch = TRUE]
    BY <1>1, NewRecord
  <1>3. /\ run'[p].pc = "network" /\ run'[p].stage = run[p].stage
        /\ run'[p].container = run[p].container /\ run'[p].network = run[p].network
        /\ run'[p].scratch = TRUE \/ (run'[p].scratch = run[p].scratch /\ scratch' = scratch)
    BY <1>0, <1>2, Known DEF Runs
  <1>4. Held(p)'
    BY <1>0, <1>2, <1>3, Known DEF Held, Prepare
  <1> QED
    BY <1>0, <1>2, <1>3, <1>4, Known, HandsOver DEF Held, Prepare

\* The network is created, or refused.
LEMMA CreateNetworkTidy ==
    ASSUME IInv, Tidy, faults' = 0, NEW p \in Procs, CreateNetwork(p)
    PROVE  Tidy'
  <1>0. faults = 0 /\ faults' = faults
    BY Known DEF CreateNetwork
  <1>1. \/ /\ run' = [run EXCEPT ![p] = [run[p] EXCEPT !.pc = "run", !.network = TRUE]]
           /\ net' = p
        \/ /\ run' = [run EXCEPT ![p] = [run[p] EXCEPT !.pc = "cleanup", !.err = "infra"]]
           /\ net' = net
    BY <1>0, Known DEF CreateNetwork
  <1>2. /\ OthersGoOn(p)
        /\ \/ /\ run'[p] = [run[p] EXCEPT !.pc = "run", !.network = TRUE]
              /\ net' = p
           \/ /\ run'[p] = [run[p] EXCEPT !.pc = "cleanup", !.err = "infra"]
              /\ net' = net
    BY <1>1, NewRecord
  <1>3. /\ run'[p].pc \in {"run", "cleanup"} /\ run'[p].stage = run[p].stage
        /\ run'[p].container = run[p].container /\ run'[p].scratch = run[p].scratch
        /\ (run'[p].network = TRUE /\ net' = p) \/ (run'[p].network = run[p].network /\ net' = net)
    BY <1>0, <1>2, Known DEF Runs
  <1>4. Held(p)'
    BY <1>0, <1>2, <1>3, Known DEF Held, CreateNetwork
  <1> QED
    BY <1>0, <1>2, <1>3, <1>4, Known, HandsOver DEF Held, CreateNetwork

\* The container is started, or its name refused, or its image pulled first.
LEMMA ContainersRunTidy ==
    ASSUME IInv, Tidy, faults' = 0, NEW p \in Procs, ContainersRun(p)
    PROVE  Tidy'
  <1>0. faults = 0 /\ faults' = faults
    BY Known DEF ContainersRun, Creates
  <1>1. \/ /\ run' = [run EXCEPT ![p] = [run[p] EXCEPT !.pc = "supervise", !.container = TRUE]]
           /\ Created(p, "running")
        \/ /\ run' = [run EXCEPT ![p] = [run[p] EXCEPT !.pc = "cleanup", !.err = "infra"]]
           /\ box' = box
        \/ /\ run' = [run EXCEPT ![p] = [run[p] EXCEPT !.pc = "pull"]]
           /\ box' = box
    BY <1>0, Known DEF ContainersRun, Creates
  <1>2. /\ OthersGoOn(p)
        /\ \/ /\ run'[p] = [run[p] EXCEPT !.pc = "supervise", !.container = TRUE]
              /\ Created(p, "running")
           \/ /\ run'[p] = [run[p] EXCEPT !.pc = "cleanup", !.err = "infra"]
              /\ box' = box
           \/ /\ run'[p] = [run[p] EXCEPT !.pc = "pull"]
              /\ box' = box
    BY <1>1, NewRecord
  <1>3. /\ run'[p].stage = run[p].stage
        /\ run'[p].pc \in {"supervise", "cleanup", "pull"}
        /\ run'[p].network = run[p].network /\ run'[p].scratch = run[p].scratch
        /\ \/ /\ run'[p].container = TRUE /\ run'[p].pc = "supervise"
              /\ Created(p, "running")
           \/ run'[p].container = run[p].container /\ box' = box
    BY <1>0, <1>2, Known DEF Runs
  <1>4. Held(p)'
    BY <1>0, <1>2, <1>3, Known DEF Held, ContainersRun
  <1>5. ASSUME Created(p, "running")
        PROVE  /\ box'[run[p].stage].owner = p
               /\ \A j \in Kinds \ {run[p].stage} : box'[j] = box[j]
    BY <1>5, Known DEF Created
  <1> QED
    BY <1>0, <1>2, <1>3, <1>4, <1>5, Known, HandsOver DEF Held, ContainersRun

\* The supervision ends.
LEMMA SuperviseTidy ==
    ASSUME IInv, Tidy, faults' = 0, NEW p \in Procs, Supervise(p)
    PROVE  Tidy'
  <1>0. faults = 0 /\ faults' = faults
    BY Known DEF Supervise, Supervised
  <1>1. \E rc \in {"none", "zero", "nonzero"}, err \in {"none", "timeout", "gpu_lost"} :
          run' = [run EXCEPT ![p] = [run[p] EXCEPT !.pc = "cleanup", !.rc = rc, !.err = err]]
    BY <1>0, Known DEF Supervise, Supervised
  <1>2. PICK rc \in {"none", "zero", "nonzero"}, err \in {"none", "timeout", "gpu_lost"} :
          run' = [run EXCEPT ![p] = [run[p] EXCEPT !.pc = "cleanup", !.rc = rc, !.err = err]]
    BY <1>1
  <1>3. /\ OthersGoOn(p)
        /\ run'[p] = [run[p] EXCEPT !.pc = "cleanup", !.rc = rc, !.err = err]
    BY <1>2, NewRecord
  <1>4. /\ run'[p].pc = "cleanup" /\ run'[p].stage = run[p].stage
        /\ run'[p].container = run[p].container /\ run'[p].network = run[p].network
        /\ run'[p].scratch = run[p].scratch
    BY <1>0, <1>3, Known DEF Runs
  <1>5. Held(p)'
    BY <1>0, <1>4, Known DEF Held, Supervise
  <1> QED
    BY <1>0, <1>3, <1>4, <1>5, Known, HandsOver DEF Supervise

\* The container is gone.
LEMMA CleanupTidy ==
    ASSUME IInv, Tidy, faults' = 0, NEW p \in Procs, Cleanup(p)
    PROVE  Tidy'
  <1>0. faults = 0 /\ faults' = faults
    BY Known DEF Cleanup
  <1>1. run' = [run EXCEPT ![p] = [run[p] EXCEPT
                  !.pc = IF run[p].stage = "sim" THEN "unnet" ELSE "finish",
                  !.container = FALSE]]
    BY <1>0, Known DEF Cleanup
  <1>2. /\ OthersGoOn(p)
        /\ run'[p] = [run[p] EXCEPT
                  !.pc = IF run[p].stage = "sim" THEN "unnet" ELSE "finish",
                  !.container = FALSE]
    BY <1>1, NewRecord
  <1>3. /\ run'[p].pc = (IF run[p].stage = "sim" THEN "unnet" ELSE "finish")
        /\ run'[p].container = FALSE /\ run'[p].stage = run[p].stage
        /\ run'[p].network = run[p].network /\ run'[p].scratch = run[p].scratch
    BY <1>0, <1>2, Known DEF Runs
  <1>4. Held(p)'
    BY <1>0, <1>2, <1>3, Known DEF Held, Cleanup, Kinds
  <1>5. \A j \in Kinds :
          \/ box'[j] = Absent
          \/ box'[j] = box[j] /\ ~(run[p].container = TRUE /\ run[p].stage = j)
    <2>1. \/ run[p].container = FALSE /\ box' = box
          \/ box' = [box EXCEPT ![run[p].stage] = Absent]
      BY <1>0, Known DEF Cleanup, Removed
    <2> QED
      BY <2>1, Known
  <1> QED
    BY <1>0, <1>2, <1>3, <1>4, <1>5, Known, HandsOver DEF Held, Cleanup

\* The network is removed: no container of p is alive at it.
LEMMA RemoveNetworkTidy ==
    ASSUME IInv, Tidy, faults' = 0, NEW p \in Procs, RemoveNetwork(p)
    PROVE  Tidy'
  <1>0. faults = 0 /\ faults' = faults
    BY Known DEF RemoveNetwork
  <1>1. run' = [run EXCEPT ![p] = [run[p] EXCEPT !.pc = "unscratch", !.network = FALSE]]
    BY DEF RemoveNetwork
  <1>2. /\ OthersGoOn(p)
        /\ run'[p] = [run[p] EXCEPT !.pc = "unscratch", !.network = FALSE]
    BY <1>1, NewRecord
  <1>3. /\ run'[p].pc = "unscratch" /\ run'[p].network = FALSE
        /\ run'[p].stage = run[p].stage
        /\ run'[p].container = run[p].container /\ run'[p].scratch = run[p].scratch
    BY <1>0, <1>2, Known DEF Runs
  <1>4. Held(p)'
    BY <1>0, <1>2, <1>3, Known DEF Held, RemoveNetwork
  <1>5. ~(box["sim"].owner = p /\ Alive("sim"))
    <2>1. BoxHeld("sim") /\ run[p].container = FALSE
      BY <1>0, Known DEF AllHeld, Held, RemoveNetwork, Kinds
    <2> QED
      BY <2>1, Known DEF BoxHeld, Absent
  <1>6. net' = Nobody \/ (net' = net /\ run[p].network = FALSE)
    BY <1>0, <1>5, Known DEF RemoveNetwork
  <1> QED
    BY <1>0, <1>2, <1>3, <1>4, <1>6, Known, HandsOver DEF RemoveNetwork

\* The scratch tree is discarded.
LEMMA DiscardScratchTidy ==
    ASSUME IInv, Tidy, faults' = 0, NEW p \in Procs, DiscardScratch(p)
    PROVE  Tidy'
  <1>0. faults = 0 /\ faults' = faults
    BY Known DEF DiscardScratch
  <1>1. run' = [run EXCEPT ![p] = [run[p] EXCEPT !.pc = "zip", !.scratch = FALSE]]
    BY <1>0, Known DEF DiscardScratch
  <1>2. /\ OthersGoOn(p)
        /\ run'[p] = [run[p] EXCEPT !.pc = "zip", !.scratch = FALSE]
    BY <1>1, NewRecord
  <1>3. /\ run'[p].pc = "zip" /\ run'[p].scratch = FALSE
        /\ run'[p].stage = run[p].stage
        /\ run'[p].container = run[p].container /\ run'[p].network = run[p].network
    BY <1>0, <1>2, Known DEF Runs
  <1>4. Held(p)'
    BY <1>0, <1>2, <1>3, Known DEF Held, DiscardScratch
  <1>5. scratch' = FALSE \/ (scratch' = scratch /\ run[p].scratch = FALSE)
    BY <1>0, Known DEF DiscardScratch
  <1> QED
    BY <1>0, <1>2, <1>3, <1>4, <1>5, Known, HandsOver DEF Held, DiscardScratch

\* The output is zipped.
LEMMA ZipTidy ==
    ASSUME IInv, Tidy, faults' = 0, NEW p \in Procs, Zip(p)
    PROVE  Tidy'
  <1>0. faults = 0 /\ faults' = faults
    BY Known DEF Zip
  <1>1. run' = [run EXCEPT ![p] = [run[p] EXCEPT !.pc = "decide"]]
    BY <1>0, Known DEF Zip
  <1>2. /\ OthersGoOn(p)
        /\ run'[p] = [run[p] EXCEPT !.pc = "decide"]
    BY <1>1, NewRecord
  <1>3. /\ run'[p].pc = "decide" /\ run'[p].stage = run[p].stage
        /\ run'[p].container = run[p].container /\ run'[p].network = run[p].network
        /\ run'[p].scratch = run[p].scratch
    BY <1>0, <1>2, Known DEF Runs
  <1>4. Held(p)'
    BY <1>0, <1>2, <1>3, Known DEF Held, Zip
  <1> QED
    BY <1>0, <1>2, <1>3, <1>4, Known, HandsOver DEF Held, Zip

\* A discard touches no container, for p has none by then.
LEMMA NothingToUnbind ==
    ASSUME IInv, Tidy, faults' = 0, faults = 0, NEW p \in Procs, Discard(p),
           run[p].pc \in {"decide", "finish"}
    PROVE  \A k \in Kinds : box'[k] = box[k]
  <1>1. box' = [k \in Kinds |->
                  IF box[k].owner = p THEN [box[k] EXCEPT !.bound = FALSE] ELSE box[k]]
    BY DEF Discard
  <1>2. ASSUME NEW k \in Kinds PROVE box[k].owner # p
    <2>1. BoxHeld(k) /\ run[p].container = FALSE
      BY Known DEF AllHeld, Held
    <2> QED
      BY <2>1, Known DEF BoxHeld, Absent
  <1> QED
    BY <1>1, <1>2

\* The retry starts over.
LEMMA RetryTidy ==
    ASSUME IInv, Tidy, faults' = 0, NEW p \in Procs, Retry(p)
    PROVE  Tidy'
  <1>0. faults = 0 /\ faults' = faults
    BY Known DEF Retry, ClearForRetry, Discard
  <1>1. OthersGoOn(p) /\ run'[p] = Fresh(run[p].attempt + 1)
    BY NewRecord DEF Retry
  <1>2. Held(p)'
    BY <1>1 DEF Held, Fresh
  <1>3. /\ run[p].container = FALSE /\ run[p].network = FALSE /\ run[p].scratch = FALSE
        /\ run[p].pc = "decide"
    BY <1>0, Known DEF Held, Retry
  <1>4. \A k \in Kinds : box'[k] = box[k]
    BY <1>0, <1>3, NothingToUnbind DEF Retry, ClearForRetry
  <1> QED
    BY <1>0, <1>1, <1>2, <1>3, <1>4, HandsOver DEF Retry

\* The case run has its verdict.
LEMMA FinishTidy ==
    ASSUME IInv, Tidy, faults' = 0, NEW p \in Procs, Finish(p)
    PROVE  Tidy'
  <1>0. faults = 0 /\ faults' = faults
    BY Known DEF Finish, Discard
  <1>1. \/ run' = [run EXCEPT ![p] = [run[p] EXCEPT !.pc = "ok"]]
        \/ run' = [run EXCEPT ![p] = [run[p] EXCEPT !.pc = "error"]]
    BY DEF Finish
  <1>2. /\ OthersGoOn(p)
        /\ \/ run'[p] = [run[p] EXCEPT !.pc = "ok"]
           \/ run'[p] = [run[p] EXCEPT !.pc = "error"]
    BY <1>1, NewRecord
  <1>3. /\ run'[p].pc \in {"ok", "error"} /\ run'[p].stage = run[p].stage
        /\ run'[p].container = run[p].container /\ run'[p].network = run[p].network
        /\ run'[p].scratch = run[p].scratch
    BY <1>0, <1>2, Known DEF Runs
  <1>4. Held(p)'
    BY <1>0, <1>3, Known DEF Held, Finish
  <1>5. \A k \in Kinds : box'[k] = box[k]
    BY <1>0, NothingToUnbind DEF Finish
  <1> QED
    BY <1>0, <1>2, <1>3, <1>4, <1>5, HandsOver DEF Finish

\* On to the oracle, or to the verdict.
LEMMA DecideTidy ==
    ASSUME IInv, Tidy, faults' = 0, NEW p \in Procs, Decide(p)
    PROVE  Tidy'
  <1>0. faults = 0 /\ faults' = faults
    BY Known DEF Decide
  <1>1. \/ run' = [run EXCEPT ![p] = [run[p] EXCEPT
                     !.pc = "run", !.stage = "oracle", !.rc = "none", !.err = "none"]]
        \/ run' = [run EXCEPT ![p] = [run[p] EXCEPT !.pc = "finish"]]
    BY <1>0, Known DEF Decide
  <1>2. /\ OthersGoOn(p)
        /\ \/ run'[p] = [run[p] EXCEPT
                     !.pc = "run", !.stage = "oracle", !.rc = "none", !.err = "none"]
           \/ run'[p] = [run[p] EXCEPT !.pc = "finish"]
    BY <1>1, NewRecord
  <1>3. /\ run'[p].pc \in {"run", "finish"}
        /\ run'[p].stage = "oracle" \/ run'[p].stage = run[p].stage
        /\ run'[p].container = run[p].container /\ run'[p].network = run[p].network
        /\ run'[p].scratch = run[p].scratch
    BY <1>0, <1>2, Known DEF Runs
  <1>4. Held(p)'
    BY <1>0, <1>2, <1>3, Known DEF Held, Decide
  <1> QED
    BY <1>0, <1>2, <1>3, <1>4, Known, HandsOver DEF Held, Decide

\* A container's own end does not change whose it is.
LEMMA ExitsTidy ==
    ASSUME IInv, Tidy, faults' = 0, NEW k \in Kinds, Exits(k)
    PROVE  Tidy'
  <1>0. faults = 0 /\ UNCHANGED <<run, net, scratch>> /\ box[k] # Absent
    BY DEF Exits, Absent
  <1>1. AllHeld /\ box \in [Kinds -> Boxes]
    BY <1>0 DEF Tidy, IInv, TypeOK
  <1>2. \A j \in Kinds : box'[j] = box[j] \/ (j = k /\ box'[j].owner = box[j].owner)
    BY <1>1 DEF Exits, Boxes
  <1>3. \A j \in Kinds : BoxHeld(j)'
    BY <1>0, <1>1, <1>2 DEF AllHeld, BoxHeld
  <1> QED
    BY <1>0, <1>1, <1>3 DEF Tidy, AllHeld, Held, NetHeld, ScratchHeld

\* Every step keeps it.
LEMMA StaysTidy ==
    ASSUME IInv, Tidy, [Next]_vars
    PROVE  Tidy'
  <1> SUFFICES ASSUME faults' = 0 PROVE Tidy'
    BY DEF Tidy
  <1>1. ASSUME NEW p \in Procs, CaseStep(p)
        PROVE  Tidy'
    BY <1>1, PrepareTidy, CreateNetworkTidy, SuperviseTidy, CleanupTidy,
       RemoveNetworkTidy, DiscardScratchTidy, ZipTidy, RetryTidy, DecideTidy, FinishTidy,
       BothRunContainers, ContainersRunTidy
       DEF CaseStep
  <1>2. ASSUME NEW p \in Procs, Crash(p)
        PROVE  Tidy'
    BY <1>2, Known DEF Crash
  <1>3. ASSUME NEW k \in Kinds, Exits(k)
        PROVE  Tidy'
    BY <1>3, ExitsTidy
  <1>4. CASE UNCHANGED vars
    BY <1>4 DEF Tidy, AllHeld, Held, BoxHeld, NetHeld, ScratchHeld
  <1>5. ASSUME NEW p \in Procs, ImplicitPull(p)
        PROVE  Tidy'
    BY <1>5, BothRunContainers, ContainersRunTidy
  <1>6. ASSUME ImageRemoved
        PROVE  Tidy'
    BY <1>6, CaseRunAssumption DEF ImageRemoved, IInv, TypeOK
  <1> QED
    BY <1>1, <1>2, <1>3, <1>4, <1>5, <1>6 DEF Next, Terminated

\* While no fault has happened - timeouts, lost GPUs, retries and other processes at the
\* same case are none - the finally of each run removes whatever its try has made: no
\* container, network or scratch tree is left when the runs have ended.
THEOREM NothingStaysBehind == Spec => []NothingLeftBehind
  <1>1. Init => Tidy
    BY DEF Init, Tidy, AllHeld, Held, BoxHeld, NetHeld, ScratchHeld, Fresh
  <1>2. IInv /\ Tidy /\ [Next]_vars => Tidy'
    BY StaysTidy
  <1>3. Tidy => NothingLeftBehind
    BY DEF Tidy, AllHeld, Held, BoxHeld, NetHeld, ScratchHeld, NothingLeftBehind, Final
  <1> QED
    BY <1>1, <1>2, <1>3, Invariance, PTL DEF Spec

-----------------------------------------------------------------------------
(* A case run comes to its end by itself.                                  *)

\* How many steps of its own a case run has left at most, by its place in an attempt; the
\* first attempt may have the 10 steps up to its retry to make besides.
LeftInAttempt(pc, stage) ==
    CASE pc = "prepare" -> 15
      [] pc = "network" -> 14
      [] pc = "run" -> IF stage = "sim" THEN 13 ELSE 5
      [] pc = "pull" -> IF stage = "sim" THEN 12 ELSE 4
      [] pc = "supervise" -> IF stage = "sim" THEN 11 ELSE 3
      [] pc = "cleanup" -> IF stage = "sim" THEN 10 ELSE 2
      [] pc = "unnet" -> 9
      [] pc = "unscratch" -> 8
      [] pc = "zip" -> 7
      [] pc = "decide" -> 6
      [] pc = "finish" -> 1
      [] OTHER -> 0

LeftOf(r) ==
    LeftInAttempt(r.pc, r.stage) + (IF r.attempt = 1 /\ r.pc \notin Final THEN 10 ELSE 0)

Left(p) == LeftOf(run[p])

\* A shorter way on: of the same attempt, or of the second.
LEMMA OneLess ==
    ASSUME NEW r \in Runs, NEW s \in Runs, r.pc \notin Final,
           s.attempt >= r.attempt,
           LeftInAttempt(s.pc, s.stage) < LeftInAttempt(r.pc, r.stage)
    PROVE  LeftOf(s) < LeftOf(r)
  <1>1. /\ LeftInAttempt(s.pc, s.stage) \in 0 .. 15
        /\ LeftInAttempt(r.pc, r.stage) \in 0 .. 15
    BY DEF LeftInAttempt
  <1>2. r.attempt \in 1 .. 2 /\ s.attempt \in 1 .. 2
    BY DEF Runs, Attempts
  <1> QED
    BY <1>1, <1>2 DEF LeftOf

\* Every step of a case run is one fewer to come: there is one retry and one oracle.
LEMMA StepLowers ==
    ASSUME IInv, IInv', NEW p \in Procs, CaseStep(p) \/ ImplicitPull(p)
    PROVE  LeftOf(run'[p]) < LeftOf(run[p])
  <1>0. /\ run \in [Procs -> Runs] /\ run[p] \in Runs /\ run'[p] \in Runs
        /\ run[p].pc \in PCs /\ run[p].stage \in Kinds /\ run[p].attempt \in Attempts
    BY DEF IInv, TypeOK, Runs
  <1> DEFINE
        Goes(label) ==
            /\ run'[p].pc = label
            /\ run'[p].stage = run[p].stage /\ run'[p].attempt = run[p].attempt
  <1>1. CASE Prepare(p)
    <2>1. \/ run'[p] = [run[p] EXCEPT !.pc = "network"]
          \/ run'[p] = [run[p] EXCEPT !.pc = "network", !.scratch = TRUE]
          \/ run'[p] = [run[p] EXCEPT !.pc = "cleanup", !.err = "infra"]
      BY <1>0, <1>1, NewRecord DEF Prepare
    <2>2. run[p].pc = "prepare" /\ (Goes("network") \/ Goes("cleanup"))
      BY <1>0, <1>1, <2>1 DEF Prepare, Runs, Kinds
    <2> QED
      BY <1>0, <2>2, OneLess DEF LeftInAttempt, Final, Attempts, Kinds
  <1>2. CASE CreateNetwork(p)
    <2>1. \/ run'[p] = [run[p] EXCEPT !.pc = "run", !.network = TRUE]
          \/ run'[p] = [run[p] EXCEPT !.pc = "cleanup", !.err = "infra"]
      BY <1>0, <1>2, NewRecord DEF CreateNetwork
    <2>2. run[p].pc = "network" /\ (Goes("run") \/ Goes("cleanup"))
      BY <1>0, <1>2, <2>1 DEF CreateNetwork, Runs, Kinds
    <2> QED
      BY <1>0, <2>2, OneLess DEF LeftInAttempt, Final, Attempts, Kinds
  <1>3. CASE ContainersRun(p)
    <2>1. \/ run'[p] = [run[p] EXCEPT !.pc = "supervise", !.container = TRUE]
          \/ run'[p] = [run[p] EXCEPT !.pc = "cleanup", !.err = "infra"]
          \/ run[p].pc = "run" /\ run'[p] = [run[p] EXCEPT !.pc = "pull"]
      BY <1>0, <1>3, NewRecord DEF ContainersRun, Creates
    <2>2. /\ run[p].pc \in {"run", "pull"}
          /\ Goes("supervise") \/ Goes("cleanup") \/ (run[p].pc = "run" /\ Goes("pull"))
      BY <1>0, <1>3, <2>1 DEF ContainersRun, Runs, Kinds
    <2> QED
      BY <1>0, <2>2, OneLess DEF LeftInAttempt, Final, Attempts, Kinds
  <1>4. CASE Supervise(p)
    <2>1. \/ \E rc \in {"none", "zero", "nonzero"},
                err \in {"none", "timeout", "gpu_lost", "infra"} :
               run'[p] = [run[p] EXCEPT !.pc = "cleanup", !.rc = rc, !.err = err]
          \/ run'[p] = [run[p] EXCEPT !.pc = "cleanup", !.err = "infra"]
      BY <1>0, <1>4, NewRecord DEF Supervise, Supervised
    <2>2. run[p].pc = "supervise" /\ Goes("cleanup")
      BY <1>0, <1>4, <2>1 DEF Supervise, Runs, Kinds
    <2> QED
      BY <1>0, <2>2, OneLess DEF LeftInAttempt, Final, Attempts, Kinds
  <1>5. CASE Cleanup(p)
    <2>1. run'[p] = [run[p] EXCEPT
            !.pc = IF run[p].stage = "sim" THEN "unnet" ELSE "finish", !.container = FALSE]
      BY <1>0, <1>5, NewRecord DEF Cleanup
    <2>2. /\ run[p].pc = "cleanup"
          /\ IF run[p].stage = "sim" THEN Goes("unnet") ELSE Goes("finish")
      BY <1>0, <1>5, <2>1 DEF Cleanup, Runs, Kinds
    <2> QED
      BY <1>0, <2>2, OneLess DEF LeftInAttempt, Final, Attempts, Kinds
  <1>6. CASE RemoveNetwork(p)
    <2>1. run'[p] = [run[p] EXCEPT !.pc = "unscratch", !.network = FALSE]
      BY <1>0, <1>6, NewRecord DEF RemoveNetwork
    <2>2. run[p].pc = "unnet" /\ Goes("unscratch")
      BY <1>0, <1>6, <2>1 DEF RemoveNetwork, Runs, Kinds
    <2> QED
      BY <1>0, <2>2, OneLess DEF LeftInAttempt, Final, Attempts, Kinds
  <1>7. CASE DiscardScratch(p)
    <2>1. run'[p] = [run[p] EXCEPT !.pc = "zip", !.scratch = FALSE]
      BY <1>0, <1>7, NewRecord DEF DiscardScratch
    <2>2. run[p].pc = "unscratch" /\ Goes("zip")
      BY <1>0, <1>7, <2>1 DEF DiscardScratch, Runs, Kinds
    <2> QED
      BY <1>0, <2>2, OneLess DEF LeftInAttempt, Final, Attempts, Kinds
  <1>8. CASE Zip(p)
    <2>1. \/ run'[p] = [run[p] EXCEPT !.pc = "decide"]
          \/ run'[p] = [run[p] EXCEPT !.pc = "raised"]
      BY <1>0, <1>8, NewRecord DEF Zip
    <2>2. run[p].pc = "zip" /\ (Goes("decide") \/ Goes("raised"))
      BY <1>0, <1>8, <2>1 DEF Zip, Runs, Kinds
    <2> QED
      BY <1>0, <2>2, OneLess DEF LeftInAttempt, Final, Attempts, Kinds
  <1>9. CASE Retry(p)
    <2>1. /\ run[p].pc = "decide" /\ run[p].attempt = 1
          /\ run'[p] = Fresh(2)
      BY <1>0, <1>9 DEF Retry, MayRetry
    <2> QED
      BY <2>1 DEF LeftOf, LeftInAttempt, Fresh, Final
  <1>10. CASE Decide(p)
    <2>1. \/ run'[p] = [run[p] EXCEPT
                  !.pc = "run", !.stage = "oracle", !.rc = "none", !.err = "none"]
          \/ run'[p] = [run[p] EXCEPT !.pc = "finish"]
      BY <1>0, <1>10, NewRecord DEF Decide
    <2>2. /\ run[p].pc = "decide" /\ run'[p].attempt = run[p].attempt
          /\ (run'[p].pc = "run" /\ run'[p].stage = "oracle") \/ Goes("finish")
      BY <1>0, <1>10, <2>1 DEF Decide, Runs
    <2> QED
      BY <1>0, <2>2, OneLess DEF LeftInAttempt, Final, Attempts, Kinds
  <1>11. CASE Finish(p)
    <2>1. run[p].pc = "finish" /\ (Goes("ok") \/ Goes("error"))
      BY <1>0, <1>11 DEF Finish, Runs
    <2> QED
      BY <1>0, <2>1, OneLess DEF LeftInAttempt, Final, Attempts, Kinds
  <1> QED
    BY <1>1, <1>2, <1>3, <1>4, <1>5, <1>6, <1>7, <1>8, <1>9, <1>10, <1>11, BothRunContainers
       DEF CaseStep

\* The steps of others leave a case run where it is, and a crash ends it.
LEMMA OthersDoNotRaise ==
    ASSUME IInv, IInv', [Next]_vars, NEW p \in Procs, ~CaseStep(p), ~ImplicitPull(p)
    PROVE  run'[p] = run[p] \/ run'[p].pc = "dead"
  <1>0. run \in [Procs -> Runs]
    BY DEF IInv, TypeOK
  <1>1. ASSUME NEW q \in Procs, CaseStep(q) \/ ImplicitPull(q), q # p PROVE run'[p] = run[p]
    BY <1>0, <1>1 DEF CaseStep, Prepare, CreateNetwork, RunContainer, ImplicitPull, Creates,
       Supervise, Supervised, Cleanup, RemoveNetwork, DiscardScratch, Zip, Retry, Decide, Finish
  <1>2. ASSUME NEW q \in Procs, Crash(q) PROVE run'[p] = run[p] \/ run'[p].pc = "dead"
    BY <1>0, <1>2 DEF Crash, Runs
  <1>3. ASSUME NEW k \in Kinds, Exits(k) PROVE run'[p] = run[p]
    BY <1>3 DEF Exits
  <1>4. ASSUME ImageRemoved PROVE run'[p] = run[p]
    BY <1>4 DEF ImageRemoved
  <1> QED
    BY <1>1, <1>2, <1>3, <1>4 DEF Next, Terminated

\* A case run has 25 steps at most, retry and oracle included; each is one less, and no
\* other process, container or fault makes it one more.
StepsRunOut ==
    [][\A p \in Procs :
         /\ Left(p) <= 25
         /\ CaseStep(p) \/ ImplicitPull(p) => Left(p)' < Left(p)
         /\ Left(p)' <= Left(p)]_vars

\* However often GPUs are lost, containers hang and Docker fails, a case run is repeated
\* once and judged once: it goes through a bounded number of steps.
THEOREM CaseRunsAreBounded == Spec => StepsRunOut
  <1>1. ASSUME IInv, IInv', [Next]_vars, NEW p \in Procs
        PROVE  /\ Left(p) <= 25
               /\ CaseStep(p) \/ ImplicitPull(p) => Left(p)' < Left(p)
               /\ Left(p)' <= Left(p)
    <2>0. run[p] \in Runs /\ run'[p] \in Runs
      BY <1>1 DEF IInv, TypeOK
    <2>1. /\ Left(p) = LeftOf(run[p]) /\ Left(p)' = LeftOf(run'[p])
      BY DEF Left
    <2>2. /\ LeftOf(run[p]) \in 0 .. 25 /\ LeftOf(run'[p]) \in 0 .. 25
      BY <2>0 DEF LeftOf, LeftInAttempt
    <2>3. CASE CaseStep(p) \/ ImplicitPull(p)
      BY <1>1, <2>1, <2>2, <2>3, StepLowers
    <2>4. CASE ~CaseStep(p) /\ ~ImplicitPull(p)
      <3>1. run'[p] = run[p] \/ run'[p].pc = "dead"
        BY <1>1, <2>4, OthersDoNotRaise
      <3>2. run'[p].pc = "dead" => LeftOf(run'[p]) = 0
        BY DEF LeftOf, LeftInAttempt, Final
      <3> QED
        BY <2>1, <2>2, <2>4, <3>1, <3>2
    <2> QED
      BY <2>3, <2>4
  <1>2. IInv /\ IInv' /\ [Next]_vars =>
          [\A p \in Procs :
             /\ Left(p) <= 25
             /\ CaseStep(p) \/ ImplicitPull(p) => Left(p)' < Left(p)
             /\ Left(p)' <= Left(p)]_vars
    BY <1>1
  <1> QED
    BY <1>2, Invariance, PTL DEF Spec, StepsRunOut

-----------------------------------------------------------------------------
(* And never waits for what is not there.                                  *)

\* The handle a process has is to a container that was started.
Started(k, p) ==
    run[p].container = TRUE /\ run[p].stage = k /\ box[k].owner = p => box[k].state # "created"
AllStarted == \A k \in Kinds : \A p \in Procs : Started(k, p)

\* A supervised container is running, hung or over: the supervision ends by itself with
\* its exit, or with the deadline.  No other step of a case run needs anything of the
\* daemon to go on, and what it may refuse leads to the finally.
SupervisesSomething ==
    \A p \in Procs : run[p].pc = "supervise" =>
        /\ box[run[p].stage].owner = p
        /\ box[run[p].stage].state \in {"running", "hung", "ok", "failed"}

\* A step that makes no container and takes no handle.
LEMMA StartedKept ==
    ASSUME IInv, AllStarted, NEW p \in Procs,
           \A q \in Procs : run'[q] = run[q] \/ run'[q].container = FALSE
                 \/ (run'[q].container = run[q].container /\ run'[q].stage = run[q].stage),
           \A k \in Kinds :
              /\ box'[k].state \in {box[k].state, "absent", "failed", "ok", "hung"}
              /\ box'[k].owner \in {box[k].owner, Nobody}
    PROVE  AllStarted'
  <1> SUFFICES ASSUME NEW k \in Kinds, NEW q \in Procs PROVE Started(k, q)'
    BY DEF AllStarted
  <1>1. Started(k, q) /\ q # Nobody
    BY CaseRunAssumption DEF AllStarted
  <1> QED
    BY <1>1 DEF Started

\* What is created is p's, under a name nobody has a handle to.
LEMMA ContainersRunStarts ==
    ASSUME IInv, IInv', AllStarted, NEW p \in Procs, ContainersRun(p)
    PROVE  AllStarted'
  <1>0. /\ run \in [Procs -> Runs] /\ run[p] \in Runs /\ run[p].stage \in Kinds
        /\ run[p].container = FALSE
        /\ box \in [Kinds -> Boxes]
    BY DEF IInv, TypeOK, Runs, ProcInv, Handles, ContainersRun
  <1>1. \A q \in Procs \ {p} : run'[q] = run[q]
    BY <1>0 DEF ContainersRun, Creates
  <1>2. \/ run'[p] = [run[p] EXCEPT !.pc = "supervise", !.container = TRUE]
           /\ Created(p, "running")
        \/ run'[p] = [run[p] EXCEPT !.pc = "cleanup", !.err = "infra"]
           /\ (Created(p, "created") \/ box' = box)
        \/ run'[p] = [run[p] EXCEPT !.pc = "pull"] /\ box' = box
    BY <1>0, NewRecord DEF ContainersRun, Creates
  <1>3. \/ run'[p].stage = run[p].stage /\ run'[p].container = TRUE /\ Created(p, "running")
        \/ run'[p].container = FALSE /\ (Created(p, "created") \/ box' = box)
    BY <1>0, <1>2 DEF Runs
  <1>4. \A k \in Kinds : box'[k] = box[k] \/ (k = run[p].stage /\ box'[k].owner = p)
    BY <1>0, <1>3 DEF Created
  <1>5. Created(p, "running") => box'[run[p].stage].state = "running"
    BY <1>0 DEF Created
  <1> SUFFICES ASSUME NEW k \in Kinds, NEW q \in Procs PROVE Started(k, q)'
    BY DEF AllStarted
  <1>6. Started(k, q)
    BY DEF AllStarted
  <1>7. CASE q = p
    BY <1>3, <1>5, <1>7 DEF Started
  <1>8. CASE q # p
    BY <1>1, <1>4, <1>6, <1>8 DEF Started
  <1> QED
    BY <1>7, <1>8

\* Every step keeps it.
LEMMA StartedStays ==
    ASSUME IInv, IInv', AllStarted, [Next]_vars
    PROVE  AllStarted'
  <1>0. run \in [Procs -> Runs] /\ box \in [Kinds -> Boxes]
    BY DEF IInv, TypeOK
  <1>1. ASSUME NEW p \in Procs, CaseStep(p), ~RunContainer(p) PROVE AllStarted'
    <2>1. \A q \in Procs : run'[q] = run[q] \/ run'[q].container = FALSE
                 \/ (run'[q].container = run[q].container /\ run'[q].stage = run[q].stage)
      <3>1. \A q \in Procs \ {p} : run'[q] = run[q]
        BY <1>0, <1>1 DEF CaseStep, Prepare, CreateNetwork, Supervise, Supervised,
           Cleanup, RemoveNetwork, DiscardScratch, Zip, Retry, Decide, Finish
      <3>2. run[p] \in Runs
        BY <1>0
      <3>3. CASE Prepare(p)
        <4>1. \/ run'[p] = [run[p] EXCEPT !.pc = "network"]
              \/ run'[p] = [run[p] EXCEPT !.pc = "network", !.scratch = TRUE]
              \/ run'[p] = [run[p] EXCEPT !.pc = "cleanup", !.err = "infra"]
          BY <1>0, <3>3, NewRecord DEF Prepare
        <4>2. run'[p].container = run[p].container /\ run'[p].stage = run[p].stage
          BY <3>2, <4>1 DEF Runs
        <4> QED
          BY <3>1, <4>2
      <3>4. CASE CreateNetwork(p)
        <4>1. \/ run'[p] = [run[p] EXCEPT !.pc = "run", !.network = TRUE]
              \/ run'[p] = [run[p] EXCEPT !.pc = "cleanup", !.err = "infra"]
          BY <1>0, <3>4, NewRecord DEF CreateNetwork
        <4>2. run'[p].container = run[p].container /\ run'[p].stage = run[p].stage
          BY <3>2, <4>1 DEF Runs
        <4> QED
          BY <3>1, <4>2
      <3>5. CASE Supervise(p)
        <4>1. \/ \E rc \in {"none", "zero", "nonzero"},
                    err \in {"none", "timeout", "gpu_lost", "infra"} :
                   run'[p] = [run[p] EXCEPT !.pc = "cleanup", !.rc = rc, !.err = err]
              \/ run'[p] = [run[p] EXCEPT !.pc = "cleanup", !.err = "infra"]
          BY <1>0, <3>5, NewRecord DEF Supervise, Supervised
        <4>2. run'[p].container = run[p].container /\ run'[p].stage = run[p].stage
          BY <3>2, <4>1 DEF Runs
        <4> QED
          BY <3>1, <4>2
      <3>6. CASE Cleanup(p)
        <4>1. run'[p] = [run[p] EXCEPT
                !.pc = IF run[p].stage = "sim" THEN "unnet" ELSE "finish", !.container = FALSE]
          BY <1>0, <3>6, NewRecord DEF Cleanup
        <4>2. run'[p].container = FALSE
          BY <3>2, <4>1 DEF Runs
        <4> QED
          BY <3>1, <4>2
      <3>7. CASE RemoveNetwork(p)
        <4>1. run'[p] = [run[p] EXCEPT !.pc = "unscratch", !.network = FALSE]
          BY <1>0, <3>7, NewRecord DEF RemoveNetwork
        <4>2. run'[p].container = run[p].container /\ run'[p].stage = run[p].stage
          BY <3>2, <4>1 DEF Runs
        <4> QED
          BY <3>1, <4>2
      <3>8. CASE DiscardScratch(p)
        <4>1. run'[p] = [run[p] EXCEPT !.pc = "zip", !.scratch = FALSE]
          BY <1>0, <3>8, NewRecord DEF DiscardScratch
        <4>2. run'[p].container = run[p].container /\ run'[p].stage = run[p].stage
          BY <3>2, <4>1 DEF Runs
        <4> QED
          BY <3>1, <4>2
      <3>9. CASE Zip(p) \/ Finish(p)
        <4>1. \E label \in {"decide", "raised", "ok", "error"} :
                run'[p] = [run[p] EXCEPT !.pc = label]
          BY <1>0, <3>9, NewRecord DEF Zip, Finish
        <4>2. run'[p].container = run[p].container /\ run'[p].stage = run[p].stage
          BY <3>2, <4>1 DEF Runs
        <4> QED
          BY <3>1, <4>2
      <3>10. CASE Retry(p)
        <4>1. run'[p] = Fresh(run[p].attempt + 1)
          BY <1>0, <3>10, NewRecord DEF Retry
        <4> QED
          BY <3>1, <4>1 DEF Fresh
      <3>11. CASE Decide(p)
        <4>1. \/ run'[p] = [run[p] EXCEPT
                  !.pc = "run", !.stage = "oracle", !.rc = "none", !.err = "none"]
              \/ run'[p] = [run[p] EXCEPT !.pc = "finish"]
          BY <1>0, <3>11, NewRecord DEF Decide
        <4>2. run[p].container = FALSE
          BY <3>2, <3>11 DEF IInv, ProcInv, Handles, Decide, Runs
        <4>3. run'[p].container = FALSE
          BY <3>2, <4>1, <4>2 DEF Runs
        <4> QED
          BY <3>1, <4>3
      <3> QED
        BY <1>1, <3>3, <3>4, <3>5, <3>6, <3>7, <3>8, <3>9, <3>10, <3>11 DEF CaseStep
    <2>2. \A k \in Kinds :
              /\ box'[k].state \in {box[k].state, "absent", "failed", "ok", "hung"}
              /\ box'[k].owner \in {box[k].owner, Nobody}
      <3>1. CASE Cleanup(p)
        <4>1. \/ box' = box
              \/ box' = [box EXCEPT ![run[p].stage] = Absent]
              \/ box' = [box EXCEPT ![run[p].stage].state = "failed"]
          BY <3>1 DEF Cleanup, Removed
        <4> QED
          BY <1>0, <4>1 DEF Absent, Boxes
      <3>2. CASE Retry(p) \/ Finish(p)
        BY <1>0, <3>2, Unbound DEF Retry, ClearForRetry, Finish, Discard
      <3>3. CASE box' = box
        BY <3>3
      <3> QED
        BY <1>1, <3>1, <3>2, <3>3 DEF CaseStep, Prepare, CreateNetwork, Supervise,
           RemoveNetwork, DiscardScratch, Zip, Decide
    <2> QED
      BY <2>1, <2>2, StartedKept
  <1>2. ASSUME NEW p \in Procs, Crash(p) PROVE AllStarted'
    <2>1. run' = [run EXCEPT ![p] = [run[p] EXCEPT !.pc = "dead"]] /\ box' = box
      BY <1>0, <1>2 DEF Crash
    <2>2. /\ \A q \in Procs \ {p} : run'[q] = run[q]
          /\ run'[p] = [run[p] EXCEPT !.pc = "dead"] /\ run[p] \in Runs
      BY <1>0, <2>1, NewRecord
    <2>3. run'[p].container = run[p].container /\ run'[p].stage = run[p].stage
      BY <2>2 DEF Runs
    <2> QED
      BY <2>1, <2>2, <2>3, StartedKept
  <1>3. ASSUME NEW k \in Kinds, Exits(k) PROVE AllStarted'
    <2>1. /\ run' = run
          /\ \A j \in Kinds : /\ box'[j].state \in {box[j].state, "failed", "ok", "hung"}
                              /\ box'[j].owner = box[j].owner
      BY <1>0, <1>3 DEF Exits, Boxes
    <2> QED
      BY <2>1 DEF AllStarted, Started
  <1>4. CASE UNCHANGED vars
    BY <1>4 DEF AllStarted, Started
  <1>5. ASSUME NEW p \in Procs, RunContainer(p) \/ ImplicitPull(p) PROVE AllStarted'
    BY <1>5, BothRunContainers, ContainersRunStarts
  <1>6. ASSUME ImageRemoved PROVE AllStarted'
    BY <1>6 DEF ImageRemoved, AllStarted, Started
  <1> QED
    BY <1>1, <1>2, <1>3, <1>4, <1>5, <1>6 DEF Next, Terminated

\* The other half of what EveryRunIsJudged rests on, besides the fairness of a case run's
\* steps: but for the pull within containers.run none of them waits for something that may
\* never come.
THEOREM NoCaseRunIsStuck == Spec => []SupervisesSomething
  <1>1. Init => AllStarted
    BY DEF Init, AllStarted, Started, Fresh
  <1>2. IInv /\ IInv' /\ AllStarted /\ [Next]_vars => AllStarted'
    BY StartedStays
  <1>3. IInv /\ AllStarted => SupervisesSomething
    <2> SUFFICES ASSUME IInv, AllStarted, NEW p \in Procs, run[p].pc = "supervise"
                 PROVE  /\ box[run[p].stage].owner = p
                        /\ box[run[p].stage].state \in {"running", "hung", "ok", "failed"}
      BY DEF SupervisesSomething
    <2>1. /\ run[p] \in Runs /\ run[p].stage \in Kinds /\ run[p].container \in BOOLEAN
          /\ box[run[p].stage] \in Boxes /\ p # Nobody
      BY CaseRunAssumption DEF IInv, TypeOK, Runs
    <2>2. run[p].container /\ box[run[p].stage].owner = p
      BY <2>1 DEF IInv, ProcInv, Handles
    <2>3. box[run[p].stage].state # "absent"
      BY <2>1, <2>2 DEF IInv, Owned
    <2>4. run[p].container = TRUE
      BY <2>1, <2>2, Zenon
    <2>5. box[run[p].stage].state # "created"
      BY <2>1, <2>2, <2>4 DEF AllStarted, Started
    <2> QED
      BY <2>1, <2>2, <2>3, <2>5 DEF Boxes
  <1> QED
    BY <1>1, <1>2, <1>3, Invariance, PTL DEF Spec


-----------------------------------------------------------------------------
(* And with no fault, it never comes to the one wait without an end.       *)

\* Past its image gate, a case run has its image.
Gated == faults = 0 => \A p \in Procs :
            /\ run[p].pc # "pull"
            /\ run[p].pc # "prepare" => image = "local"

\* No case run is at the pull within containers.run unless something has failed or the
\* image was removed: what the gate is for (execution.py:655).
NoPullWithoutAFault == faults = 0 => \A p \in Procs : run[p].pc # "pull"


\* Where a step takes its run, if it is not containers.run.
LEMMA OtherPlaces ==
    ASSUME IInv, NEW p \in Procs, CaseStep(p), ~RunContainer(p)
    PROVE  run'[p].pc # "pull"
  <1>0. run \in [Procs -> Runs] /\ run[p] \in Runs
    BY DEF IInv, TypeOK
  <1>1. CASE Prepare(p)
    <2>1. \/ run'[p] = [run[p] EXCEPT !.pc = "network"]
          \/ run'[p] = [run[p] EXCEPT !.pc = "network", !.scratch = TRUE]
          \/ run'[p] = [run[p] EXCEPT !.pc = "cleanup", !.err = "infra"]
      BY <1>1, NewRecord DEF Prepare
    <2> QED
      BY <1>0, <2>1 DEF Runs
  <1>2. CASE CreateNetwork(p)
    <2>1. \/ run'[p] = [run[p] EXCEPT !.pc = "run", !.network = TRUE]
          \/ run'[p] = [run[p] EXCEPT !.pc = "cleanup", !.err = "infra"]
      BY <1>2, NewRecord DEF CreateNetwork
    <2> QED
      BY <1>0, <2>1 DEF Runs
  <1>3. CASE Supervise(p)
    <2>1. \/ \E rc \in {"none", "zero", "nonzero"},
                err \in {"none", "timeout", "gpu_lost", "infra"} :
               run'[p] = [run[p] EXCEPT !.pc = "cleanup", !.rc = rc, !.err = err]
          \/ run'[p] = [run[p] EXCEPT !.pc = "cleanup", !.err = "infra"]
      BY <1>0, <1>3, NewRecord DEF Supervise, Supervised
    <2> QED
      BY <1>0, <2>1 DEF Runs
  <1>4. CASE Cleanup(p)
    <2>1. run'[p] = [run[p] EXCEPT
            !.pc = IF run[p].stage = "sim" THEN "unnet" ELSE "finish", !.container = FALSE]
      BY <1>4, NewRecord DEF Cleanup
    <2> QED
      BY <1>0, <2>1 DEF Runs
  <1>5. CASE RemoveNetwork(p) \/ DiscardScratch(p)
    <2>1. \/ run'[p] = [run[p] EXCEPT !.pc = "unscratch", !.network = FALSE]
          \/ run'[p] = [run[p] EXCEPT !.pc = "zip", !.scratch = FALSE]
      BY <1>5, NewRecord DEF RemoveNetwork, DiscardScratch
    <2> QED
      BY <1>0, <2>1 DEF Runs
  <1>6. CASE Zip(p) \/ Finish(p)
    <2>1. \E label \in {"decide", "raised", "ok", "error"} :
            run'[p] = [run[p] EXCEPT !.pc = label]
      BY <1>0, <1>6, NewRecord DEF Zip, Finish
    <2> QED
      BY <1>0, <2>1 DEF Runs
  <1>7. CASE Retry(p)
    <2>1. run'[p] = Fresh(run[p].attempt + 1)
      BY <1>7, NewRecord DEF Retry
    <2> QED
      BY <2>1 DEF Fresh
  <1>8. CASE Decide(p)
    <2>1. \/ run'[p] = [run[p] EXCEPT
                  !.pc = "run", !.stage = "oracle", !.rc = "none", !.err = "none"]
          \/ run'[p] = [run[p] EXCEPT !.pc = "finish"]
      BY <1>8, NewRecord DEF Decide
    <2> QED
      BY <1>0, <2>1 DEF Runs
  <1> QED
    BY <1>1, <1>2, <1>3, <1>4, <1>5, <1>6, <1>7, <1>8 DEF CaseStep

\* A step of a run with the image there, or past the gate.
LEMMA GatedStays ==
    ASSUME IInv, Gated, [Next]_vars
    PROVE  Gated'
  <1> SUFFICES ASSUME faults' = 0 PROVE Gated'
    BY DEF Gated
  <1>0. run \in [Procs -> Runs] /\ faults \in Nat
    BY CaseRunAssumption DEF IInv, TypeOK
  <1>1. ASSUME NEW p \in Procs, CaseStep(p) PROVE Gated'
    <2>1. faults = 0 /\ \A q \in Procs \ {p} : run'[q] = run[q]
      BY <1>0, <1>1 DEF CaseStep, Prepare, ImageEnsured, CreateNetwork, RunContainer, Creates,
         Supervise, Supervised, Cleanup, RemoveNetwork, DiscardScratch, Zip, Retry,
         ClearForRetry, Discard, Decide, Finish
    <2>2. \A q \in Procs : run[q].pc # "pull" /\ (run[q].pc # "prepare" => image = "local")
      BY <2>1 DEF Gated
    <2>3. CASE Prepare(p)
      <3>1. image' = "local"
        BY <2>1, <2>3 DEF Prepare, ImageEnsured
      <3>2. run' = [run EXCEPT ![p] = [run[p] EXCEPT !.pc = "network"]]
            \/ run' = [run EXCEPT ![p] = [run[p] EXCEPT !.pc = "network", !.scratch = TRUE]]
        BY <2>1, <2>3 DEF Prepare, ImageEnsured
      <3>3. run'[p] = [run[p] EXCEPT !.pc = "network"]
            \/ run'[p] = [run[p] EXCEPT !.pc = "network", !.scratch = TRUE]
        BY <3>2, NewRecord
      <3>4. run'[p].pc = "network"
        BY <1>0, <3>3 DEF Runs
      <3> QED
        BY <2>1, <2>2, <3>1, <3>4 DEF Gated
    <2>4. CASE ~Prepare(p)
      <3>1. image = "local" /\ image' = image
        BY <1>1, <2>2, <2>4 DEF CaseStep, Prepare, CreateNetwork, RunContainer, Supervise,
           Cleanup, RemoveNetwork, DiscardScratch, Zip, Retry, Decide, Finish
      <3>2. run'[p].pc # "pull"
        <4>1. CASE RunContainer(p)
          <5>1. \/ run' = [run EXCEPT ![p] = [run[p] EXCEPT !.pc = "supervise",
                                                            !.container = TRUE]]
                \/ run' = [run EXCEPT ![p] = [run[p] EXCEPT !.pc = "cleanup", !.err = "infra"]]
            BY <3>1, <4>1 DEF RunContainer, Creates
          <5>2. \/ run'[p] = [run[p] EXCEPT !.pc = "supervise", !.container = TRUE]
                \/ run'[p] = [run[p] EXCEPT !.pc = "cleanup", !.err = "infra"]
            BY <5>1, NewRecord
          <5> QED
            BY <1>0, <5>2 DEF Runs
        <4>2. CASE ~RunContainer(p)
          BY <1>0, <1>1, <2>4, <4>2, OtherPlaces
        <4> QED
          BY <4>1, <4>2
      <3> QED
        BY <2>1, <2>2, <3>1, <3>2 DEF Gated
    <2> QED
      BY <2>3, <2>4
  <1>2. ASSUME NEW p \in Procs, ImplicitPull(p) PROVE Gated'
    <2>1. faults = 0
      BY <1>0, <1>2 DEF ImplicitPull, Creates
    <2> QED
      BY <1>2, <2>1 DEF Gated, ImplicitPull
  <1>3. ASSUME (\E p \in Procs : Crash(p)) \/ ImageRemoved PROVE Gated'
    BY <1>0, <1>3 DEF Crash, ImageRemoved
  <1>4. CASE (\E k \in Kinds : Exits(k)) \/ UNCHANGED vars
    BY <1>4 DEF Gated, Exits
  <1> QED
    BY <1>1, <1>2, <1>3, <1>4 DEF Next, Terminated

\* Hence, with every step fair but that pull, a case run that is never judged has met a
\* fault: the exception of EveryRunIsJudged takes one.
THEOREM HangsTakeAFault == Spec => []NoPullWithoutAFault
  <1>1. Init => Gated
    BY DEF Init, Gated, Fresh
  <1>2. IInv /\ Gated /\ [Next]_vars => Gated'
    BY GatedStays
  <1>3. Gated => NoPullWithoutAFault
    BY DEF Gated, NoPullWithoutAFault
  <1> QED
    BY <1>1, <1>2, <1>3, Invariance, PTL DEF Spec
=============================================================================
