-------------------------- MODULE BaselinesProofs --------------------------
(***************************************************************************)
(* The verdict, the exit code and the moves of the baseline for every set  *)
(* of keys, plan, number of repeats and of processes, and every row earlier *)
(* runs may have left.                                                     *)
(***************************************************************************)
EXTENDS Baselines, FiniteSetTheorems, TLAPS

(* The operators of Verdicts.                                              *)

\* A ratio counts some of the runs it is taken over, and falls short of 1 exactly when
\* one of them said false.
LEMMA Counts ==
  ASSUME NEW runs, IsFiniteSet(DOMAIN runs), NEW k
  PROVE  /\ PassRatio(runs, k).sum \in Nat
         /\ PassRatio(runs, k).n \in Nat
         /\ PassRatio(runs, k).sum <= PassRatio(runs, k).n
         /\ PassRatio(runs, k).n = 0 <=> Saying(runs, k, "check") = {}
         /\ Failed(runs, k) <=> \E r \in Saying(runs, k, "check") : runs[r].says[k].value # 1
  <1> DEFINE S == Saying(runs, k, "check")
             T == TrueRuns(runs, k)
  <1>1. S \in SUBSET DOMAIN runs /\ T \in SUBSET S
    BY DEF Saying, JudgedRuns, TrueRuns
  <1>2. IsFiniteSet(S)
    BY <1>1, FS_Subset
  <1>3. Cardinality(T) <= Cardinality(S) /\ (Cardinality(S) = Cardinality(T) => S = T)
    BY <1>1, <1>2, FS_Subset
  <1>4. Cardinality(S) \in Nat /\ Cardinality(T) \in Nat
    BY <1>1, <1>2, FS_Subset, FS_CardinalityType
  <1>5. Cardinality(S) = 0 <=> S = {}
    BY <1>2, FS_EmptySet
  <1>6. S = T <=> \A r \in S : runs[r].says[k].value = 1
    BY DEF TrueRuns
  <1>7. PassRatio(runs, k).sum = Cardinality(T) /\ PassRatio(runs, k).n = Cardinality(S)
    BY DEF PassRatio
  <1>8. Failed(runs, k) <=> S # T
    BY <1>3, <1>4, <1>7 DEF Failed
  <1> QED
    BY <1>3, <1>4, <1>5, <1>6, <1>7, <1>8

\* A fraction below one that is at most 1 is less than 1.
LEMMA BelowOne ==
  ASSUME NEW a \in Nat, NEW b \in Nat, NEW c \in Nat, NEW d \in Nat, d > 0, c <= d,
         a * d < c * b
  PROVE  a < b
  <1> SUFFICES ASSUME b <= a PROVE FALSE
    OBVIOUS
  <1>1. PICK e \in Nat : a = b + e
    <2>1. a - b \in Nat /\ a = b + (a - b)
      OBVIOUS
    <2> QED
      BY <2>1
  <1>2. PICK f \in Nat : d = c + f
    <2>1. d - c \in Nat /\ d = c + (d - c)
      OBVIOUS
    <2> QED
      BY <2>1
  <1>3. a * d = b * c + b * f + e * d
    BY <1>1, <1>2
  <1>4. b * f \in Nat /\ e * d \in Nat /\ b * c = c * b /\ b * c \in Nat
    OBVIOUS
  <1> QED
    BY <1>3, <1>4

\* A regression is a ratio below a stored one, so that its case has failed already.
LEMMA RegressionFails ==
  ASSUME NEW runs, IsFiniteSet(DOMAIN runs), NEW k, NEW row, row # NoRow => IsRow(row),
         Regresses(PassRatio(runs, k), row)
  PROVE  Failed(runs, k)
  <1>1. row.n \in Nat /\ row.n > 0 /\ row.sum \in Nat /\ row.sum <= row.n
    BY DEF Regresses, IsRow
  <1>2. PassRatio(runs, k).sum * row.n < row.sum * PassRatio(runs, k).n
    BY DEF Regresses, Below
  <1>3. PassRatio(runs, k).sum \in Nat /\ PassRatio(runs, k).n \in Nat
    BY Counts
  <1> QED
    BY <1>1, <1>2, <1>3, BelowOne DEF Failed

\* What a run that came out of the case loop looks like.
LEMMA RanRuns ==
  ASSUME NEW mode, NEW cases \in Prefixes(mode)
  PROVE  /\ DOMAIN cases \subseteq Cases
         /\ \A c \in DOMAIN cases : cases[c] \in RunsOf(mode)
         /\ \A c \in DOMAIN cases : DOMAIN cases[c] = 1 .. Repeats
         /\ \A c \in DOMAIN cases : IsFiniteSet(DOMAIN cases[c])
         /\ \A c \in DOMAIN cases, r \in 1 .. Repeats :
                cases[c][r] \in RawRuns /\ Possible(mode, cases[c][r])
  <1>1. PICK n \in 0 .. NCases : cases \in [1 .. n -> RunsOf(mode)]
    BY DEF Prefixes
  <1>2. DOMAIN cases \subseteq Cases
    BY <1>1, BaselinesAssumption DEF Cases
  <1>3. \A c \in DOMAIN cases : cases[c] \in RunsOf(mode)
    BY <1>1
  <1>4. \A c \in DOMAIN cases : DOMAIN cases[c] = 1 .. Repeats
    BY <1>3 DEF RunsOf
  <1>5. IsFiniteSet(1 .. Repeats)
    BY FS_Interval, BaselinesAssumption
  <1>6. \A c \in DOMAIN cases, r \in 1 .. Repeats :
            cases[c][r] \in RawRuns /\ Possible(mode, cases[c][r])
    BY <1>3, BaselinesAssumption DEF RunsOf
  <1> QED
    BY <1>2, <1>3, <1>4, <1>5, <1>6

-----------------------------------------------------------------------------
(* The inductive invariant.                                                *)

\* What was found regressed was compared with the rows read, and what could not be
\* compared found nothing.
RegressedAsRead ==
    \A p \in Procs :
        /\ regressed[p] \subseteq (DOMAIN ran[p]) \X Keys
        /\ \A ck \in regressed[p] :
            ck[2] \in Checks(ran[p][ck[1]]) /\ Failed(ran[p][ck[1]], ck[2])
        /\ available[p] => /\ pc[p] # "compare"
                           /\ regressed[p] = RegressedIn(ran[p], read[p])

\* Before its end a process has no exit code.
CodeAtTheEnd == \A p \in Procs : pc[p] # "done" => code[p] = NoCode

IInv == TypeOK /\ RegressedAsRead /\ CodeAtTheEnd /\ ExitCodeIsDeserved

\* A boolean answer is TRUE or FALSE.
LEMMA Booleans ==
  ASSUME NEW mode, NEW cases \in Prefixes(mode), NEW c \in DOMAIN cases, NEW k \in Keys
  PROVE  \A r \in Saying(cases[c], k, "check") :
            /\ r \in 1 .. Repeats
            /\ Judged(cases[c][r])
            /\ cases[c][r].oracle = "ok"
            /\ \/ cases[c][r].says[k] = [kind |-> "check", value |-> 0]
               \/ cases[c][r].says[k] = [kind |-> "check", value |-> 1]
  <1> TAKE r \in Saying(cases[c], k, "check")
  <1>1. /\ r \in DOMAIN cases[c] /\ Judged(cases[c][r])
        /\ cases[c][r].oracle = "ok" /\ cases[c][r].says[k].kind = "check"
    BY DEF Saying, JudgedRuns
  <1>2. r \in 1 .. Repeats /\ cases[c][r] \in RawRuns
    BY <1>1, RanRuns
  <1>3. cases[c][r].says \in [Keys -> Answers]
    BY <1>1, <1>2 DEF Judged, RawRuns
  <1>4. cases[c][r].says[k] \in [kind : {"check"}, value : {0, 1}]
    BY <1>1, <1>3 DEF Answers
  <1> QED
    BY <1>1, <1>2, <1>4

\* The exit code in terms of what the oracles said.
LEMMA Codes ==
  ASSUME TypeOK, NEW p \in Procs, NEW worse \in BOOLEAN,
         worse => ChecksFailed(ran[p])
  PROVE  ExitCode(spec[p].mode, ran[p], worse) = Deserved(p)
  <1> DEFINE cases == ran[p]
             M == spec[p].mode
  <1>1. cases \in Prefixes(M)
    BY DEF TypeOK
  <1>2. \A c \in DOMAIN cases : DOMAIN cases[c] = 1 .. Repeats /\ IsFiniteSet(DOMAIN cases[c])
    BY <1>1, RanRuns
  <1>3. RanClean(cases) <=> Judgements(p) # {}
    <2>1. ASSUME NEW c \in DOMAIN cases, NEW r \in JudgedRuns(cases[c])
          PROVE  <<c, r>> \in Judgements(p)
      BY <1>2 DEF JudgedRuns, Judgements
    <2>2. ASSUME NEW cr \in Judgements(p)
          PROVE  cr[1] \in DOMAIN cases /\ cr[2] \in JudgedRuns(cases[cr[1]])
      BY <1>2 DEF JudgedRuns, Judgements
    <2> QED
      BY <2>1, <2>2 DEF RanClean
  <1>4. ASSUME NEW c \in DOMAIN cases, NEW k \in Keys, NEW r \in Saying(cases[c], k, "check")
        PROVE  /\ cases[c][r].says[k].value # 1 => Said(p, 0)
               /\ cases[c][r].says[k].value = 1 => Said(p, 1)
    <2>1. /\ r \in 1 .. Repeats /\ Judged(cases[c][r]) /\ cases[c][r].oracle = "ok"
          /\ \/ cases[c][r].says[k] = [kind |-> "check", value |-> 0]
             \/ cases[c][r].says[k] = [kind |-> "check", value |-> 1]
      BY <1>1, <1>4, Booleans
    <2>2. <<c, r>> \in Judgements(p)
      BY <2>1 DEF Judgements
    <2> QED
      BY <2>1, <2>2 DEF Said
  <1>5. ASSUME NEW v \in {0, 1}, Said(p, v)
        PROVE  \E c \in DOMAIN cases, k \in Keys :
                 \E r \in Saying(cases[c], k, "check") : cases[c][r].says[k].value = v
    <2>1. PICK cr \in Judgements(p), k \in Keys :
            /\ cases[cr[1]][cr[2]].oracle = "ok"
            /\ cases[cr[1]][cr[2]].says[k] = [kind |-> "check", value |-> v]
      BY <1>5 DEF Said
    <2>2. cr[1] \in DOMAIN cases /\ cr[2] \in JudgedRuns(cases[cr[1]])
      BY <1>2 DEF Judgements, JudgedRuns
    <2>3. cr[2] \in Saying(cases[cr[1]], k, "check")
      BY <2>1, <2>2 DEF Saying
    <2> QED
      BY <2>1, <2>2, <2>3
  <1>6. ChecksSomething(cases) <=> Said(p, 0) \/ Said(p, 1)
    BY <1>4, <1>5 DEF ChecksSomething, Checks
  <1>7. ChecksFailed(cases) <=> Said(p, 0)
    <2>1. ASSUME NEW c \in DOMAIN cases, NEW k \in Checks(cases[c]), Failed(cases[c], k)
          PROVE  Said(p, 0)
      BY <1>2, <1>4, <2>1, Counts DEF Checks
    <2>2. ASSUME Said(p, 0)
          PROVE  ChecksFailed(cases)
      <3>1. PICK c \in DOMAIN cases, k \in Keys :
                \E r \in Saying(cases[c], k, "check") : cases[c][r].says[k].value = 0
        BY <1>5, <2>2
      <3>2. Failed(cases[c], k) /\ k \in Checks(cases[c])
        BY <1>2, <3>1, Counts DEF Checks
      <3> QED
        BY <3>2 DEF ChecksFailed
    <2> QED
      BY <2>1, <2>2 DEF ChecksFailed
  <1> QED
    BY <1>3, <1>6, <1>7 DEF ExitCode, Deserved

-----------------------------------------------------------------------------
(* One lemma per action.                                                   *)

\* The initial states satisfy the invariant.
LEMMA Initially == Init => IInv
  <1> SUFFICES ASSUME Init PROVE IInv
    OBVIOUS
  <1>1. TypeOK
    <2>1. /\ db = [c \in Cases |-> [k \in Keys |-> db[c][k]]]
          /\ \A c \in Cases, k \in Keys : db[c][k] # NoRow => IsRow(db[c][k])
      BY BaselinesAssumption DEF Init
    <2>2. /\ spec \in [Procs -> Specs] /\ DOMAIN ran = Procs
          /\ \A p \in Procs : ran[p] \in Prefixes(spec[p].mode)
      BY DEF Init
    <2>3. /\ pc \in [Procs -> {"compare", "upsert", "done"}]
          /\ DOMAIN read = Procs
          /\ regressed \in [Procs -> SUBSET (Cases \X Keys)]
          /\ code \in [Procs -> {NoCode, 0, 1, 2, 3}]
      BY DEF Init
    <2>4. available \in [Procs -> BOOLEAN] /\ updated \in [Procs -> BOOLEAN]
      BY DEF Init
    <2> QED
      BY <2>1, <2>2, <2>3, <2>4 DEF TypeOK
  <1>2. RegressedAsRead /\ CodeAtTheEnd /\ ExitCodeIsDeserved
    BY DEF Init, RegressedAsRead, CodeAtTheEnd, ExitCodeIsDeserved
  <1> QED
    BY <1>1, <1>2 DEF IInv

\* What a comparison finds regressed are failed checks of the run.
LEMMA RegressedAreFailed ==
  ASSUME TypeOK, NEW p \in Procs
  PROVE  /\ RegressedIn(ran[p], db) \in SUBSET (Cases \X Keys)
         /\ RegressedIn(ran[p], db) \subseteq (DOMAIN ran[p]) \X Keys
         /\ \A ck \in RegressedIn(ran[p], db) :
                ck[2] \in Checks(ran[p][ck[1]]) /\ Failed(ran[p][ck[1]], ck[2])
  <1>1. /\ DOMAIN ran[p] \subseteq Cases
        /\ \A c \in DOMAIN ran[p] : IsFiniteSet(DOMAIN ran[p][c])
    BY RanRuns DEF TypeOK
  <1>2. ASSUME NEW ck \in RegressedIn(ran[p], db)
        PROVE  /\ ck \in (DOMAIN ran[p]) \X Keys
               /\ ck[2] \in Checks(ran[p][ck[1]]) /\ Failed(ran[p][ck[1]], ck[2])
    <2>1. /\ ck \in (DOMAIN ran[p]) \X Keys
          /\ ck[2] \in RegressedKeys(ran[p][ck[1]], db[ck[1]])
      BY <1>2 DEF RegressedIn
    <2>2. /\ ck[2] \in Checks(ran[p][ck[1]])
          /\ Regresses(PassRatio(ran[p][ck[1]], ck[2]), db[ck[1]][ck[2]])
      BY <2>1 DEF RegressedKeys
    <2>3. db[ck[1]][ck[2]] # NoRow => IsRow(db[ck[1]][ck[2]])
      BY <1>1, <2>1 DEF TypeOK
    <2>4. IsFiniteSet(DOMAIN ran[p][ck[1]])
      BY <1>1, <2>1
    <2> QED
      BY <2>1, <2>2, <2>3, <2>4, RegressionFails
  <1> QED
    BY <1>1, <1>2

\* What a run deserves only depends on what it ran.
LEMMA SameRunsSameCode ==
  ASSUME UNCHANGED <<spec, ran>>, NEW p
  PROVE  Deserved(p)' = Deserved(p)
  BY DEF Deserved, Judgements, Said

\* A comparison.
LEMMA CompareKeeps ==
  ASSUME IInv, NEW p \in Procs, Compare(p)
  PROVE  IInv'
  <1> USE DEF IInv
  <1>1. /\ pc[p] = "compare" /\ pc' = [pc EXCEPT ![p] = "upsert"]
        /\ UNCHANGED <<db, spec, ran, updated, code>>
    BY DEF Compare
  <1>2. CodeAtTheEnd' /\ ExitCodeIsDeserved'
    BY <1>1, SameRunsSameCode DEF CodeAtTheEnd, ExitCodeIsDeserved, TypeOK
  <1>3. CASE UNCHANGED outcome
    <2>1. TypeOK'
      BY <1>1, <1>3 DEF TypeOK, outcome
    <2>2. RegressedAsRead'
      BY <1>1, <1>3 DEF RegressedAsRead, TypeOK, outcome
    <2> QED
      BY <1>2, <2>1, <2>2
  <1>4. CASE /\ available' = [available EXCEPT ![p] = TRUE]
             /\ read' = [read EXCEPT ![p] = [c \in DOMAIN ran[p] |-> db[c]]]
             /\ regressed' = [regressed EXCEPT ![p] = RegressedIn(ran[p], db)]
    <2>1. RegressedIn(ran[p], db) \in SUBSET (Cases \X Keys)
      BY RegressedAreFailed
    <2>2. regressed' \in [Procs -> SUBSET (Cases \X Keys)]
      BY <1>4, <2>1 DEF TypeOK
    <2>3. available' \in [Procs -> BOOLEAN] /\ DOMAIN read' = Procs
      BY <1>4 DEF TypeOK
    <2>4. TypeOK'
      BY <1>1, <2>2, <2>3 DEF TypeOK
    <2>5. RegressedIn(ran[p], db) = RegressedIn(ran[p], [c \in DOMAIN ran[p] |-> db[c]])
      BY DEF RegressedIn
    <2>6. ASSUME NEW q \in Procs, q # p
          PROVE  /\ regressed'[q] = regressed[q] /\ available'[q] = available[q]
                 /\ read'[q] = read[q] /\ pc'[q] = pc[q]
      BY <1>1, <1>4, <2>6 DEF TypeOK
    <2>7. /\ regressed'[p] = RegressedIn(ran[p], db) /\ pc'[p] = "upsert"
          /\ read'[p] = [c \in DOMAIN ran[p] |-> db[c]]
      BY <1>1, <1>4 DEF TypeOK
    <2>8. RegressedAsRead'
      <3>1. ASSUME NEW q \in Procs, q # p
            PROVE  /\ regressed'[q] \subseteq (DOMAIN ran'[q]) \X Keys
                   /\ \A ck \in regressed'[q] :
                       ck[2] \in Checks(ran'[q][ck[1]]) /\ Failed(ran'[q][ck[1]], ck[2])
                   /\ available'[q] => /\ pc'[q] # "compare"
                                       /\ regressed'[q] = RegressedIn(ran'[q], read'[q])
        BY <1>1, <2>6, <3>1 DEF RegressedAsRead
      <3>2. /\ regressed'[p] \subseteq (DOMAIN ran'[p]) \X Keys
            /\ \A ck \in regressed'[p] :
                ck[2] \in Checks(ran'[p][ck[1]]) /\ Failed(ran'[p][ck[1]], ck[2])
            /\ pc'[p] # "compare" /\ regressed'[p] = RegressedIn(ran'[p], read'[p])
        BY <1>1, <2>5, <2>7, RegressedAreFailed
      <3> QED
        BY <3>1, <3>2 DEF RegressedAsRead
    <2> QED
      BY <1>2, <2>4, <2>8
  <1> QED
    BY <1>3, <1>4 DEF Compare

\* The rows a run writes are rows.
LEMMA RowsAreRows ==
  ASSUME NEW runs, IsFiniteSet(DOMAIN runs), NEW k \in Written(runs)
  PROVE  IsRow(RowOf(runs, k))
  <1>1. CASE k \in Metrics(runs)
    BY <1>1 DEF RowOf, Mean, IsRow
  <1>2. CASE k \notin Metrics(runs)
    <2>1. k \in Checks(runs) /\ RowOf(runs, k) = PassRatio(runs, k)
      BY <1>2 DEF Written, RowOf
    <2>2. /\ PassRatio(runs, k).sum \in Nat /\ PassRatio(runs, k).n \in Nat
          /\ PassRatio(runs, k).sum <= PassRatio(runs, k).n /\ PassRatio(runs, k).n # 0
      BY <2>1, Counts DEF Checks
    <2>3. PassRatio(runs, k).kind = "check"
      BY DEF PassRatio
    <2> QED
      BY <2>1, <2>2, <2>3 DEF IsRow
  <1> QED
    BY <1>1, <1>2

\* An update and the report.
LEMMA UpsertAndReportKeeps ==
  ASSUME IInv, NEW p \in Procs, UpsertAndReport(p)
  PROVE  IInv'
  <1> DEFINE E == ExitCode(spec[p].mode, ran[p], regressed[p] # {})
  <1> USE DEF IInv
  <1>1. /\ pc[p] = "upsert" /\ pc' = [pc EXCEPT ![p] = "done"]
        /\ code' = [code EXCEPT ![p] = E]
        /\ UNCHANGED <<spec, ran, available, read, regressed>>
    BY DEF UpsertAndReport, outcome
  <1>2. E = Deserved(p)
    <2>1. regressed[p] # {} => ChecksFailed(ran[p])
      BY DEF RegressedAsRead, ChecksFailed
    <2> QED
      BY <2>1, Codes
  <1>3. E \in {0, 1, 2, 3}
    BY <1>2 DEF Deserved
  <1>4. /\ db' = [c \in Cases |-> [k \in Keys |-> db'[c][k]]]
        /\ \A c \in Cases, k \in Keys : db'[c][k] # NoRow => IsRow(db'[c][k])
    <2>1. CASE UNCHANGED db
      BY <2>1 DEF TypeOK
    <2>2. CASE db' = Upserted(ran[p])
      <3>1. \A c \in DOMAIN ran[p] : IsFiniteSet(DOMAIN ran[p][c])
        BY RanRuns DEF TypeOK
      <3>2. ASSUME NEW c \in Cases
            PROVE  /\ db'[c] = [k \in Keys |-> db'[c][k]]
                   /\ \A k \in Keys : db'[c][k] # NoRow => IsRow(db'[c][k])
        <4>1. CASE c \notin DOMAIN ran[p]
          <5>1. db'[c] = db[c]
            BY <2>2, <3>2, <4>1 DEF Upserted
          <5> QED
            BY <5>1 DEF TypeOK
        <4>2. CASE c \in DOMAIN ran[p]
          <5>1. db'[c] = [k \in Keys |-> IF k \in Written(ran[p][c]) THEN RowOf(ran[p][c], k)
                                         ELSE db[c][k]]
            BY <2>2, <3>2, <4>2 DEF Upserted
          <5>2. \A k \in Keys : k \in Written(ran[p][c]) => IsRow(db'[c][k])
            BY <3>1, <4>2, <5>1, RowsAreRows
          <5>3. \A k \in Keys : k \notin Written(ran[p][c]) => db'[c][k] = db[c][k]
            BY <5>1
          <5> QED
            BY <3>2, <5>1, <5>2, <5>3 DEF TypeOK
        <4> QED
          BY <4>1, <4>2
      <3>3. db' = [c \in Cases |-> db'[c]]
        BY <2>2 DEF Upserted
      <3> QED
        BY <3>2, <3>3
    <2> QED
      BY <2>1, <2>2 DEF UpsertAndReport
  <1>5. updated' \in [Procs -> BOOLEAN]
    BY DEF UpsertAndReport, TypeOK
  <1>6. TypeOK'
    BY <1>1, <1>3, <1>4, <1>5 DEF TypeOK
  <1>7. RegressedAsRead'
    BY <1>1 DEF RegressedAsRead, TypeOK
  <1>8. CodeAtTheEnd' /\ ExitCodeIsDeserved'
    BY <1>1, <1>2, SameRunsSameCode DEF CodeAtTheEnd, ExitCodeIsDeserved, TypeOK
  <1> QED
    BY <1>6, <1>7, <1>8

\* A step that changes nothing.
LEMMA StutteringKeeps == IInv /\ UNCHANGED vars => IInv'
  <1> SUFFICES ASSUME IInv, UNCHANGED vars PROVE IInv'
    OBVIOUS
  <1> USE DEF vars, outcome, IInv
  <1>1. TypeOK'
    BY DEF TypeOK
  <1>2. RegressedAsRead' /\ CodeAtTheEnd'
    BY DEF RegressedAsRead, CodeAtTheEnd
  <1>3. ExitCodeIsDeserved'
    BY SameRunsSameCode DEF ExitCodeIsDeserved
  <1> QED
    BY <1>1, <1>2, <1>3

\* Every step keeps the invariant.
LEMMA StepKeeps == IInv /\ [Next]_vars => IInv'
  BY CompareKeeps, UpsertAndReportKeeps, StutteringKeeps DEF Next, Done

\* The invariant holds in every state.
LEMMA Invariance == Spec => []IInv
  BY Initially, StepKeeps, PTL DEF Spec

-----------------------------------------------------------------------------
(* Theorems.                                                               *)

\* The variables keep their types; a check's stored ratio is never more than 1.
THEOREM TypeCorrect == Spec => []TypeOK
  BY Invariance, PTL DEF IInv

\* The exit code is the one the run's own results deserve: the baseline never decides.
THEOREM ExitCodeIsAlwaysDeserved == Spec => []ExitCodeIsDeserved
  BY Invariance, PTL DEF IInv

\* The step that ends a process.
LEMMA EndingStep ==
  ASSUME IInv, [Next]_vars, NEW p \in Procs, pc[p] = "upsert", pc'[p] = "done"
  PROVE  UpsertAndReport(p)
  <1>1. ASSUME NEW q \in Procs, Compare(q) PROVE FALSE
    BY <1>1 DEF Compare, IInv, TypeOK
  <1>2. ASSUME NEW q \in Procs, UpsertAndReport(q), q # p PROVE FALSE
    BY <1>2 DEF UpsertAndReport, IInv, TypeOK
  <1>3. ~UNCHANGED vars
    BY DEF vars
  <1> QED
    BY <1>1, <1>2, <1>3 DEF Next, Done

\* A row that moves is one the process wrote.
LEMMA MovedIsWritten ==
  ASSUME IInv, NEW p \in Procs, UpsertAndReport(p),
         NEW c \in Cases, NEW k \in Keys, db'[c][k] # db[c][k]
  PROVE  /\ spec[p].update
         /\ c \in DOMAIN ran[p]
         /\ k \in Written(ran[p][c])
         /\ db'[c][k] = RowOf(ran[p][c], k)
  <1>1. Updates(p) /\ db' = Upserted(ran[p])
    BY DEF UpsertAndReport
  <1>2. db'[c] = IF c \notin DOMAIN ran[p] THEN db[c]
                 ELSE [kk \in Keys |-> IF kk \in Written(ran[p][c]) THEN RowOf(ran[p][c], kk)
                                       ELSE db[c][kk]]
    BY <1>1 DEF Upserted
  <1>3. c \in DOMAIN ran[p]
    BY <1>2
  <1>4. db'[c][k] = IF k \in Written(ran[p][c]) THEN RowOf(ran[p][c], k) ELSE db[c][k]
    BY <1>2, <1>3
  <1> QED
    BY <1>1, <1>3, <1>4 DEF Updates

\* The reference of a key only moves by what judged runs of an updating process said.
THEOREM BaselineOnlyMovesByJudgement == Spec => BaselineMovesByJudgement
  <1>1. IInv /\ [Next]_vars =>
          [\A c \in Cases, k \in Keys : db'[c][k] # db[c][k] => MovedByJudgement(c, k)]_vars
    <2> SUFFICES ASSUME IInv, [Next]_vars, NEW c \in Cases, NEW k \in Keys,
                        db'[c][k] # db[c][k]
                 PROVE  MovedByJudgement(c, k)
      OBVIOUS
    <2>1. PICK p \in Procs : UpsertAndReport(p)
      BY DEF Next, Done, vars, Compare
    <2>2. /\ spec[p].update /\ c \in DOMAIN ran[p]
          /\ k \in Written(ran[p][c]) /\ db'[c][k] = RowOf(ran[p][c], k)
      BY <2>1, MovedIsWritten
    <2>3. PICK r \in Saying(ran[p][c], k, db'[c][k].kind) : TRUE
      <3>1. CASE k \in Metrics(ran[p][c])
        BY <2>2, <3>1 DEF RowOf, Mean, Metrics
      <3>2. CASE k \notin Metrics(ran[p][c])
        BY <2>2, <3>2 DEF RowOf, PassRatio, Written, Checks
      <3> QED
        BY <3>1, <3>2
    <2>4. /\ r \in DOMAIN ran[p][c] /\ Judged(ran[p][c][r])
          /\ ran[p][c][r].oracle = "ok" /\ ran[p][c][r].says[k].kind = db'[c][k].kind
      BY <2>3 DEF Saying, JudgedRuns
    <2>5. DOMAIN ran[p][c] = 1 .. Repeats
      BY <2>2, RanRuns DEF IInv, TypeOK
    <2>6. <<c, r>> \in Judgements(p)
      BY <2>2, <2>4, <2>5 DEF Judgements
    <2>7. pc[p] = "upsert" /\ pc'[p] = "done"
      BY <2>1 DEF UpsertAndReport, IInv, TypeOK
    <2> QED
      BY <2>2, <2>4, <2>6, <2>7 DEF MovedByJudgement
  <1> QED
    BY <1>1, Invariance, PTL DEF BaselineMovesByJudgement, Spec

\* A lowered reference has been reported as a regression by the process that lowers it.
THEOREM LoweringIsReported == Spec => LoweredIsReported
  <1>1. IInv /\ [Next]_vars =>
          [\A p \in Procs, c \in Cases, k \in Keys :
              /\ pc[p] = "upsert" /\ pc'[p] = "done"
              /\ available[p] /\ c \in DOMAIN ran[p] /\ read[p][c][k] = db[c][k]
              /\ LowersCheck(c, k)
              => <<c, k>> \in regressed[p]]_vars
    <2> SUFFICES ASSUME IInv, [Next]_vars, NEW p \in Procs, NEW c \in Cases, NEW k \in Keys,
                        pc[p] = "upsert", pc'[p] = "done", available[p],
                        c \in DOMAIN ran[p], read[p][c][k] = db[c][k], LowersCheck(c, k)
                 PROVE  <<c, k>> \in regressed[p]
      OBVIOUS
    <2>1. UpsertAndReport(p)
      BY EndingStep
    <2>2. db'[c][k] # db[c][k]
      <3>1. db[c][k].sum \in Nat /\ db[c][k].n \in Nat
        BY DEF LowersCheck, IInv, TypeOK, IsRow
      <3>2. ~Below(db[c][k], db[c][k])
        BY <3>1 DEF Below
      <3> QED
        BY <3>2 DEF LowersCheck
    <2>3. k \in Written(ran[p][c]) /\ db'[c][k] = RowOf(ran[p][c], k)
      BY <2>1, <2>2, MovedIsWritten
    <2>4. k \in Checks(ran[p][c]) /\ db'[c][k] = PassRatio(ran[p][c], k)
      BY <2>3 DEF Written, RowOf, Mean, LowersCheck
    <2>5. Regresses(PassRatio(ran[p][c], k), read[p][c][k])
      BY <2>4 DEF LowersCheck, Regresses
    <2>6. <<c, k>> \in RegressedIn(ran[p], read[p])
      BY <2>4, <2>5 DEF RegressedIn, RegressedKeys
    <2> QED
      BY <2>6 DEF IInv, RegressedAsRead
  <1> QED
    BY <1>1, Invariance, PTL DEF LoweredIsReported, Spec
=============================================================================
