--------------------------- MODULE CasePlanProofs ---------------------------
(* What CasePlan.tla promises, for any models, requests, names and number  *)
(* of mishaps.                                                             *)
EXTENDS CasePlan, FiniteSetTheorems, TLAPS

USE CasePlanAssumption

-----------------------------------------------------------------------------
(* Requests, widths and budgets.                                           *)

\* What the fields of a request are.
LEMMA RequestTypes ==
    ASSUME req \in Requests
    PROVE  /\ req.order \in Nat \ {0} /\ req.repeats \in Nat \ {0}
           /\ Verify => /\ req.consent \in BOOLEAN /\ req.fields \in BOOLEAN
                        /\ req.accepts \in BOOLEAN
           /\ ~Verify => /\ req.orders \in SUBSET (Nat \ {0}) /\ req.auto \in BOOLEAN
                         /\ req.wallclock \in Nat /\ req.cost \in Nat \ {0}
                         /\ req.concurrency \in Nat \ {0} /\ req.maxCases \in Nat
  BY DEF Request, Verify

\* A model has a width, and no fewer axes than are counted to clamp an order.
LEMMA WidthTypes ==
    ASSUME NEW m \in Seq(Line)
    PROVE  Width(m) \in Nat /\ DeclaredWidth(m) \in Nat /\ DeclaredWidth(m) <= Width(m)
<1> DEFINE all == {i \in DOMAIN m : IsAxis(m, i)}
           counted == {i \in DOMAIN m : IsAxis(m, i) /\ m[i].name \notin IfNames}
<1>1. IsFiniteSet(1 .. Len(m))
  BY FS_Interval
<1>2. all \in SUBSET (1 .. Len(m)) /\ counted \in SUBSET all
  OBVIOUS
<1>3. IsFiniteSet(all)
  BY <1>1, <1>2, FS_Subset
<1>4. IsFiniteSet(counted) /\ Cardinality(counted) <= Cardinality(all)
  BY <1>2, <1>3, FS_Subset
<1>5. Cardinality(all) \in Nat /\ Cardinality(counted) \in Nat
  BY <1>3, <1>4, FS_CardinalityType
<1> QED
  BY <1>4, <1>5 DEF Width, DeclaredWidth

\* The two counts only differ on a name that begins with IF.
LEMMA WidthsAgree ==
    ASSUME NEW m, ~SomeIfName(m)
    PROVE  DeclaredWidth(m) = Width(m)
  BY DEF DeclaredWidth, Width, SomeIfName

\* What fits is what is affordable: a quotient, rounded down.
LEMMA Quotient ==
    ASSUME NEW n \in Nat, NEW b \in Nat, NEW d \in Nat \ {0}
    PROVE  b \div d \in Nat /\ (n <= b \div d <=> n * d <= b)
<1> DEFINE q == b \div d
           r == b % d
<1>1. q \in Int /\ r \in 0 .. d - 1 /\ b = d * q + r
  BY SMT
<1>2. q >= 0
  <2> SUFFICES ASSUME q < 0 PROVE FALSE
    BY <1>1
  <2>1. d * q <= d * (-1)
    BY <1>1, SMT
  <2> QED
    BY <1>1, <2>1, SMT
<1>3. ASSUME n <= q PROVE n * d <= b
  <2>1. n * d <= q * d
    BY <1>1, <1>2, <1>3, SMT
  <2> QED
    BY <1>1, <2>1, SMT
<1>4. ASSUME n > q PROVE n * d > b
  <2>1. n * d >= (q + 1) * d
    BY <1>1, <1>2, <1>4, SMT
  <2>2. (q + 1) * d = d * q + d
    BY <1>1, SMT
  <2> QED
    BY <1>1, <2>1, <2>2, SMT
<1> QED
  BY <1>1, <1>2, <1>3, <1>4, SMT

\* What a plan has to spend, and the orders it tries.
LEMMA PlanTypes ==
    ASSUME req \in Requests, text \in Seq(Line), ~Verify
    PROVE  /\ Repeats \in Nat \ {0} /\ (req.auto = FALSE => Repeats = req.repeats)
           /\ Affordable \in Nat
           /\ OrdersToTry \subseteq Nat
           /\ Wanted = {} => OrdersToTry = {req.order}
<1>1. Repeats \in Nat \ {0} /\ (req.auto = FALSE => Repeats = req.repeats)
  BY RequestTypes DEF Repeats, Larger, MinRepeats
<1>2. Affordable \in Nat
  <2>1. req.wallclock * req.concurrency \in Nat /\ req.cost * Repeats \in Nat \ {0}
    BY <1>1, RequestTypes, SMT
  <2>2. (req.wallclock * req.concurrency) \div (req.cost * Repeats) \in Nat
    BY <2>1, Quotient
  <2> QED
    BY <2>2, RequestTypes DEF Affordable, Smaller
<1>3. Wanted \subseteq Nat
  BY RequestTypes DEF Wanted, DefaultOrders
<1>4. OrdersToTry \subseteq Nat
  BY <1>3, RequestTypes, WidthTypes DEF OrdersToTry, Smaller
<1>5. Wanted = {} => OrdersToTry = {req.order}
  BY DEF OrdersToTry
<1> QED
  BY <1>1, <1>2, <1>4, <1>5

\* What is affordable is what the budget pays for.
LEMMA AffordableFits ==
    ASSUME req \in Requests, text \in Seq(Line), ~Verify, NEW n \in Nat
    PROVE  n <= Affordable <=>
             /\ n * req.cost * Repeats <= req.wallclock * req.concurrency
             /\ n <= req.maxCases
<1> DEFINE b == req.wallclock * req.concurrency
           d == req.cost * Repeats
<1>1. b \in Nat /\ d \in Nat \ {0} /\ req.maxCases \in Nat
  BY PlanTypes, RequestTypes, SMT
<1>2. b \div d \in Nat /\ (n <= b \div d <=> n * d <= b)
  BY <1>1, Quotient
<1>3. n * req.cost * Repeats = n * d
  BY PlanTypes, RequestTypes, SMT
<1>4. n <= Affordable <=> n <= b \div d /\ n <= req.maxCases
  BY <1>1, <1>2 DEF Affordable, Smaller
<1> QED
  BY <1>2, <1>3, <1>4

-----------------------------------------------------------------------------
(* A coverage is a pair of numbers.                                        *)

\* The rows of a prefix realise a finite number of combinations.
LEMMA CombinationsCount ==
    ASSUME NEW S, rows \in Seq(S), NEW width \in Nat, NEW k, NEW n
    PROVE  /\ IsFiniteSet(Combinations(Rows(n), width, k))
           /\ Cardinality(Combinations(Rows(n), width, k)) \in Nat
<1> DEFINE prefix == {j \in DOMAIN rows : j <= n}
           from == Choices(width, k) \X prefix
           all == Combinations(Rows(n), width, k)
           f == [p \in from |-> <<p[1], [i \in p[1] |-> rows[p[2]][i]]>>]
<1>1. IsFiniteSet(prefix)
  <2>1. IsFiniteSet(1 .. Len(rows)) /\ prefix \in SUBSET (1 .. Len(rows))
    BY FS_Interval
  <2> QED
    BY <2>1, FS_Subset
<1>2. IsFiniteSet(Choices(width, k))
  <2>0. IsFiniteSet(1 .. width)
    BY FS_Interval
  <2>1. IsFiniteSet(SUBSET (1 .. width))
    BY <2>0, FS_SUBSET
  <2>2. Choices(width, k) \in SUBSET (SUBSET (1 .. width))
    BY DEF Choices
  <2> QED
    BY <2>1, <2>2, FS_Subset
<1>3. IsFiniteSet(from)
  BY <1>1, <1>2, FS_Product
<1>4. ASSUME NEW p \in from PROVE f[p] \in all
  <2>1. p[1] \in Choices(width, k) /\ rows[p[2]] \in Rows(n)
    BY DEF Rows
  <2> QED
    BY <2>1 DEF Combinations
<1>5. ASSUME NEW t \in all PROVE \E p \in from : f[p] = t
  <2>1. PICK c \in Choices(width, k) : \E r \in Rows(n) : t = <<c, [i \in c |-> r[i]]>>
    BY DEF Combinations
  <2>2. PICK r \in Rows(n) : t = <<c, [i \in c |-> r[i]]>>
    BY <2>1
  <2>3. PICK j \in prefix : r = rows[j]
    BY DEF Rows
  <2>4. <<c, j>> \in from /\ f[<<c, j>>] = t
    BY <2>2, <2>3
  <2> QED
    BY <2>4
<1>6. f \in Surjection(from, all)
  <2>1. f \in [from -> all]
    BY <1>4
  <2> QED
    BY <1>5, <2>1 DEF Surjection
<1> QED
  BY <1>3, <1>6, FS_Surjection, FS_CardinalityType

\* So the coverage of a prefix is a pair of them.
LEMMA CoverageTypes ==
    ASSUME NEW S, rows \in Seq(S), declared \in Seq(Line), NEW k, NEW n
    PROVE  CoverageOfPrefix(n, k) \in Nat \X Nat
<1>1. Len(Axes) \in Nat
  BY DEF Axes
<1>2. /\ Cardinality(Combinations(Rows(n), Len(Axes), k)) \in Nat
      /\ Cardinality(Combinations(Rows(Len(rows)), Len(Axes), k)) \in Nat
  BY <1>1, CombinationsCount
<1> QED
  BY <1>2 DEF CoverageOfPrefix

-----------------------------------------------------------------------------
(* The inductive invariant.                                                *)

\* Where a model has been validated.
Past == {"fields", "binary", "pict", "client", "cases", "fit"}

\* What a line must be, given those before it; and what is before it.
LineWellFormed(m, i) ==
    /\ IsAxis(m, i) => AxisWellFormed(m, i)
    /\ IsConstraint(m, i) => ConstraintWellFormed(m, i)
AxisBefore(m, n) == \E i \in 1 .. n - 1 : IsAxis(m, i)
ConstraintBefore(m, n) == \E i \in 1 .. n - 1 : IsConstraint(m, i)

\* validate_model() knows the lines before its own; past it, the model is well formed.
Validated ==
    /\ at = "lines" =>
         /\ Names = {text[j].name : j \in {i \in 1 .. line - 1 : IsAxis(text, i)}}
         /\ declared # <<>> <=> AxisBefore(text, line)
         /\ constrained = TRUE <=> ConstraintBefore(text, line)
         /\ \A i \in 1 .. line - 1 : LineWellFormed(text, i)
    /\ at \in Past => WellFormed(text)

\* What each step of a verification may rely on.
Admission ==
    Verify =>
        /\ at \in {"consent", "read", "lines", "fields", "binary", "pict", "client", "cases",
                   "over"}
        /\ at \notin {"consent", "over"} => req.consent = TRUE
        /\ at \in {"consent", "read", "fields"} => admitted = FALSE
        /\ at \in {"binary", "pict", "client", "cases"} => req.fields = TRUE
        /\ at \in {"pict", "client", "cases"} => admitted = TRUE
        /\ admitted = FALSE => rows = <<>>
        /\ admitted = TRUE =>
             /\ req.fields = TRUE /\ order = req.order
             /\ binary = FALSE => "uninstalled" \in mishaps
        /\ at \in {"client", "cases"} => req.accepts = TRUE /\ order <= Width(text)

\* The orders of a plan have been tried and did not fit, are being tried, or are left.
Walk ==
    ~Verify =>
        /\ at \in {"orders", "lines", "binary", "pict", "fit", "over"}
        /\ \A t \in tried : t.size > Affordable
        /\ at = "orders" => tried = {}
        /\ at # "orders" =>
             /\ order \in OrdersToTry /\ todo \subseteq OrdersToTry
             /\ \A o \in todo : o < order
             /\ \A o \in OrdersToTry : o = order \/ o \in todo \/ \E t \in tried : t.order = o

\* A code is the end of it.
Ended == at = "over" <=> code # NoCode

IInv ==
    TypeOK /\ Validated /\ Admission /\ Walk /\ Ended /\ BlameIsRight /\ CutsOnlyWhatDoesNotFit

USE DEF vars, inputs, validation, planning, results, Goto, Exit, NoCode

\* The types of the text and of the request, where they are needed.
LEMMA Typed ==
    ASSUME TypeOK
    PROVE  /\ req \in Requests /\ text \in Seq(Line) /\ disk \in Seq(Line)
           /\ binary \in BOOLEAN /\ declared \in Seq(Line) /\ order \in Nat
<1>1. /\ req \in Requests /\ text \in Models \cup {<<>>} /\ disk \in Models
      /\ binary \in BOOLEAN /\ declared \in Seq(Line) /\ order \in Nat
  BY DEF TypeOK
<1>2. <<>> \in Seq(Line)
  OBVIOUS
<1> QED
  BY <1>1, <1>2

\* Where the validation starts.
LEMMA Starts ==
    ASSUME NEW m \in Seq(Line)
    PROVE  1 \in 1 .. Len(m) + 1 /\ <<>> \in Seq(Line)
<1>1. Len(m) \in Nat
  OBVIOUS
<1>2. <<>> \in Seq(Line)
  OBVIOUS
<1> QED
  BY <1>1, <1>2

\* A step that leaves the request and the text alone leaves the plan's terms alone.
LEMMA SameTerms ==
    ASSUME req' = req, text' = text
    PROVE  /\ Verify' = Verify /\ Repeats' = Repeats /\ Affordable' = Affordable
           /\ OrdersToTry' = OrdersToTry /\ Wanted' = Wanted
  BY DEF Verify, Repeats, Affordable, OrdersToTry, Wanted

\* What has no code yet keeps both promises about codes.
LEMMA NoCodeYet ==
    ASSUME code' = NoCode
    PROVE  BlameIsRight' /\ CutsOnlyWhatDoesNotFit'
  BY DEF BlameIsRight, CutsOnlyWhatDoesNotFit

-----------------------------------------------------------------------------
(* Every action keeps IInv.  Admission:                                    *)

\* The operator's consent.
LEMMA ConsentKeeps == ASSUME IInv, Consent PROVE IInv'
<1>1. TypeOK'
  BY DEF IInv, TypeOK, Consent
<1>2. Validated'
  BY DEF IInv, Validated, Consent, Past, Names
<1>3. Admission'
  BY RequestTypes, Typed DEF IInv, Admission, Consent, Verify
<1>4. Walk'
  BY DEF IInv, Admission, Walk, Consent, Verify
<1>5. Ended'
  BY DEF IInv, Ended, Consent
<1>6. BlameIsRight'
  BY RequestTypes, Typed DEF IInv, Admission, Ended, Consent, BlameIsRight, Verify
<1>7. CutsOnlyWhatDoesNotFit'
  BY DEF IInv, Admission, Walk, Ended, Consent, CutsOnlyWhatDoesNotFit, Verify
<1> QED
  BY <1>1, <1>2, <1>3, <1>4, <1>5, <1>6, <1>7 DEF IInv

\* The model is read.
LEMMA ReadKeeps == ASSUME IInv, Read PROVE IInv'
<1>0. req \in Requests /\ text \in Seq(Line) /\ disk \in Seq(Line)
  BY Typed DEF IInv
<1>v. Verify /\ Verify'
  BY DEF IInv, Walk, Read, Verify
<1>1. TypeOK'
  <2> USE DEF IInv, TypeOK, Read
  <2>1. text' \in Models \cup {<<>>} /\ req' \in Requests /\ disk' \in Models
    BY DEF StartLines
  <2>2. binary' \in BOOLEAN /\ admitted' \in BOOLEAN
    BY Zenon
  <2>3. constrained' \in BOOLEAN
    BY Zenon DEF StartLines
  <2>4. mishaps' \subseteq {"unreadable", "killed", "hung", "edited", "uninstalled", "no_docker"}
    BY DEF Mishap
  <2>5. at' \in {"lines", "over"} /\ code' \in {NoCode, 0, 2, 3}
    BY DEF StartLines
  <2>6. line' \in 1 .. Len(text') + 1 /\ declared' \in Seq(Line)
    BY <1>0, Starts DEF StartLines
  <2>7. /\ order' \in Nat /\ todo' \subseteq Nat /\ ran' \in Nat /\ coverage' \in Nat \X Nat
        /\ \A t \in tried' : t.order \in Nat /\ t.size \in Nat
    OBVIOUS
  <2> QED
    BY <2>1, <2>2, <2>3, <2>4, <2>5, <2>6, <2>7
<1>2. Validated'
  BY DEF IInv, Validated, Read, StartLines, Past, Names, AxisBefore, ConstraintBefore
<1>3. Admission'
  BY <1>0, RequestTypes DEF IInv, Admission, Read, StartLines, Verify
<1>4. Walk'
  BY <1>v DEF Walk
<1>5. Ended'
  BY DEF IInv, Ended, Read, StartLines
<1>6. BlameIsRight'
  BY <1>0, <1>v, RequestTypes DEF IInv, Ended, Read, StartLines, Mishap, BlameIsRight, Verify
<1>7. CutsOnlyWhatDoesNotFit'
  BY <1>v DEF CutsOnlyWhatDoesNotFit
<1> QED
  BY <1>1, <1>2, <1>3, <1>4, <1>5, <1>6, <1>7 DEF IInv

\* The other fields.
LEMMA FieldsKeeps == ASSUME IInv, Fields PROVE IInv'
<1>0. req \in Requests /\ text \in Seq(Line)
  BY Typed DEF IInv
<1>v. Verify /\ Verify'
  BY DEF IInv, Walk, Fields, Verify
<1>1. TypeOK'
  BY DEF IInv, TypeOK, Fields
<1>2. Validated'
  BY DEF IInv, Validated, Fields, Past
<1>3. Admission'
  BY <1>0, <1>v, RequestTypes DEF IInv, Admission, Fields, Verify
<1>4. Walk'
  BY <1>v DEF Walk
<1>5. Ended'
  BY DEF IInv, Ended, Fields
<1>6. BlameIsRight'
  <2>1. TooWide => req.order > Width(text) \/ SomeIfName(text)
    BY WidthsAgree DEF TooWide
  <2> QED
    BY <1>0, <1>v, <2>1, RequestTypes DEF IInv, Ended, Fields, BlameIsRight, Verify
<1>7. CutsOnlyWhatDoesNotFit'
  BY <1>v DEF CutsOnlyWhatDoesNotFit
<1> QED
  BY <1>1, <1>2, <1>3, <1>4, <1>5, <1>6, <1>7 DEF IInv

\* The request is admitted, with a binary.
LEMMA AdmitKeeps == ASSUME IInv, Admit PROVE IInv'
<1>0. req \in Requests /\ text \in Seq(Line) /\ binary \in BOOLEAN
  BY Typed DEF IInv
<1>v. Verify /\ Verify'
  BY DEF Admit, Verify
<1>1. TypeOK'
  <2> USE DEF IInv, TypeOK, Admit
  <2>1. binary' \in BOOLEAN /\ admitted' \in BOOLEAN
    BY Zenon
  <2>2. constrained' \in BOOLEAN
    BY Zenon DEF StartLines
  <2>3. mishaps' \subseteq {"unreadable", "killed", "hung", "edited", "uninstalled", "no_docker"}
    BY DEF Mishap
  <2>4. at' \in {"lines", "over"} /\ code' \in {NoCode, 0, 2, 3}
    BY DEF StartLines
  <2>5. line' \in 1 .. Len(text') + 1 /\ declared' \in Seq(Line)
    BY <1>0, Starts DEF StartLines
  <2>6. order' \in Nat
    BY <1>0, RequestTypes
  <2> QED
    BY <2>1, <2>2, <2>3, <2>4, <2>5, <2>6
<1>2. Validated'
  BY DEF IInv, Validated, Admit, StartLines, Past, Names, AxisBefore, ConstraintBefore
<1>3. Admission'
  BY <1>0, <1>v, RequestTypes DEF IInv, Admission, Admit, StartLines, Verify
<1>4. Walk'
  BY <1>v DEF Walk
<1>5. Ended'
  BY DEF IInv, Ended, Admit, StartLines
<1>6. BlameIsRight'
  BY <1>0, <1>v, RequestTypes DEF IInv, Ended, Admit, StartLines, Mishap, BlameIsRight, Verify
<1>7. CutsOnlyWhatDoesNotFit'
  BY <1>v DEF CutsOnlyWhatDoesNotFit
<1> QED
  BY <1>1, <1>2, <1>3, <1>4, <1>5, <1>6, <1>7 DEF IInv

-----------------------------------------------------------------------------
(* Validation:                                                             *)

\* An index of a model is a line of one of the three kinds.
LEMMA LineKinds ==
    ASSUME NEW m \in Seq(Line), NEW i \in 1 .. Len(m)
    PROVE  /\ m[i] \in Line /\ m[i].kind \in {"axis", "constraint", "other"}
           /\ IsAxis(m, i) <=> m[i].kind = "axis"
           /\ IsConstraint(m, i) <=> m[i].kind = "constraint"
           /\ m[i].kind = "axis" => m[i].name \in AxisNames /\ m[i].values \in Nat
  BY DEF Line, IsAxis, IsConstraint

\* An axis is right exactly if it is well formed after what was seen.
LEMMA AxisIsJudged ==
    ASSUME TypeOK, Validated, at = "lines", line <= Len(text), text[line].kind = "axis"
    PROVE  AxisIsRight(text[line]) <=> LineWellFormed(text, line)
<1>1. text \in Seq(Line) /\ line \in 1 .. Len(text) /\ constrained \in BOOLEAN
  BY Typed DEF TypeOK
<1>2. IsAxis(text, line) /\ ~IsConstraint(text, line)
  BY <1>1, LineKinds
<1>3. Names = {text[j].name : j \in {i \in 1 .. line - 1 : IsAxis(text, i)}}
  BY DEF Validated
<1>4. constrained = TRUE <=> ConstraintBefore(text, line)
  BY DEF Validated
<1>5. text[line].name \notin Names <=>
        \A j \in 1 .. line - 1 : IsAxis(text, j) => text[j].name # text[line].name
  BY <1>3
<1>6. ~constrained <=> \A j \in 1 .. line - 1 : ~IsConstraint(text, j)
  BY <1>1, <1>4 DEF ConstraintBefore
<1> QED
  BY <1>2, <1>5, <1>6 DEF AxisIsRight, LineWellFormed, AxisWellFormed

\* So is a constraint.
LEMMA ConstraintIsJudged ==
    ASSUME TypeOK, Validated, at = "lines", line <= Len(text), text[line].kind = "constraint"
    PROVE  RefsDeclared(text[line]) <=> LineWellFormed(text, line)
<1>1. text \in Seq(Line) /\ line \in 1 .. Len(text)
  BY Typed DEF TypeOK
<1>2. IsConstraint(text, line) /\ ~IsAxis(text, line)
  BY <1>1, LineKinds
<1>3. Names = {text[j].name : j \in {i \in 1 .. line - 1 : IsAxis(text, i)}}
  BY DEF Validated
<1> QED
  BY <1>2, <1>3 DEF RefsDeclared, LineWellFormed, ConstraintWellFormed

\* A line that is not well formed makes a model that is not.
LEMMA OneBadLine ==
    ASSUME NEW m \in Seq(Line), NEW i \in 1 .. Len(m), ~LineWellFormed(m, i)
    PROVE  ~WellFormed(m)
  BY DEF WellFormed, LineWellFormed

\* What is before the next line.
LEMMA NextLine ==
    ASSUME NEW m \in Seq(Line), NEW n \in 1 .. Len(m)
    PROVE  /\ 1 .. (n + 1) - 1 = (1 .. n - 1) \cup {n}
           /\ AxisBefore(m, n + 1) <=> AxisBefore(m, n) \/ IsAxis(m, n)
           /\ ConstraintBefore(m, n + 1) <=> ConstraintBefore(m, n) \/ IsConstraint(m, n)
<1>1. 1 .. (n + 1) - 1 = (1 .. n - 1) \cup {n}
  OBVIOUS
<1> QED
  BY <1>1 DEF AxisBefore, ConstraintBefore

\* The names, with another axis.
LEMMA AppendedNames ==
    ASSUME declared \in Seq(Line), NEW l \in Line, declared' = Append(declared, l)
    PROVE  Names' = Names \cup {l.name} /\ declared' # <<>> /\ declared' \in Seq(Line)
<1>1. /\ Len(declared') = Len(declared) + 1 /\ Len(declared) \in Nat
      /\ \A i \in 1 .. Len(declared) : declared'[i] = declared[i]
      /\ declared'[Len(declared) + 1] = l
  OBVIOUS
<1>2. DOMAIN declared' = (1 .. Len(declared)) \cup {Len(declared) + 1}
  BY <1>1
<1>3. DOMAIN declared = 1 .. Len(declared)
  OBVIOUS
<1>4. Names' = Names \cup {l.name}
  BY <1>1, <1>2, <1>3 DEF Names
<1>5. declared' # <<>> /\ declared' \in Seq(Line)
  BY <1>1
<1> QED
  BY <1>4, <1>5

\* One line of the model.
LEMMA CheckLineKeeps == ASSUME IInv, CheckLine PROVE IInv'
<1> DEFINE l == text[line]
           accepted == at' = "lines" /\ line' = line + 1
<1>0. /\ req \in Requests /\ text \in Seq(Line) /\ declared \in Seq(Line)
      /\ line \in 1 .. Len(text) /\ at = "lines" /\ code = NoCode
      /\ l \in Line /\ text' = text /\ req' = req
  BY Typed, LineKinds DEF IInv, TypeOK, Ended, CheckLine
<1>a. \/ accepted /\ code' = NoCode
      \/ at' = "over" /\ code' = 2 /\ ~WellFormed(text)
  <2>1. CASE accepted /\ code' = NoCode
    BY <2>1
  <2>2. CASE /\ \/ l.kind = "constraint" /\ ~RefsDeclared(l)
                \/ l.kind = "axis" /\ ~AxisIsRight(l)
             /\ at' = "over" /\ code' = 2
    <3>1. ~LineWellFormed(text, line)
      BY <1>0, <2>2, AxisIsJudged, ConstraintIsJudged DEF IInv
    <3> QED
      BY <1>0, <2>2, <3>1, OneBadLine
  <2> QED
    BY <1>0, <2>1, <2>2 DEF CheckLine
<1>1. TypeOK'
  <2>1. constrained' \in BOOLEAN
    BY Zenon DEF IInv, TypeOK, CheckLine
  <2>2. line' \in 1 .. Len(text') + 1
    BY <1>0 DEF CheckLine
  <2>3. declared' \in Seq(Line)
    BY <1>0, AppendedNames DEF CheckLine
  <2>4. admitted' \in BOOLEAN /\ binary' \in BOOLEAN
    BY Zenon DEF IInv, TypeOK, CheckLine
  <2> QED
    BY <1>a, <2>1, <2>2, <2>3, <2>4 DEF IInv, TypeOK, CheckLine
<1>2. Validated'
  <2>1. CASE l.kind = "other" /\ accepted /\ UNCHANGED <<declared, constrained>>
    <3>1. LineWellFormed(text, line) /\ ~IsAxis(text, line) /\ ~IsConstraint(text, line)
      BY <1>0, <2>1, LineKinds DEF LineWellFormed
    <3>2. Names' = Names
      BY <2>1 DEF Names
    <3> QED
      BY <1>0, <2>1, <3>1, <3>2, NextLine DEF IInv, Validated, Past
  <2>2. CASE l.kind = "constraint" /\ RefsDeclared(l) /\ accepted
             /\ constrained' = TRUE /\ UNCHANGED declared
    <3>1. LineWellFormed(text, line) /\ ~IsAxis(text, line) /\ IsConstraint(text, line)
      BY <1>0, <2>2, LineKinds, ConstraintIsJudged DEF IInv
    <3>2. Names' = Names
      BY <2>2 DEF Names
    <3> QED
      BY <1>0, <2>2, <3>1, <3>2, NextLine DEF IInv, Validated, Past
  <2>3. CASE l.kind = "axis" /\ AxisIsRight(l) /\ accepted
             /\ declared' = Append(declared, l) /\ UNCHANGED constrained
    <3>1. LineWellFormed(text, line) /\ IsAxis(text, line) /\ ~IsConstraint(text, line)
      BY <1>0, <2>3, LineKinds, AxisIsJudged DEF IInv
    <3>2. Names' = Names \cup {l.name} /\ declared' # <<>>
      BY <1>0, <2>3, AppendedNames
    <3>3. Names = {text[j].name : j \in {i \in 1 .. line - 1 : IsAxis(text, i)}}
      BY <1>0 DEF IInv, Validated
    <3>4. Names' = {text[j].name : j \in {i \in 1 .. (line + 1) - 1 : IsAxis(text, i)}}
      BY <1>0, <3>1, <3>2, <3>3, NextLine
    <3>5. AxisBefore(text, line + 1)
      BY <1>0, <3>1, NextLine
    <3>6. constrained = TRUE <=> ConstraintBefore(text, line + 1)
      BY <1>0, <3>1, NextLine DEF IInv, Validated
    <3>7. \A i \in 1 .. (line + 1) - 1 : LineWellFormed(text, i)
      BY <1>0, <3>1, NextLine DEF IInv, Validated
    <3> QED
      BY <1>0, <2>3, <3>2, <3>4, <3>5, <3>6, <3>7 DEF Validated, Past
  <2>4. CASE at' = "over"
    BY <2>4 DEF Validated, Past
  <2> QED
    BY <1>0, <2>1, <2>2, <2>3, <2>4 DEF CheckLine
<1>3. Admission'
  BY <1>0, <1>a DEF IInv, Admission, CheckLine, Verify
<1>4. Walk'
  BY <1>0, <1>a, SameTerms DEF IInv, Walk, CheckLine
<1>5. Ended'
  BY <1>a DEF Ended
<1>6. BlameIsRight'
  BY <1>0, <1>a DEF BlameIsRight
<1>7. CutsOnlyWhatDoesNotFit'
  BY <1>a DEF CutsOnlyWhatDoesNotFit
<1> QED
  BY <1>1, <1>2, <1>3, <1>4, <1>5, <1>6, <1>7 DEF IInv

\* The end of the model.
LEMMA EndLinesKeeps == ASSUME IInv, EndLines PROVE IInv'
<1>0. /\ req \in Requests /\ text \in Seq(Line) /\ line = Len(text) + 1
      /\ at = "lines" /\ code = NoCode /\ text' = text /\ req' = req
  BY Typed DEF IInv, TypeOK, Ended, EndLines
<1>a. (declared # <<>>) <=> WellFormed(text)
  <2>1. \A i \in DOMAIN text : LineWellFormed(text, i)
    BY <1>0 DEF IInv, Validated
  <2>2. (declared # <<>>) <=> \E i \in DOMAIN text : IsAxis(text, i)
    BY <1>0 DEF IInv, Validated, AxisBefore
  <2> QED
    BY <2>1, <2>2 DEF WellFormed, LineWellFormed
<1>1. TypeOK'
  <2>1. at' = "fields" => rows = <<>>
    BY <1>0 DEF IInv, TypeOK, Admission, EndLines
  <2>2. <<>> \in Seq(Grid(declared))
    OBVIOUS
  <2> QED
    BY <2>1, <2>2 DEF IInv, TypeOK, EndLines
<1>2. Validated'
  BY <1>0, <1>a DEF Validated, EndLines, Past
<1>3. Admission'
  BY <1>0 DEF IInv, TypeOK, Admission, EndLines, Verify
<1>4. Walk'
  BY <1>0, SameTerms DEF IInv, Walk, EndLines, Verify
<1>5. Ended'
  BY <1>0 DEF Ended, EndLines
<1>6. BlameIsRight'
  BY <1>0, <1>a DEF EndLines, BlameIsRight
<1>7. CutsOnlyWhatDoesNotFit'
  BY <1>0 DEF EndLines, CutsOnlyWhatDoesNotFit
<1> QED
  BY <1>1, <1>2, <1>3, <1>4, <1>5, <1>6, <1>7 DEF IInv

-----------------------------------------------------------------------------
(* Generation:                                                             *)

\* The binary is resolved again.
LEMMA ResolveKeeps == ASSUME IInv, Resolve PROVE IInv'
<1>0. /\ req \in Requests /\ binary \in BOOLEAN /\ text' = text /\ req' = req
      /\ at = "binary" /\ code = NoCode
  BY Typed DEF IInv, Ended, Resolve
<1>a. \/ at' = "pict" /\ code' = NoCode
      \/ at' = "over" /\ code' = 2 /\ binary = FALSE
  BY <1>0 DEF Resolve
<1>b. Verify => admitted = TRUE
  BY DEF IInv, TypeOK, Resolve
<1>1. TypeOK'
  <2>1. <<>> \in Seq(Grid(declared))
    OBVIOUS
  <2> QED
    BY <2>1 DEF IInv, TypeOK, Resolve
<1>2. Validated'
  BY <1>0 DEF IInv, Validated, Resolve, Past
<1>3. Admission'
  BY <1>0, <1>a, <1>b DEF IInv, Admission, Resolve, Verify
<1>4. Walk'
  BY <1>0, <1>a, SameTerms DEF IInv, Walk, Resolve
<1>5. Ended'
  BY <1>a DEF Ended
<1>6. BlameIsRight'
  BY <1>0, <1>a, <1>b DEF IInv, Admission, Resolve, BlameIsRight, Verify
<1>7. CutsOnlyWhatDoesNotFit'
  BY <1>a DEF CutsOnlyWhatDoesNotFit
<1> QED
  BY <1>1, <1>2, <1>3, <1>4, <1>5, <1>6, <1>7 DEF IInv

\* PICT, row by row.
LEMMA PictKeeps == ASSUME IInv, Pict PROVE IInv'
<1> DEFINE right == req.accepts /\ order <= Width(text)
<1>0. /\ req \in Requests /\ binary \in BOOLEAN /\ text' = text /\ req' = req
      /\ at = "pict" /\ code = NoCode /\ rows \in Seq(Grid(declared)) /\ declared' = declared
      /\ req.accepts \in BOOLEAN
  <2>1. rows \in Seq(Grid(declared))
    BY DEF IInv, TypeOK, Pict
  <2>2. req.accepts \in BOOLEAN
    BY DEF IInv, TypeOK, Request
  <2> QED
    BY <2>1, <2>2, Typed DEF IInv, Ended, Pict
<1>a. \/ at' = "pict" /\ code' = NoCode /\ rows' \in Seq(Grid(declared))
      \/ at' = (IF Verify THEN "client" ELSE "fit") /\ code' = NoCode /\ right /\ rows' = rows
      \/ /\ at' = "over" /\ code' = 2
         /\ ~right \/ "killed" \in mishaps' \/ Feasible(declared, text) = {}
      \/ at' = "over" /\ code' = 3 /\ ("hung" \in mishaps' \/ ~binary)
  <2>1. ASSUME NEW r \in Feasible(Axes, text), rows' = Append(rows, r)
        PROVE  rows' \in Seq(Grid(declared))
    <3>1. r \in Grid(declared)
      BY DEF Feasible, Axes
    <3> QED
      BY <1>0, <2>1, <3>1
  <2> QED
    BY <1>0, <2>1 DEF Pict, Mishap, Axes
<1>1. TypeOK'
  <2>1. rows' \in Seq(Grid(declared')) \/ at' \in {"lines", "binary", "over"}
    BY <1>0, <1>a
  <2>2. mishaps' \subseteq {"unreadable", "killed", "hung", "edited", "uninstalled", "no_docker"}
    BY DEF IInv, TypeOK, Pict, Mishap
  <2>3. /\ at' \in {"pict", "client", "fit", "over"} /\ code' \in {NoCode, 0, 2, 3}
    BY <1>a
  <2> QED
    BY <2>1, <2>2, <2>3 DEF IInv, TypeOK, Pict
<1>2. Validated'
  BY <1>0, <1>a DEF IInv, Validated, Past
<1>3. Admission'
  BY <1>0, <1>a DEF IInv, Admission, Pict, Mishap, Verify
<1>4. Walk'
  BY <1>0, <1>a, SameTerms DEF IInv, Walk, Pict
<1>5. Ended'
  BY <1>a DEF Ended
<1>6. BlameIsRight'
  <2>1. Verify => req.order = order
    BY <1>0 DEF IInv, Admission
  <2>2. binary' = binary
    BY DEF Pict
  <2>3. CASE code' = NoCode
    BY <2>3, NoCodeYet
  <2>4. CASE code' = 2
    <3>1. ~right \/ "killed" \in mishaps' \/ Feasible(declared', text') = {}
      BY <1>0, <1>a, <2>4
    <3>2. Verify' => req'.order = order /\ Width(text') = Width(text)
      BY <1>0, <2>1 DEF Verify
    <3>3. ~right /\ Verify' => ~req'.accepts \/ req'.order > Width(text')
      <4>1. Width(text) \in Nat /\ order \in Nat
        BY Typed, WidthTypes DEF IInv
      <4> QED
        BY <1>0, <3>2, <4>1
    <3> QED
      BY <2>4, <3>1, <3>3 DEF BlameIsRight
  <2>5. CASE code' = 3
    BY <1>a, <2>2, <2>5 DEF BlameIsRight
  <2> QED
    BY <1>a, <2>3, <2>4, <2>5
<1>7. CutsOnlyWhatDoesNotFit'
  BY <1>a DEF CutsOnlyWhatDoesNotFit
<1> QED
  BY <1>1, <1>2, <1>3, <1>4, <1>5, <1>6, <1>7 DEF IInv

-----------------------------------------------------------------------------
(* The cases:                                                              *)

\* A client for Docker.
LEMMA ClientKeeps == ASSUME IInv, Client PROVE IInv'
<1>0. text' = text /\ req' = req /\ at = "client" /\ code = NoCode /\ Verify /\ Verify'
  BY DEF IInv, Ended, Walk, Client, Verify
<1>a. \/ at' = "cases" /\ code' = NoCode
      \/ at' = "over" /\ code' = 3 /\ "no_docker" \in mishaps'
  BY <1>0 DEF Client, Mishap
<1>1. TypeOK'
  BY DEF IInv, TypeOK, Client, Mishap
<1>2. Validated'
  BY <1>0, <1>a DEF IInv, Validated, Past
<1>3. Admission'
  BY <1>0, <1>a DEF IInv, Admission, Client, Mishap, Verify
<1>4. Walk'
  BY <1>0 DEF Walk
<1>5. Ended'
  BY <1>a DEF Ended
<1>6. BlameIsRight'
  BY <1>a DEF BlameIsRight
<1>7. CutsOnlyWhatDoesNotFit'
  BY <1>a DEF CutsOnlyWhatDoesNotFit
<1> QED
  BY <1>1, <1>2, <1>3, <1>4, <1>5, <1>6, <1>7 DEF IInv

\* A case runs.
LEMMA RunCaseKeeps == ASSUME IInv, RunCase PROVE IInv'
<1>0. text' = text /\ req' = req /\ at = "cases" /\ at' = at /\ code' = NoCode /\ Verify /\ Verify'
  BY DEF IInv, Ended, Walk, RunCase, Verify
<1>1. TypeOK'
  BY DEF IInv, TypeOK, RunCase
<1>2. Validated'
  BY <1>0 DEF IInv, Validated, Past
<1>3. Admission'
  BY <1>0 DEF IInv, Admission, RunCase, Verify
<1>4. Walk'
  BY <1>0 DEF Walk
<1>5. Ended'
  BY <1>0 DEF Ended
<1>6. BlameIsRight' /\ CutsOnlyWhatDoesNotFit'
  BY <1>0, NoCodeYet
<1> QED
  BY <1>1, <1>2, <1>3, <1>4, <1>5, <1>6 DEF IInv

\* The report is written.
LEMMA ReportKeeps == ASSUME IInv, Report PROVE IInv'
<1>0. /\ req \in Requests /\ rows \in Seq(Grid(declared)) /\ declared \in Seq(Line)
      /\ text' = text /\ req' = req /\ at = "cases" /\ at' = "over" /\ code' = 0
      /\ Verify /\ Verify'
  <2>1. rows \in Seq(Grid(declared))
    BY DEF IInv, TypeOK, Report
  <2> QED
    BY <2>1, Typed DEF IInv, Walk, Report, Verify
<1>1. TypeOK'
  <2>1. coverage' \in Nat \X Nat
    BY <1>0, CoverageTypes DEF Report
  <2> QED
    BY <1>0, <2>1 DEF IInv, TypeOK, Report
<1>2. Validated'
  BY <1>0 DEF Validated, Past
<1>3. Admission'
  BY <1>0 DEF IInv, Admission, Report, Verify
<1>4. Walk'
  BY <1>0 DEF Walk
<1>5. Ended'
  BY <1>0 DEF Ended
<1>6. BlameIsRight'
  BY <1>0 DEF IInv, Validated, Past, Admission, Report, BlameIsRight
<1>7. CutsOnlyWhatDoesNotFit'
  BY <1>0 DEF CutsOnlyWhatDoesNotFit
<1> QED
  BY <1>1, <1>2, <1>3, <1>4, <1>5, <1>6, <1>7 DEF IInv

-----------------------------------------------------------------------------
(* Plans:                                                                  *)

\* What the budget pays for.
InBudget(n) ==
    /\ n * req.cost * Repeats <= req.wallclock * req.concurrency
    /\ n <= req.maxCases

\* What is known when an array is there.
LEMMA WalkedTo ==
    ASSUME IInv, at = "fit"
    PROVE  /\ ~Verify /\ rows \in Seq(Grid(declared)) /\ Affordable \in Nat
           /\ \A n \in Nat : n <= Affordable <=> InBudget(n)
           /\ \A o \in OrdersToTry : o > order => o \in todo \/ \E t \in tried : t.order = o
           /\ \A o \in todo : o < order
           /\ \A t \in tried : ~InBudget(t.size)
           /\ ~req.auto => 1 * req.cost * Repeats = req.cost * req.repeats
           /\ Wanted = {} => order = req.order
           /\ OrdersToTry \subseteq Nat /\ todo \subseteq Nat /\ order \in Nat
<1>1. ~Verify
  BY DEF IInv, Admission
<1>2. rows \in Seq(Grid(declared))
  BY DEF IInv, TypeOK
<1>3. req \in Requests /\ text \in Seq(Line)
  BY Typed DEF IInv
<1>4. \A n \in Nat : n <= Affordable <=> InBudget(n)
  BY <1>1, <1>3, AffordableFits DEF InBudget
<1>5. /\ Affordable \in Nat /\ OrdersToTry \subseteq Nat
      /\ Wanted = {} => OrdersToTry = {req.order}
      /\ Repeats \in Nat \ {0} /\ (req.auto = FALSE => Repeats = req.repeats)
  BY <1>1, <1>3, PlanTypes
<1>6. order \in OrdersToTry /\ todo \subseteq OrdersToTry /\ \A o \in todo : o < order
  BY <1>1 DEF IInv, Walk
<1>7. \A o \in OrdersToTry : o > order => o \in todo \/ \E t \in tried : t.order = o
  BY <1>1, <1>5, <1>6 DEF IInv, Walk
<1>8. \A t \in tried : ~InBudget(t.size)
  <2> SUFFICES ASSUME NEW t \in tried PROVE ~InBudget(t.size)
    OBVIOUS
  <2>1. t.size \in Nat
    BY DEF IInv, TypeOK
  <2>2. t.size > Affordable
    BY <1>1 DEF IInv, Walk
  <2> QED
    BY <1>4, <1>5, <2>1, <2>2
<1>9. ~req.auto => 1 * req.cost * Repeats = req.cost * req.repeats
  <2>1. req.auto \in BOOLEAN /\ req.cost \in Nat \ {0}
    BY <1>1, <1>3, RequestTypes
  <2>2. 1 * req.cost = req.cost
    BY <2>1
  <2> QED
    BY <1>5, <2>1, <2>2
<1> QED
  BY <1>1, <1>2, <1>4, <1>5, <1>6, <1>7, <1>8, <1>9

\* An array that keeps these facts, and fits, keeps the promise.
LEMMA PlanIsKept ==
    ASSUME IInv, at = "fit", UNCHANGED <<req, text, declared, rows, order, todo, tried>>,
           InBudget(ran'),
           ran' < Len(rows) => todo = {} /\ ~InBudget(ran' + 1)
    PROVE  CutsOnlyWhatDoesNotFit'
<1>1. /\ \A o \in OrdersToTry' : o > order' => \E t \in tried' : t.order = o
      /\ \A t \in tried' : ~InBudget(t.size)
      /\ ~req'.auto => 1 * req'.cost * Repeats' = req'.cost * req'.repeats
      /\ Wanted' = {} => order' = req'.order
  <2>1. \A o \in OrdersToTry : o > order => o \notin todo
    BY WalkedTo
  <2> QED
    BY <2>1, WalkedTo, SameTerms
<1>2. InBudget(ran') /\ (ran' < Len(rows') => todo' = {} /\ ~InBudget(ran' + 1))
  OBVIOUS
<1>3. req' = req /\ Repeats' = Repeats
  BY SameTerms
<1> QED
  BY <1>1, <1>2, <1>3 DEF CutsOnlyWhatDoesNotFit, InBudget

\* The first order.
LEMMA OrdersKeeps == ASSUME IInv, Orders PROVE IInv'
<1>0. /\ req \in Requests /\ text \in Seq(Line) /\ text' = text /\ req' = req
      /\ at = "orders" /\ at' = "lines" /\ code' = NoCode /\ ~Verify /\ ~Verify'
  BY Typed DEF IInv, Admission, Ended, Orders, StartLines, Verify
<1>a. OrdersToTry \subseteq Nat
  BY <1>0, PlanTypes
<1>b. /\ order' \in OrdersToTry /\ \A k \in OrdersToTry : k <= order'
      /\ todo' = OrdersToTry \ {order'}
  BY DEF Orders, Try
<1>1. TypeOK'
  <2>1. line' \in 1 .. Len(text') + 1 /\ declared' \in Seq(Line)
    BY <1>0, Starts DEF Orders, StartLines
  <2>2. order' \in Nat /\ todo' \subseteq Nat
    BY <1>a, <1>b
  <2>3. constrained' \in BOOLEAN
    BY Zenon DEF Orders, StartLines
  <2> QED
    BY <1>0, <2>1, <2>2, <2>3 DEF IInv, TypeOK, Orders
<1>2. Validated'
  BY DEF Validated, Orders, StartLines, Past, Names, AxisBefore, ConstraintBefore
<1>3. Admission'
  BY <1>0 DEF Admission
<1>4. Walk'
  <2>1. \A o \in todo' : o < order'
    BY <1>a, <1>b
  <2>2. tried' = {}
    BY <1>0 DEF IInv, Walk, Orders
  <2> QED
    BY <1>0, <1>b, <2>1, <2>2, SameTerms DEF Walk
<1>5. Ended'
  BY <1>0 DEF Ended
<1>6. BlameIsRight' /\ CutsOnlyWhatDoesNotFit'
  BY <1>0, NoCodeYet
<1> QED
  BY <1>1, <1>2, <1>3, <1>4, <1>5, <1>6 DEF IInv

\* An array that fits.
LEMMA FitsKeeps == ASSUME IInv, Fits PROVE IInv'
<1>0. /\ text' = text /\ req' = req /\ at = "fit" /\ at' = "over" /\ code' = 0
      /\ ~Verify /\ ~Verify' /\ Len(rows) \in Nat
  BY WalkedTo, SameTerms DEF Fits
<1>1. TypeOK'
  BY <1>0 DEF IInv, TypeOK, Fits
<1>2. Validated'
  BY <1>0 DEF Validated, Past
<1>3. Admission'
  BY <1>0 DEF Admission
<1>4. Walk'
  BY <1>0, SameTerms DEF IInv, Walk, Fits
<1>5. Ended'
  BY <1>0 DEF Ended
<1>6. BlameIsRight'
  BY <1>0 DEF BlameIsRight
<1>7. CutsOnlyWhatDoesNotFit'
  <2>1. InBudget(ran') /\ ran' = Len(rows)
    BY <1>0, WalkedTo DEF Fits
  <2> QED
    BY <1>0, <2>1, PlanIsKept DEF Fits
<1> QED
  BY <1>1, <1>2, <1>3, <1>4, <1>5, <1>6, <1>7 DEF IInv

\* One that does not, with another order left.
LEMMA NextOrderKeeps == ASSUME IInv, NextOrder PROVE IInv'
<1>0. /\ req \in Requests /\ text \in Seq(Line) /\ text' = text /\ req' = req
      /\ at = "fit" /\ at' = "lines" /\ code' = NoCode /\ ~Verify /\ ~Verify'
      /\ Len(rows) \in Nat /\ order \in Nat
  BY Typed, WalkedTo, SameTerms DEF IInv, Ended, NextOrder, StartLines
<1>a. /\ order' \in todo /\ \A k \in todo : k <= order'
      /\ todo' = todo \ {order'} /\ todo \subseteq Nat
      /\ tried' = tried \cup {[order |-> order, size |-> Len(rows)]}
  BY WalkedTo DEF NextOrder, Try
<1>1. TypeOK'
  <2>1. line' \in 1 .. Len(text') + 1 /\ declared' \in Seq(Line)
    BY <1>0, Starts DEF NextOrder, StartLines
  <2>2. /\ order' \in Nat /\ todo' \subseteq Nat
        /\ \A t \in tried' : t.order \in Nat /\ t.size \in Nat
    BY <1>0, <1>a DEF IInv, TypeOK
  <2>3. constrained' \in BOOLEAN
    BY Zenon DEF NextOrder, StartLines
  <2> QED
    BY <1>0, <2>1, <2>2, <2>3 DEF IInv, TypeOK, NextOrder
<1>2. Validated'
  BY DEF Validated, NextOrder, StartLines, Past, Names, AxisBefore, ConstraintBefore
<1>3. Admission'
  BY <1>0 DEF Admission
<1>4. Walk'
  <2>1. \A o \in todo' : o < order'
    BY <1>a
  <2>2. \A t \in tried' : t.size > Affordable
    BY <1>0, <1>a DEF IInv, Walk, NextOrder
  <2>3. \A o \in OrdersToTry : o = order' \/ o \in todo' \/ \E t \in tried' : t.order = o
    <3> SUFFICES ASSUME NEW o \in OrdersToTry
                 PROVE  o = order' \/ o \in todo' \/ \E t \in tried' : t.order = o
      OBVIOUS
    <3>1. o = order \/ o \in todo \/ \E t \in tried : t.order = o
      BY <1>0 DEF IInv, Walk
    <3>2. CASE o = order
      <4>1. [order |-> order, size |-> Len(rows)] \in tried'
        BY <1>a
      <4> QED
        BY <3>2, <4>1
    <3>3. CASE o \in todo
      BY <1>a, <3>3
    <3>4. CASE \E t \in tried : t.order = o
      BY <1>a, <3>4
    <3> QED
      BY <3>1, <3>2, <3>3, <3>4
  <2>4. order' \in OrdersToTry /\ todo' \subseteq OrdersToTry
    BY <1>0, <1>a DEF IInv, Walk
  <2> QED
    BY <1>0, <2>1, <2>2, <2>3, <2>4, SameTerms DEF Walk
<1>5. Ended'
  BY <1>0 DEF Ended
<1>6. BlameIsRight' /\ CutsOnlyWhatDoesNotFit'
  BY <1>0, NoCodeYet
<1> QED
  BY <1>1, <1>2, <1>3, <1>4, <1>5, <1>6 DEF IInv

\* One that does not, with none.
LEMMA CutKeeps == ASSUME IInv, Cut PROVE IInv'
<1>0. /\ text' = text /\ req' = req /\ at = "fit" /\ at' = "over" /\ code' \in {0, 2}
      /\ ~Verify /\ ~Verify' /\ Affordable \in Nat /\ rows \in Seq(Grid(declared))
      /\ declared \in Seq(Line)
  BY Typed, WalkedTo, SameTerms DEF IInv, Cut
<1>1. TypeOK'
  <2>1. coverage' \in Nat \X Nat /\ ran' \in Nat
    BY <1>0, CoverageTypes DEF IInv, TypeOK, Cut
  <2> QED
    BY <1>0, <2>1 DEF IInv, TypeOK, Cut
<1>2. Validated'
  BY <1>0 DEF Validated, Past
<1>3. Admission'
  BY <1>0 DEF Admission
<1>4. Walk'
  BY <1>0, SameTerms DEF IInv, Walk, Cut
<1>5. Ended'
  BY <1>0 DEF Ended
<1>6. BlameIsRight'
  BY <1>0 DEF BlameIsRight
<1>7. CutsOnlyWhatDoesNotFit'
  <2>1. CASE code' = 2
    BY <2>1 DEF CutsOnlyWhatDoesNotFit
  <2>2. CASE code' = 0
    <3>1. ran' = Affordable /\ todo = {}
      BY <2>2 DEF Cut
    <3>2. InBudget(ran') /\ ~InBudget(ran' + 1)
      BY <1>0, <3>1, WalkedTo
    <3> QED
      BY <1>0, <3>1, <3>2, PlanIsKept DEF Cut
  <2> QED
    BY <1>0, <2>1, <2>2
<1> QED
  BY <1>1, <1>2, <1>3, <1>4, <1>5, <1>6, <1>7 DEF IInv

-----------------------------------------------------------------------------
(* Others on the runner:                                                   *)

\* An edit: the text that was read stays as it is.
LEMMA EditKeeps == ASSUME IInv, Edit PROVE IInv'
<1>0. /\ text' = text /\ req' = req /\ at' = at /\ code' = NoCode /\ Verify /\ Verify'
      /\ UNCHANGED <<line, declared, constrained, rows, order, admitted, binary>>
  BY DEF IInv, Ended, Edit, Verify
<1>1. TypeOK'
  BY DEF IInv, TypeOK, Edit, Mishap
<1>2. Validated'
  BY <1>0 DEF IInv, Validated, Names
<1>3. Admission'
  BY <1>0 DEF IInv, Admission, Edit, Mishap
<1>4. Walk'
  BY <1>0 DEF Walk
<1>5. Ended'
  BY <1>0 DEF IInv, Ended, Edit
<1>6. BlameIsRight' /\ CutsOnlyWhatDoesNotFit'
  BY <1>0, NoCodeYet
<1> QED
  BY <1>1, <1>2, <1>3, <1>4, <1>5, <1>6 DEF IInv

\* The binary goes.
LEMMA UninstallKeeps == ASSUME IInv, Uninstall PROVE IInv'
<1>0. /\ text' = text /\ req' = req /\ at' = at /\ code' = NoCode
      /\ UNCHANGED <<line, declared, constrained, rows, order, admitted, todo, tried>>
  BY DEF IInv, Ended, Uninstall
<1>1. TypeOK'
  BY DEF IInv, TypeOK, Uninstall, Mishap
<1>2. Validated'
  BY <1>0 DEF IInv, Validated, Names
<1>3. Admission'
  BY <1>0 DEF IInv, Admission, Uninstall, Mishap, Verify
<1>4. Walk'
  BY <1>0, SameTerms DEF IInv, Walk
<1>5. Ended'
  BY <1>0 DEF IInv, Ended, Uninstall
<1>6. BlameIsRight' /\ CutsOnlyWhatDoesNotFit'
  BY <1>0, NoCodeYet
<1> QED
  BY <1>1, <1>2, <1>3, <1>4, <1>5, <1>6 DEF IInv

\* Nothing happens.
LEMMA StutterKeeps == ASSUME IInv, UNCHANGED vars PROVE IInv'
<1>1. TypeOK'
  BY DEF IInv, TypeOK
<1>2. Validated'
  BY DEF IInv, Validated, Names
<1>6. Admission'
  BY DEF IInv, Admission, Verify
<1>7. Ended'
  BY DEF IInv, Ended
<1>3. Walk'
  BY SameTerms DEF IInv, Walk
<1>4. BlameIsRight'
  BY DEF IInv, BlameIsRight, Verify
<1>5. CutsOnlyWhatDoesNotFit'
  BY SameTerms DEF IInv, CutsOnlyWhatDoesNotFit
<1> QED
  BY <1>1, <1>2, <1>3, <1>4, <1>5, <1>6, <1>7 DEF IInv

-----------------------------------------------------------------------------
(* The promises.                                                           *)

\* The initial states have no code and nothing validated.
LEMMA InitHolds == ASSUME Init PROVE IInv
<1>1. TypeOK
  <2>1. <<>> \in Seq(Line) /\ <<>> \in Seq(Grid(declared))
    OBVIOUS
  <2>2. disk \in Models /\ text \in Models \cup {<<>>} /\ text \in Seq(Line)
    BY <2>1 DEF Init
  <2>3. admitted \in BOOLEAN /\ constrained \in BOOLEAN /\ binary \in BOOLEAN
    BY Zenon DEF Init
  <2>4. line \in 1 .. Len(text) + 1
    BY <2>2, Starts DEF Init
  <2>5. coverage \in Nat \X Nat
    BY DEF Init, NoCoverage
  <2> QED
    BY <2>1, <2>2, <2>3, <2>4, <2>5 DEF Init, TypeOK
<1>2. Validated /\ Admission /\ Walk /\ Ended
  BY DEF Init, Validated, Past, Admission, Walk, Ended, Verify
<1>3. BlameIsRight /\ CutsOnlyWhatDoesNotFit
  BY DEF Init, BlameIsRight, CutsOnlyWhatDoesNotFit
<1> QED
  BY <1>1, <1>2, <1>3 DEF IInv

\* IInv is an invariant.
THEOREM Inductive == Spec => []IInv
<1>1. Init => IInv
  BY InitHolds
<1>2. IInv /\ [Next]_vars => IInv'
  <2> SUFFICES ASSUME IInv, [Next]_vars PROVE IInv'
    OBVIOUS
  <2>1. CASE Parse
    BY <2>1, ConsentKeeps, ReadKeeps, FieldsKeeps, AdmitKeeps DEF Parse
  <2>2. CASE Generate
    BY <2>2, CheckLineKeeps, EndLinesKeeps, ResolveKeeps, PictKeeps DEF Generate
  <2>3. CASE Cases
    BY <2>3, ClientKeeps, RunCaseKeeps, ReportKeeps DEF Cases
  <2>4. CASE Plan
    BY <2>4, OrdersKeeps, FitsKeeps, NextOrderKeeps, CutKeeps DEF Plan
  <2>5. CASE Edit
    BY <2>5, EditKeeps
  <2>6. CASE Uninstall
    BY <2>6, UninstallKeeps
  <2>7. CASE Done
    BY <2>7, StutterKeeps DEF Done
  <2>8. CASE UNCHANGED vars
    BY <2>8, StutterKeeps
  <2> QED
    BY <2>1, <2>2, <2>3, <2>4, <2>5, <2>6, <2>7, <2>8 DEF Next
<1> QED
  BY <1>1, <1>2, PTL DEF Spec

\* The variables keep their types: the rows always have the shape of the axes that were
\* read, and the coverage is a pair of numbers.
THEOREM TypeCorrect == Spec => []TypeOK
<1>1. IInv => TypeOK
  BY DEF IInv
<1> QED
  BY <1>1, Inductive, PTL

\* For every model and every request exit 2 names the request and exit 3 the runner, but
\* for the exceptions that are named, and only a right request runs cases.
THEOREM BlameIsAlwaysRight == Spec => []BlameIsRight
<1>1. IInv => BlameIsRight
  BY DEF IInv
<1> QED
  BY <1>1, Inductive, PTL

\* For every budget a plan fits it, and gives up an order or a row only where it must.
THEOREM PlansCutOnlyWhatDoesNotFit == Spec => []CutsOnlyWhatDoesNotFit
<1>1. IInv => CutsOnlyWhatDoesNotFit
  BY DEF IInv
<1> QED
  BY <1>1, Inductive, PTL

-----------------------------------------------------------------------------
(* The runs of an array, and the cases they make up.                       *)

\* The case and the repeat at a position of the runs.
CaseAt(j, R) == ((j - 1) \div R) + 1
RepeatAt(j, R) == (j - 1) % R

\* Position j of the runs is one repeat of one case, and nothing else is at it.
LEMMA Position ==
    ASSUME NEW R \in Nat \ {0}, NEW j \in Nat \ {0}
    PROVE  /\ CaseAt(j, R) \in Nat \ {0} /\ RepeatAt(j, R) \in 0 .. R - 1
           /\ j = (CaseAt(j, R) - 1) * R + RepeatAt(j, R) + 1
<1> DEFINE q == (j - 1) \div R
           k == RepeatAt(j, R)
           c == CaseAt(j, R)
<1>1. j - 1 \in Nat
  OBVIOUS
<1>2. q \in Nat
  BY <1>1, Quotient
<1>3. k \in 0 .. R - 1 /\ j - 1 = R * q + k
  BY <1>1, SMT DEF RepeatAt
<1>4. c = q + 1
  BY DEF CaseAt
<1> HIDE DEF q, k, c
<1>5. R * q = (c - 1) * R
  BY <1>2, <1>4, SMT
<1> QED
  BY <1>2, <1>3, <1>4, <1>5 DEF k, c

\* Products keep the order of the cases.
LEMMA Products ==
    ASSUME NEW R \in Nat \ {0}, NEW c \in Nat \ {0}, NEW d \in Nat \ {0},
           NEW k \in 0 .. R - 1, NEW l \in 0 .. R - 1
    PROVE  /\ (c - 1) * R \in Nat /\ (d - 1) * R \in Nat
           /\ c < d => (c - 1) * R + R <= (d - 1) * R
           /\ c < d => (c - 1) * R + k + 1 < (d - 1) * R + l + 1
<1>1. (c - 1) * R \in Nat /\ (d - 1) * R \in Nat
  BY SMT
<1>2. c < d => (c - 1) * R + R <= (d - 1) * R
  <2> SUFFICES ASSUME c < d PROVE (c - 1) * R + R <= (d - 1) * R
    OBVIOUS
  <2>1. c * R <= (d - 1) * R
    BY SMT
  <2>2. c * R = (c - 1) * R + R
    BY SMT
  <2> QED
    BY <2>1, <2>2
<1> QED
  BY <1>1, <1>2

\* Which position a repeat of a case has.
At(d, k) == (d - 1) * req.repeats + k + 1

\* The runs are the repeats of the cases, case by case.
LEMMA Expanded ==
    ASSUME req \in Requests, NEW S, rows \in Seq(S)
    PROVE  /\ DOMAIN Expand = 1 .. Len(rows) * req.repeats
           /\ \A j \in DOMAIN Expand :
                /\ Expand[j].case \in 1 .. Len(rows)
                /\ Expand[j].repeat \in 0 .. req.repeats - 1
                /\ Expand[j] = [case |-> Expand[j].case, repeat |-> Expand[j].repeat]
                /\ j = At(Expand[j].case, Expand[j].repeat)
           /\ \A d \in 1 .. Len(rows), k \in 0 .. req.repeats - 1 :
                /\ At(d, k) \in DOMAIN Expand
                /\ Expand[At(d, k)] = [case |-> d, repeat |-> k]
<1> DEFINE R == req.repeats
           N == Len(rows)
<1>0. R \in Nat \ {0} /\ N \in Nat
  BY RequestTypes
<1> HIDE DEF R, N
<1>1. DOMAIN Expand = 1 .. N * R
  BY DEF Expand, R, N
<1>2. N * R \in Nat
  BY <1>0, SMT
<1>3. ASSUME NEW j \in DOMAIN Expand
      PROVE  /\ Expand[j].case \in 1 .. N /\ Expand[j].repeat \in 0 .. R - 1
             /\ Expand[j] = [case |-> Expand[j].case, repeat |-> Expand[j].repeat]
             /\ j = At(Expand[j].case, Expand[j].repeat)
  <2> DEFINE c == CaseAt(j, R)
             k == RepeatAt(j, R)
  <2>1. j \in Nat \ {0} /\ j <= N * R
    BY <1>1, <1>2
  <2>2. Expand[j] = [case |-> c, repeat |-> k]
    BY <1>1 DEF Expand, CaseAt, RepeatAt, R, N
  <2>3. c \in Nat \ {0} /\ k \in 0 .. R - 1 /\ j = (c - 1) * R + k + 1
    BY <1>0, <2>1, Position
  <2> HIDE DEF c, k
  <2>4. c <= N
    <3> SUFFICES ASSUME c > N PROVE FALSE
      BY <1>0, <2>3
    <3>1. (N + 1 - 1) * R <= (c - 1) * R
      <4>1. CASE c = N + 1
        BY <1>0, <2>3, <4>1, SMT
      <4>2. CASE N + 1 < c
        <5>1. (N + 1 - 1) * R \in Nat /\ (N + 1 - 1) * R + R <= (c - 1) * R
          BY <1>0, <2>3, <4>2, Products
        <5> QED
          BY <1>0, <2>3, <5>1, SMT
      <4> QED
        BY <1>0, <2>3, <4>1, <4>2
    <3>2. N + 1 - 1 = N
      BY <1>0
    <3>3. (c - 1) * R \in Nat
      BY <1>0, <2>3, SMT
    <3> QED
      BY <1>2, <2>1, <2>3, <3>1, <3>2, <3>3
  <2> QED
    BY <2>2, <2>3, <2>4 DEF At, R
<1>4. ASSUME NEW d \in 1 .. N, NEW k \in 0 .. R - 1
      PROVE  /\ At(d, k) \in DOMAIN Expand
             /\ Expand[At(d, k)] = [case |-> d, repeat |-> k]
  <2>1. d \in Nat \ {0}
    BY <1>0
  <2>2. At(d, k) \in Nat \ {0} /\ At(d, k) <= d * R
    <3>1. (d - 1) * R \in Nat /\ d * R = (d - 1) * R + R
      BY <1>0, <2>1, SMT
    <3>2. At(d, k) = (d - 1) * R + k + 1
      BY DEF At, R
    <3> QED
      BY <1>0, <3>1, <3>2
  <2>3. d * R <= N * R /\ d * R \in Nat
    BY <1>0, <2>1, SMT
  <2>4. At(d, k) \in DOMAIN Expand
    BY <1>1, <1>2, <2>2, <2>3
  <2>5. /\ Expand[At(d, k)].case \in Nat \ {0} /\ Expand[At(d, k)].repeat \in 0 .. R - 1
        /\ At(d, k) = At(Expand[At(d, k)].case, Expand[At(d, k)].repeat)
        /\ Expand[At(d, k)] =
             [case |-> Expand[At(d, k)].case, repeat |-> Expand[At(d, k)].repeat]
    BY <1>0, <1>3, <2>4
  <2> DEFINE e == Expand[At(d, k)].case
             l == Expand[At(d, k)].repeat
  <2>6. /\ (d - 1) * R + k + 1 = (e - 1) * R + l + 1
        /\ e \in Nat \ {0} /\ l \in 0 .. R - 1
    BY <2>5 DEF At, R
  <2> HIDE DEF e, l
  <2>7. ~(d < e)
    BY <1>0, <2>1, <2>6, Products
  <2>8. ~(e < d)
    BY <1>0, <2>1, <2>6, Products
  <2>9. d = e
    BY <2>1, <2>6, <2>7, <2>8
  <2>10. (d - 1) * R \in Nat
    BY <1>0, <2>1, SMT
  <2>11. k = l
    BY <1>0, <2>6, <2>9, <2>10
  <2> QED
    BY <2>4, <2>5, <2>9, <2>11 DEF e, l
<1> QED
  BY <1>1, <1>3, <1>4 DEF R, N

\* A case starts where its repeats do.
LEMMA StartsOfCases ==
    ASSUME req \in Requests, NEW S, rows \in Seq(S), NEW j \in DOMAIN Expand
    PROVE  j \in CaseStarts <=> Expand[j].repeat = 0
<1> DEFINE R == req.repeats
           c == Expand[j].case
           k == Expand[j].repeat
<1>0. R \in Nat \ {0} /\ Len(rows) \in Nat
  BY RequestTypes
<1>1. c \in 1 .. Len(rows) /\ k \in 0 .. R - 1 /\ j = (c - 1) * R + k + 1
  BY Expanded DEF At
<1>e. \A d \in 1 .. Len(rows), l \in 0 .. R - 1 :
        At(d, l) \in DOMAIN Expand /\ Expand[At(d, l)] = [case |-> d, repeat |-> l]
  BY Expanded
<1> HIDE DEF R, c, k
<1>2. (c - 1) * R \in Nat
  BY <1>0, <1>1, SMT
<1>3. CASE k # 0
  <2>1. k - 1 \in 0 .. R - 1 /\ j - 1 = (c - 1) * R + (k - 1) + 1 /\ j # 1
    BY <1>0, <1>1, <1>2, <1>3
  <2>2. j - 1 = At(c, k - 1)
    BY <2>1 DEF At, R
  <2>3. Expand[j - 1].case = c
    <3>1. Expand[At(c, k - 1)] = [case |-> c, repeat |-> k - 1]
      BY <1>1, <1>e, <2>1
    <3> QED
      BY <2>2, <3>1
  <2> QED
    BY <1>3, <2>1, <2>3 DEF CaseStarts, c, k
<1>4. CASE k = 0 /\ c = 1
  <2>1. j = 1
    BY <1>0, <1>1, <1>4, SMT
  <2> QED
    BY <1>4, <2>1 DEF CaseStarts, k
<1>5. CASE k = 0 /\ c # 1
  <2>1. c - 1 \in 1 .. Len(rows) /\ R - 1 \in 0 .. R - 1
    BY <1>0, <1>1, <1>5
  <2>2. (c - 1) * R = ((c - 1) - 1) * R + R /\ ((c - 1) - 1) * R \in Nat
    BY <1>0, <1>1, <1>5, SMT
  <2>3. j - 1 = ((c - 1) - 1) * R + (R - 1) + 1
    BY <1>0, <1>1, <1>5, <2>2
  <2>4. j - 1 = At(c - 1, R - 1)
    BY <2>3 DEF At, R
  <2>5. Expand[j - 1].case = c - 1
    <3>1. Expand[At(c - 1, R - 1)] = [case |-> c - 1, repeat |-> R - 1]
      BY <1>e, <2>1
    <3> QED
      BY <2>4, <3>1
  <2> QED
    BY <1>0, <1>1, <1>5, <2>5 DEF CaseStarts, c, k
<1> QED
  BY <1>1, <1>3, <1>4, <1>5

\* So as many cases have started at a run as its own case says.
LEMMA StartedCases ==
    ASSUME req \in Requests, NEW S, rows \in Seq(S), NEW j \in DOMAIN Expand
    PROVE  Cardinality({s \in CaseStarts : s <= j}) = Expand[j].case
<1> DEFINE R == req.repeats
           c == Expand[j].case
           k == Expand[j].repeat
           started == {s \in CaseStarts : s <= j}
           f == [d \in 1 .. c |-> At(d, 0)]
<1>0. R \in Nat \ {0} /\ Len(rows) \in Nat /\ 0 \in 0 .. R - 1
  BY RequestTypes
<1>1. c \in 1 .. Len(rows) /\ k \in 0 .. R - 1 /\ j = At(c, k)
  BY Expanded
<1>2. c \in Nat \ {0} /\ 1 .. c \subseteq 1 .. Len(rows) /\ 1 .. c \subseteq Nat \ {0}
  BY <1>0, <1>1
<1>e. \A d \in 1 .. Len(rows), l \in 0 .. R - 1 :
        At(d, l) \in DOMAIN Expand /\ Expand[At(d, l)] = [case |-> d, repeat |-> l]
  BY Expanded
<1> HIDE DEF R, c, k
<1>3. ASSUME NEW d \in 1 .. c PROVE f[d] \in started
  <2>1. d \in 1 .. Len(rows) /\ d \in Nat \ {0}
    BY <1>2
  <2>2. At(d, 0) \in DOMAIN Expand /\ Expand[At(d, 0)] = [case |-> d, repeat |-> 0]
    BY <1>0, <2>1, Expanded DEF R
  <2>3. At(d, 0) \in CaseStarts
    BY <2>2, StartsOfCases
  <2>4. (d - 1) * R + 0 + 1 <= (c - 1) * R + k + 1
    <3>1. CASE d < c
      <4>1. /\ (d - 1) * R \in Nat /\ (c - 1) * R \in Nat
            /\ (d - 1) * R + 0 + 1 < (c - 1) * R + k + 1
        BY <1>0, <1>1, <1>2, <2>1, <3>1, Products
      <4> QED
        BY <1>1, <4>1
    <3>2. CASE d = c
      <4>1. (c - 1) * R \in Nat
        BY <1>0, <1>2, SMT
      <4> QED
        BY <1>1, <3>2, <4>1
    <3> QED
      BY <1>2, <3>1, <3>2
  <2> QED
    BY <1>1, <2>3, <2>4 DEF At, R
<1>4. ASSUME NEW s \in started PROVE \E d \in 1 .. c : f[d] = s
  <2>1. s \in DOMAIN Expand /\ s <= j
    BY DEF CaseStarts
  <2>2. Expand[s].repeat = 0
    BY <2>1, StartsOfCases
  <2>3. Expand[s].case \in 1 .. Len(rows) /\ s = At(Expand[s].case, 0)
    BY <2>1, <2>2, Expanded
  <2> DEFINE d == Expand[s].case
  <2>4. d \in Nat \ {0} /\ (d - 1) * R + 0 + 1 <= (c - 1) * R + k + 1
    BY <1>0, <1>1, <2>1, <2>3 DEF At, R
  <2> HIDE DEF d
  <2>5. ~(c < d)
    <3> SUFFICES ASSUME c < d PROVE FALSE
      OBVIOUS
    <3>1. /\ (c - 1) * R \in Nat /\ (d - 1) * R \in Nat
          /\ (c - 1) * R + k + 1 < (d - 1) * R + 0 + 1
      BY <1>0, <1>1, <1>2, <2>4, Products
    <3> QED
      BY <1>1, <2>4, <3>1
  <2>6. d \in 1 .. c
    BY <1>2, <2>4, <2>5
  <2> QED
    BY <2>3, <2>6 DEF d
<1>5. ASSUME NEW d \in 1 .. c, NEW e \in 1 .. c, f[d] = f[e] PROVE d = e
  <2>1. At(d, 0) = At(e, 0)
    BY <1>5
  <2>2. Expand[At(d, 0)].case = d /\ Expand[At(e, 0)].case = e
    <3>1. /\ Expand[At(d, 0)] = [case |-> d, repeat |-> 0]
          /\ Expand[At(e, 0)] = [case |-> e, repeat |-> 0]
      BY <1>0, <1>2, <1>e
    <3> QED
      BY <3>1
  <2> QED
    BY <2>1, <2>2
<1>6. f \in Bijection(1 .. c, started)
  <2>1. f \in [1 .. c -> started]
    BY <1>3
  <2> QED
    BY <1>4, <1>5, <2>1 DEF Bijection, Injection, Surjection, IsInjective
<1>7. IsFiniteSet(1 .. c) /\ Cardinality(1 .. c) = c
  BY <1>2, FS_Interval
<1>8. Cardinality(started) = c
  BY <1>6, <1>7, FS_Bijection DEF ExistsBijection
<1> QED
  BY <1>8 DEF c

\* The rows all of whose repeats are among the runs of the first cases are the first rows.
LEMMA WholeIsPrefix ==
    ASSUME req \in Requests, NEW S, rows \in Seq(S), ran \in Nat
    PROVE  WholeRows = Rows(ran)
<1>0. req.repeats \in Nat \ {0} /\ 0 \in 0 .. req.repeats - 1
  BY RequestTypes
<1>1. RunsOf(ran) = {Expand[j] : j \in {i \in DOMAIN Expand : Expand[i].case <= ran}}
  BY StartedCases DEF RunsOf
<1>2. ASSUME NEW d \in 1 .. Len(rows)
      PROVE  d <= ran <=>
               \A k \in 0 .. req.repeats - 1 : [case |-> d, repeat |-> k] \in RunsOf(ran)
  <2>1. ASSUME d <= ran, NEW k \in 0 .. req.repeats - 1
        PROVE  [case |-> d, repeat |-> k] \in RunsOf(ran)
    <3>1. At(d, k) \in DOMAIN Expand /\ Expand[At(d, k)] = [case |-> d, repeat |-> k]
      BY Expanded
    <3> QED
      BY <1>1, <2>1, <3>1
  <2>2. ASSUME [case |-> d, repeat |-> 0] \in RunsOf(ran) PROVE d <= ran
    <3>1. PICK j \in DOMAIN Expand :
             Expand[j].case <= ran /\ [case |-> d, repeat |-> 0] = Expand[j]
      BY <1>1, <2>2
    <3> QED
      BY <3>1
  <2> QED
    BY <1>0, <2>1, <2>2
<1>3. DOMAIN rows = 1 .. Len(rows)
  OBVIOUS
<1> QED
  BY <1>2, <1>3 DEF WholeRows, Rows

-----------------------------------------------------------------------------
(* What a whole array covers.                                              *)

\* There is a choice of as many axes as are asked, and no more are there.
LEMMA SomeChoice ==
    ASSUME NEW w \in Nat, NEW k \in Nat, k <= w
    PROVE  1 .. k \in Choices(w, k)
<1>1. 1 .. k \subseteq 1 .. w
  OBVIOUS
<1>2. Cardinality(1 .. k) = k
  BY FS_Interval
<1> QED
  BY <1>1, <1>2 DEF Choices

\* More rows realise more combinations.
LEMMA MoreRows ==
    ASSUME NEW A, NEW B, A \subseteq B, NEW w, NEW k
    PROVE  Combinations(A, w, k) \subseteq Combinations(B, w, k)
  BY DEF Combinations

\* A combination of a row is one that some row realises, exactly if that one agrees.
LEMMA Realised ==
    ASSUME NEW A, NEW f, NEW w, NEW k, NEW c \in Choices(w, k)
    PROVE  <<c, [i \in c |-> f[i]]>> \in Combinations(A, w, k) <=> \E r \in A : Agree(r, f, c)
<1>1. ASSUME NEW r \in A, Agree(r, f, c)
      PROVE  <<c, [i \in c |-> f[i]]>> \in Combinations(A, w, k)
  <2>1. [i \in c |-> f[i]] = [i \in c |-> r[i]]
    BY <1>1 DEF Agree
  <2> QED
    BY <2>1 DEF Combinations
<1>2. ASSUME <<c, [i \in c |-> f[i]]>> \in Combinations(A, w, k)
      PROVE  \E r \in A : Agree(r, f, c)
  <2>1. PICK d \in Choices(w, k) :
          \E r \in A : <<c, [i \in c |-> f[i]]>> = <<d, [i \in d |-> r[i]]>>
    BY <1>2 DEF Combinations
  <2>2. PICK r \in A : <<c, [i \in c |-> f[i]]>> = <<d, [i \in d |-> r[i]]>>
    BY <2>1
  <2>3. d = c /\ [i \in c |-> f[i]] = [i \in c |-> r[i]]
    BY <2>2
  <2>4. ASSUME NEW i \in c PROVE r[i] = f[i]
    <3>1. [x \in c |-> f[x]][i] = f[i] /\ [x \in c |-> r[x]][i] = r[i]
      OBVIOUS
    <3> QED
      BY <2>3, <3>1
  <2> QED
    BY <2>4 DEF Agree
<1> QED
  BY <1>1, <1>2

\* What rows realise all combinations is said in the two ways.
LEMMA CoversAll ==
    ASSUME NEW A, NEW P, NEW w, NEW k
    PROVE  Combinations(P, w, k) \subseteq Combinations(A, w, k) <=>
             \A f \in P, c \in Choices(w, k) : \E r \in A : Agree(r, f, c)
<1>1. ASSUME Combinations(P, w, k) \subseteq Combinations(A, w, k),
             NEW f \in P, NEW c \in Choices(w, k)
      PROVE  \E r \in A : Agree(r, f, c)
  <2>1. <<c, [i \in c |-> f[i]]>> \in Combinations(P, w, k)
    BY DEF Combinations
  <2> QED
    BY <1>1, <2>1, Realised
<1>2. ASSUME \A f \in P, c \in Choices(w, k) : \E r \in A : Agree(r, f, c)
      PROVE  Combinations(P, w, k) \subseteq Combinations(A, w, k)
  <2> SUFFICES ASSUME NEW c \in Choices(w, k), NEW f \in P
               PROVE  <<c, [i \in c |-> f[i]]>> \in Combinations(A, w, k)
    BY DEF Combinations
  <2> QED
    BY <1>2, Realised
<1> QED
  BY <1>1, <1>2

-----------------------------------------------------------------------------
(* What the reported coverage rests on.                                    *)

AxesSeen(m, n) == {i \in 1 .. n - 1 : IsAxis(m, i)}

\* The axes declared are those of the lines read; the rows are rows of the model, and past
\* PICT they lack no combination.
Array ==
    /\ at = "lines" => Len(declared) = Cardinality(AxesSeen(text, line))
    /\ at \in Past => Len(declared) = Width(text)
    /\ at \in {"pict", "client", "cases"} => rows \in Seq(Feasible(declared, text))
    /\ at \in {"client", "cases"} => Missing = {}
    /\ CoverageIsHonest

\* The axes before the next line.
LEMMA NextAxis ==
    ASSUME NEW m \in Seq(Line), NEW n \in 1 .. Len(m)
    PROVE  /\ Cardinality(AxesSeen(m, n)) \in Nat
           /\ ~IsAxis(m, n) => AxesSeen(m, n + 1) = AxesSeen(m, n)
           /\ IsAxis(m, n) =>
                Cardinality(AxesSeen(m, n + 1)) = Cardinality(AxesSeen(m, n)) + 1
<1>1. 1 .. (n + 1) - 1 = (1 .. n - 1) \cup {n}
  OBVIOUS
<1>2. IsFiniteSet(AxesSeen(m, n))
  <2>1. IsFiniteSet(1 .. n - 1) /\ AxesSeen(m, n) \in SUBSET (1 .. n - 1)
    BY FS_Interval DEF AxesSeen
  <2> QED
    BY <2>1, FS_Subset
<1>3. n \notin AxesSeen(m, n)
  BY DEF AxesSeen
<1>4. ~IsAxis(m, n) => AxesSeen(m, n + 1) = AxesSeen(m, n)
  BY <1>1 DEF AxesSeen
<1>5. IsAxis(m, n) => AxesSeen(m, n + 1) = AxesSeen(m, n) \cup {n}
  BY <1>1 DEF AxesSeen
<1> QED
  BY <1>2, <1>3, <1>4, <1>5, FS_AddElement, FS_CardinalityType

\* No line has an axis before the first; past the last, all are seen.
LEMMA FirstAndLast ==
    ASSUME NEW m \in Seq(Line)
    PROVE  /\ Cardinality(AxesSeen(m, 1)) = 0
           /\ AxesSeen(m, Len(m) + 1) = {i \in DOMAIN m : IsAxis(m, i)}
<1>1. AxesSeen(m, 1) = {}
  BY DEF AxesSeen
<1>2. 1 .. (Len(m) + 1) - 1 = DOMAIN m
  OBVIOUS
<1> QED
  BY <1>1, <1>2, FS_EmptySet DEF AxesSeen

\* That a coverage is honest, of a report that is written now.
Honest(cov) ==
    LET possible == Feasible(declared, text)
        choices == Choices(Len(declared), order)
        covered == \A f \in possible, c \in choices : \E r \in WholeRows : Agree(r, f, c)
    IN /\ (cov[1] = cov[2]) <=> covered
       /\ possible # {} =>
            /\ cov[1] = Cardinality(Combinations(WholeRows, Len(declared), order))
            /\ cov[2] = Cardinality(Combinations(possible, Len(declared), order))

\* The coverage of the prefix that ran is.
LEMMA ReportIsHonest ==
    ASSUME IInv, Array, at = "cases", Verify
    PROVE  Honest(CoverageOfPrefix(ran, order))
<1> DEFINE possible == Feasible(declared, text)
           width == Len(declared)
           all == Combinations(Rows(Len(rows)), width, order)
           some == Combinations(Rows(ran), width, order)
<1>0. /\ req \in Requests /\ declared \in Seq(Line) /\ order \in Nat /\ width \in Nat
      /\ text \in Seq(Line) /\ ran \in Nat
  BY Typed DEF IInv, TypeOK
<1>1. order <= width
  BY <1>0 DEF IInv, Admission, Array, Past
<1>2. rows \in Seq(possible) /\ Missing = {}
  BY DEF Array
<1>3. WholeRows = Rows(ran)
  BY <1>0, <1>2, WholeIsPrefix
<1>4. Rows(Len(rows)) \subseteq possible /\ Rows(ran) \subseteq Rows(Len(rows))
  BY <1>2 DEF Rows
<1>5. all = Combinations(possible, width, order)
  <2>1. Combinations(possible, width, order) \subseteq all
    BY <1>2 DEF Missing, Axes
  <2> QED
    BY <1>4, <2>1, MoreRows
<1>6. some \subseteq all /\ IsFiniteSet(all)
  BY <1>0, <1>2, <1>4, MoreRows, CombinationsCount
<1>7. Cardinality(some) = Cardinality(all) <=> all \subseteq some
  BY <1>6, FS_Subset
<1>8. all \subseteq some <=>
        \A f \in possible, c \in Choices(width, order) : \E r \in Rows(ran) : Agree(r, f, c)
  <2>1. Combinations(possible, width, order) \subseteq some <=>
          \A f \in possible, c \in Choices(width, order) : \E r \in Rows(ran) : Agree(r, f, c)
    BY CoversAll
  <2> HIDE DEF possible, width, all, some
  <2> QED
    BY <1>5, <2>1
<1>9. CASE all = {}
  <2>1. possible = {}
    <3> SUFFICES ASSUME NEW r \in possible PROVE FALSE
      OBVIOUS
    <3>1. 1 .. order \in Choices(width, order)
      BY <1>0, <1>1, SomeChoice
    <3> DEFINE c == 1 .. order
    <3>2. c \in Choices(width, order)
      BY <3>1
    <3> HIDE DEF c
    <3>3. <<c, [i \in c |-> r[i]]>> \in Combinations(possible, width, order)
      BY <3>2 DEF Combinations
    <3> QED
      BY <1>5, <1>9, <3>3
  <2>2. CoverageOfPrefix(ran, order) = <<1, 1>>
    BY <1>9 DEF CoverageOfPrefix, Axes
  <2> QED
    BY <2>1, <2>2 DEF Honest
<1>10. CASE all # {}
  <2>1. CoverageOfPrefix(ran, order) = <<Cardinality(some), Cardinality(all)>>
    BY <1>10 DEF CoverageOfPrefix, Axes
  <2> HIDE DEF some, all
  <2>2. /\ CoverageOfPrefix(ran, order)[1] = Cardinality(some)
        /\ CoverageOfPrefix(ran, order)[2] = Cardinality(all)
    BY <2>1
  <2>3. (CoverageOfPrefix(ran, order)[1] = CoverageOfPrefix(ran, order)[2]) <=>
          \A f \in possible, c \in Choices(width, order) : \E r \in Rows(ran) : Agree(r, f, c)
    BY <1>7, <1>8, <2>2
  <2> QED
    BY <1>3, <1>5, <2>2, <2>3 DEF Honest, some
<1> QED
  BY <1>9, <1>10

-----------------------------------------------------------------------------
(* Every action keeps Array.  First what several have in common:           *)

\* Without code 0 there is no coverage to be honest about.
LEMMA NothingReported ==
    ASSUME code' # 0
    PROVE  CoverageIsHonest'
  BY DEF CoverageIsHonest

\* An end without a report.
LEMMA EndKeepsArray ==
    ASSUME at' = "over", code' # 0
    PROVE  Array'
  BY NothingReported DEF Array, Past

\* The end of a plan.
LEMMA PlanKeepsArray ==
    ASSUME at' = "over", ~Verify'
    PROVE  Array'
  BY DEF Array, Past, CoverageIsHonest

\* The validation starts.
LEMMA StartKeepsArray ==
    ASSUME text' \in Seq(Line), StartLines, code' # 0
    PROVE  Array'
<1>1. Len(declared') = 0 /\ line' = 1 /\ at' = "lines"
  BY DEF StartLines
<1>2. Cardinality(AxesSeen(text', 1)) = 0
  BY FirstAndLast
<1> QED
  BY <1>1, <1>2, NothingReported DEF Array, Past

\* A step past the validation that leaves the array alone.
LEMMA MoveKeepsArray ==
    ASSUME Array, UNCHANGED <<text, declared, rows, order>>, code' # 0,
           at \in Past, at' \in Past,
           at' \in {"pict", "client", "cases"} => at \in {"pict", "client", "cases"},
           at' \in {"client", "cases"} => Missing = {}
    PROVE  Array'
<1>1. Len(declared') = Width(text')
  BY DEF Array
<1>2. at' \in {"pict", "client", "cases"} => rows' \in Seq(Feasible(declared', text'))
  BY DEF Array
<1>3. Missing' = Missing
  BY DEF Missing, Axes, Rows
<1>4. at' # "lines"
  BY DEF Past
<1> QED
  BY <1>1, <1>2, <1>3, <1>4, NothingReported DEF Array

\* A step that leaves it alone and stays where it is.
LEMMA StayKeepsArray ==
    ASSUME Array, UNCHANGED <<text, declared, rows, order, at, line>>, code' # 0
    PROVE  Array'
<1>1. Missing' = Missing
  BY DEF Missing, Axes, Rows
<1>2. Cardinality(AxesSeen(text', line')) = Cardinality(AxesSeen(text, line))
  OBVIOUS
<1> QED
  BY <1>1, <1>2, NothingReported DEF Array

-----------------------------------------------------------------------------
(* Then action by action:                                                  *)

\* Admission reads the text, starts the validation, or ends.
LEMMA ParseKeepsArray == ASSUME IInv, Array, Parse PROVE Array'
<1>0. text \in Seq(Line) /\ disk \in Seq(Line) /\ (at # "over" => code = NoCode)
  BY Typed DEF IInv, Ended
<1>1. CASE Consent
  BY <1>0, <1>1, EndKeepsArray, NothingReported DEF Consent, Array, Past
<1>2. CASE Read
  <2>1. CASE text' = disk /\ StartLines /\ code' = code
    BY <1>0, <1>2, <2>1, StartKeepsArray DEF Read
  <2>2. CASE at' = "over" /\ code' \in {2, 3}
    BY <2>2, EndKeepsArray
  <2> QED
    BY <1>2, <2>1, <2>2 DEF Read
<1>3. CASE Fields
  <2>1. CASE at' = "binary" /\ code' = code
    BY <1>0, <1>3, <2>1, MoveKeepsArray DEF Fields, Past
  <2>2. CASE at' = "over" /\ code' = 2
    BY <2>2, EndKeepsArray
  <2> QED
    BY <1>3, <2>1, <2>2 DEF Fields
<1>4. CASE Admit
  <2>1. CASE StartLines /\ code' = code
    BY <1>0, <1>4, <2>1, StartKeepsArray DEF Admit
  <2>2. CASE at' = "over" /\ code' = 3
    BY <2>2, EndKeepsArray
  <2> QED
    BY <1>4, <2>1, <2>2 DEF Admit
<1> QED
  BY <1>1, <1>2, <1>3, <1>4 DEF Parse

\* A line that is an axis is another axis declared.
LEMMA CheckLineKeepsArray == ASSUME IInv, Array, CheckLine PROVE Array'
<1> DEFINE l == text[line]
<1>0. /\ text \in Seq(Line) /\ declared \in Seq(Line) /\ line \in 1 .. Len(text)
      /\ at = "lines" /\ code = NoCode /\ text' = text
  BY Typed DEF IInv, TypeOK, Ended, CheckLine
<1>1. Len(declared) = Cardinality(AxesSeen(text, line))
  BY <1>0 DEF Array
<1>2. l.kind = "axis" <=> IsAxis(text, line)
  BY <1>0, LineKinds
<1>3. CASE l.kind # "axis" /\ at' = "lines" /\ line' = line + 1 /\ declared' = declared
           /\ code' = code
  <2>1. Cardinality(AxesSeen(text', line')) = Cardinality(AxesSeen(text, line))
    BY <1>0, <1>2, <1>3, NextAxis
  <2> QED
    BY <1>0, <1>1, <1>3, <2>1, NothingReported DEF Array, Past
<1>4. CASE l.kind = "axis" /\ at' = "lines" /\ line' = line + 1
           /\ declared' = Append(declared, l) /\ code' = code
  <2>1. Cardinality(AxesSeen(text', line')) = Cardinality(AxesSeen(text, line)) + 1
    BY <1>0, <1>2, <1>4, NextAxis
  <2>2. Len(declared') = Len(declared) + 1
    BY <1>0, <1>4
  <2> QED
    BY <1>0, <1>1, <1>4, <2>1, <2>2, NothingReported DEF Array, Past
<1>5. CASE at' = "over" /\ code' = 2
  BY <1>5, EndKeepsArray
<1> QED
  BY <1>0, <1>3, <1>4, <1>5 DEF CheckLine

\* At the end all axes are declared.
LEMMA EndLinesKeepsArray == ASSUME IInv, Array, EndLines PROVE Array'
<1>0. /\ text \in Seq(Line) /\ line = Len(text) + 1 /\ at = "lines" /\ code = NoCode
      /\ text' = text /\ declared' = declared
  BY Typed DEF IInv, TypeOK, Ended, EndLines
<1>1. Len(declared) = Width(text)
  BY <1>0, FirstAndLast DEF Array, Width
<1>2. CASE at' \in {"fields", "binary"} /\ code' = code
  BY <1>0, <1>1, <1>2, NothingReported DEF Array
<1>3. CASE at' = "over" /\ code' = 2
  BY <1>3, EndKeepsArray
<1> QED
  BY <1>2, <1>3 DEF EndLines

\* The array starts without rows.
LEMMA ResolveKeepsArray == ASSUME IInv, Array, Resolve PROVE Array'
<1>0. at = "binary" /\ code = NoCode /\ text' = text /\ declared' = declared
  BY DEF IInv, Ended, Resolve
<1>1. CASE at' = "pict" /\ rows' = <<>> /\ code' = code
  <2>1. <<>> \in Seq(Feasible(declared, text))
    OBVIOUS
  <2> QED
    BY <1>0, <1>1, <2>1, NothingReported DEF Array, Past
<1>2. CASE at' = "over" /\ code' = 2
  BY <1>2, EndKeepsArray
<1> QED
  BY <1>1, <1>2 DEF Resolve

\* PICT adds rows of the model, and is done when no combination is missing.
LEMMA PictKeepsArray == ASSUME IInv, Array, Pict PROVE Array'
<1>0. /\ at = "pict" /\ code = NoCode /\ UNCHANGED <<text, declared, order>>
      /\ rows \in Seq(Feasible(declared, text))
  BY DEF IInv, Ended, Pict, Array
<1>1. CASE /\ \E r \in Feasible(Axes, text) : rows' = Append(rows, r)
           /\ at' = at /\ code' = code
  <2>1. rows' \in Seq(Feasible(declared', text'))
    BY <1>0, <1>1 DEF Axes
  <2>2. Len(declared') = Width(text')
    BY <1>0 DEF Array, Past
  <2> QED
    BY <1>0, <1>1, <2>1, <2>2, NothingReported DEF Array
<1>2. CASE Missing = {} /\ at' \in {"client", "fit"} /\ code' = code /\ rows' = rows
  BY <1>0, <1>2, MoveKeepsArray DEF Past
<1>3. CASE at' = "over" /\ code' \in {2, 3}
  BY <1>3, EndKeepsArray
<1> QED
  BY <1>1, <1>2, <1>3 DEF Pict

\* The cases leave the array as it is, and the report is honest about it.
LEMMA CasesKeepArray == ASSUME IInv, Array, Cases PROVE Array'
<1>0. at # "over" => code = NoCode
  BY DEF IInv, Ended
<1>1. CASE Client
  <2>1. CASE at' = "cases" /\ code' = code
    <3>1. Missing = {}
      BY <1>1 DEF Client, Array
    <3> QED
      BY <1>0, <1>1, <2>1, <3>1, MoveKeepsArray DEF Client, Past
  <2>2. CASE at' = "over" /\ code' = 3
    BY <2>2, EndKeepsArray
  <2> QED
    BY <1>1, <2>1, <2>2 DEF Client
<1>2. CASE RunCase
  BY <1>0, <1>2, StayKeepsArray DEF RunCase
<1>3. CASE Report
  <2>1. Verify
    BY <1>3 DEF IInv, Walk, Report
  <2>2. coverage' = CoverageOfPrefix(ran, order) /\ at' = "over"
    BY <1>3 DEF Report
  <2>3. Honest(coverage')
    BY <1>3, <2>1, <2>2, ReportIsHonest DEF Report
  <2>4. UNCHANGED <<req, text, declared, rows, order, ran>>
    BY <1>3 DEF Report
  <2>5. WholeRows' = WholeRows
    BY <2>4 DEF WholeRows, RunsOf, CaseStarts, Expand
  <2>6. CoverageIsHonest'
    BY <2>3, <2>4, <2>5 DEF Honest, CoverageIsHonest
  <2> QED
    BY <2>2, <2>6 DEF Array, Past
<1> QED
  BY <1>1, <1>2, <1>3 DEF Cases

\* Plans start a validation or end.
LEMMA PlansKeepArray == ASSUME IInv, Array, Plan PROVE Array'
<1>0. text \in Seq(Line) /\ (at # "over" => code = NoCode)
  BY Typed DEF IInv, Ended
<1>1. CASE Orders
  BY <1>0, <1>1, StartKeepsArray DEF Orders
<1>2. CASE NextOrder
  BY <1>0, <1>2, StartKeepsArray DEF NextOrder
<1>3. CASE Fits \/ Cut
  <2>1. at = "fit" /\ at' = "over" /\ req' = req
    BY <1>3 DEF Fits, Cut
  <2>2. ~Verify'
    BY <2>1, WalkedTo DEF Verify
  <2> QED
    BY <2>1, <2>2, PlanKeepsArray
<1> QED
  BY <1>1, <1>2, <1>3 DEF Plan

\* Nothing that happens on the runner changes it.
LEMMA OthersKeepArray ==
    ASSUME IInv, Array, Edit \/ Uninstall \/ UNCHANGED vars
    PROVE  Array'
<1>1. CASE Edit \/ Uninstall
  BY <1>1, StayKeepsArray DEF IInv, Ended, Edit, Uninstall
<1>2. CASE UNCHANGED vars
  <2>1. Missing' = Missing
    BY <1>2 DEF Missing, Axes, Rows
  <2>2. WholeRows' = WholeRows
    BY <1>2 DEF WholeRows, RunsOf, CaseStarts, Expand
  <2>3. CoverageIsHonest'
    BY <1>2, <2>2 DEF Array, CoverageIsHonest, Verify
  <2> QED
    BY <1>2, <2>1, <2>3 DEF Array
<1> QED
  BY <1>1, <1>2

\* Array is an invariant.
LEMMA ArrayKept == Spec => []Array
<1>1. Init => Array
  BY DEF Init, Array, Past, CoverageIsHonest
<1>2. IInv /\ Array /\ [Next]_vars => Array'
  <2> SUFFICES ASSUME IInv, Array, [Next]_vars PROVE Array'
    OBVIOUS
  <2>1. CASE Generate
    BY <2>1, CheckLineKeepsArray, EndLinesKeepsArray, ResolveKeepsArray, PictKeepsArray
       DEF Generate
  <2> QED
    BY <2>1, ParseKeepsArray, CasesKeepArray, PlansKeepArray, OthersKeepArray DEF Next, Done
<1> QED
  BY <1>1, <1>2, Inductive, PTL DEF Spec

\* For every model, request and number of repeats the reported coverage is that of the
\* cases that ran as a whole, of what the model that was read admits, and it is whole
\* exactly if each combination was run.
THEOREM CoverageIsAlwaysHonest == Spec => []CoverageIsHonest
<1>1. Array => CoverageIsHonest
  BY DEF Array
<1> QED
  BY <1>1, ArrayKept, PTL
=============================================================================
