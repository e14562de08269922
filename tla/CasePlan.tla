----------------------------- MODULE CasePlan -----------------------------
(***************************************************************************)
(* From a request to the cases that ran: contract/inputs.py admits it,     *)
(* contract/pict.py expands its input space with the PICT binary,          *)
(* contract/cases.py makes runs of the rows, and cli/main.py runs a prefix *)
(* of the cases and says what it covers.  pict.plan(), the other caller of *)
(* generate(), fits an array into a budget instead.                        *)
(*                                                                         *)
(* A model file is a sequence of lines.  What a line says is kept, how it  *)
(* is spelled is not: a constraint excludes the rows in which all the axes *)
(* it names have their first value.                                        *)
(***************************************************************************)
EXTENDS Integers, Sequences, FiniteSets

CONSTANTS
    AxisNames,
    Models,     \* model files
    Edits,      \* bound: those that an edit leaves
    Requests,   \* requests, see Request
    Usable,     \* the axis names that can become a flag
    IfNames,    \* the names that begin like a constraint's IF
    MaxMishaps  \* bound: what may go wrong on the runner

Line ==
    [kind : {"axis"}, name : AxisNames, values : Nat]
      \cup [kind : {"constraint"}, refs : SUBSET AxisNames] \cup [kind : {"other"}]

\* A request to verify, or a call of plan().  fields: the paths, numbers and image are
\* right; accepts: PICT takes the model; orders: asked of plan(), {} for the one order.
Request ==
    [caller : {"verify"}, consent : BOOLEAN, fields : BOOLEAN, accepts : BOOLEAN,
     order : Nat \ {0}, repeats : Nat \ {0}]
      \cup
    [caller : {"plan"}, accepts : BOOLEAN, order : Nat \ {0}, orders : SUBSET (Nat \ {0}),
     auto : BOOLEAN, repeats : Nat \ {0}, wallclock : Nat, cost : Nat \ {0},
     concurrency : Nat \ {0}, maxCases : Nat]

ASSUME CasePlanAssumption ==
    /\ Models \subseteq Seq(Line) /\ Edits \subseteq Models
    /\ Requests \subseteq Request
    /\ MaxMishaps \in Nat

VARIABLES
    req,        \* the request
    disk,       \* the model file in the checkout
    binary,     \* the PICT binary is installed
    mishaps,    \* what went wrong on the runner
    at,         \* the next step
    admitted,   \* parse() has returned
    text,       \* the model as it was read
    line,       \* validate_model(): the next line
    declared,   \* validate_model(): the axes so far
    constrained,\* validate_model(): a constraint has been seen
    todo,       \* the orders to try yet
    order,      \* the order of the array
    rows,       \* the array
    tried,      \* plan(): the arrays that did not fit
    ran,        \* the cases that ran; of plan(), those that are kept
    coverage,   \* the coverage that is reported: covered, of all
    code        \* the exit code; of plan(), 2 for a PictError

inputs == <<req, disk, binary, mishaps>>
validation == <<line, declared, constrained>>
planning == <<todo, order, rows, tried>>
results == <<ran, coverage, code>>
vars == <<inputs, at, admitted, text, validation, planning, results>>

NoCode == -1
NoCoverage == <<0, 0>>

MinRepeats == 3             \* MIN_REPEATS
DefaultOrders == {2, 3}     \* DEFAULT_ORDERS

Verify == req.caller = "verify"

Init ==
    /\ req \in Requests
    /\ disk \in Models
    /\ binary \in BOOLEAN
    /\ mishaps = {}
    /\ at = IF Verify THEN "consent" ELSE "orders"
    /\ admitted = FALSE
    /\ text = IF Verify THEN <<>> ELSE disk
    /\ line = 1 /\ declared = <<>> /\ constrained = FALSE
    /\ todo = {} /\ order = 0 /\ rows = <<>> /\ tried = {}
    /\ ran = 0 /\ coverage = NoCoverage /\ code = NoCode

Goto(step) == at' = step
Exit(c) == at' = "over" /\ code' = c
Mishap(m) == Cardinality(mishaps) < MaxMishaps /\ mishaps' = mishaps \cup {m}

\* validate_model() starts over.
StartLines == line' = 1 /\ declared' = <<>> /\ constrained' = FALSE /\ Goto("lines")

-----------------------------------------------------------------------------
(* inputs.parse()                                                          *)

\* _require_consent(), before anything else.
Consent ==
    /\ at = "consent"
    /\ \/ ~req.consent /\ Exit(3)
       \/ req.consent /\ Goto("read") /\ UNCHANGED code
    /\ UNCHANGED <<inputs, admitted, text, validation, planning, ran, coverage>>

\* After the paths the model is read, once.  A file that went away, or is not text, is
\* nobody's ContractError.
Read ==
    /\ at = "read"
    /\ \/ ~req.fields /\ Exit(2) /\ UNCHANGED <<mishaps, text, validation>>
       \/ /\ text' = disk
          /\ StartLines
          /\ UNCHANGED <<mishaps, code>>
       \/ /\ Mishap("unreadable")
          /\ Exit(3)
          /\ UNCHANGED <<text, validation>>
    /\ UNCHANGED <<req, disk, binary, admitted, planning, ran, coverage>>

\* _declared_parameters(): what begins like a constraint is none.
IsAxis(m, i) == i \in DOMAIN m /\ m[i].kind = "axis"
Width(m) == Cardinality({i \in DOMAIN m : IsAxis(m, i)})
DeclaredWidth(m) == Cardinality({i \in DOMAIN m : IsAxis(m, i) /\ m[i].name \notin IfNames})

\* (Bug variant: an order of the number of axes is too wide.)
TooWideAtWidth == req.order >= DeclaredWidth(text)
TooWide == req.order > DeclaredWidth(text)

\* The order, the numbers and the image.
Fields ==
    /\ at = "fields"
    /\ \/ (TooWide \/ ~req.fields) /\ Exit(2)
       \/ ~TooWide /\ req.fields /\ Goto("binary") /\ UNCHANGED code
    /\ UNCHANGED <<inputs, admitted, text, validation, planning, ran, coverage>>

\* _resolve_pict_binary(), last but for the sim script's warnings, which are read off its
\* text: then the request is admitted.
Admit ==
    /\ at = "binary" /\ Verify /\ ~admitted
    /\ \/ ~binary /\ Exit(3) /\ UNCHANGED <<mishaps, admitted, validation, order>>
       \/ binary /\ Mishap("unreadable") /\ Exit(3) /\ UNCHANGED <<admitted, validation, order>>
       \/ /\ binary
          /\ admitted' = TRUE
          /\ order' = req.order
          /\ StartLines
          /\ UNCHANGED <<mishaps, code>>
    /\ UNCHANGED <<req, disk, binary, text, todo, rows, tried, ran, coverage>>

-----------------------------------------------------------------------------
(* pict.validate_model(), line by line                                     *)

Names == {declared[i].name : i \in DOMAIN declared}

RefsDeclared(l) == l.refs \subseteq Names

\* (Bug variant: the constraint section is not closed.)
AxisAnywhere(l) == l.name \in Usable /\ l.name \notin Names /\ l.values > 0
AxisIsRight(l) ==
    l.name \in Usable /\ ~constrained /\ l.name \notin Names /\ l.values > 0

CheckLine ==
    /\ at = "lines" /\ line <= Len(text)
    /\ LET l == text[line]
       IN \/ /\ l.kind = "other"
             /\ line' = line + 1
             /\ UNCHANGED <<at, declared, constrained, code>>
          \/ /\ l.kind = "constraint" /\ RefsDeclared(l)
             /\ line' = line + 1 /\ constrained' = TRUE
             /\ UNCHANGED <<at, declared, code>>
          \/ /\ l.kind = "axis" /\ AxisIsRight(l)
             /\ line' = line + 1 /\ declared' = Append(declared, l)
             /\ UNCHANGED <<at, constrained, code>>
          \/ /\ \/ l.kind = "constraint" /\ ~RefsDeclared(l)
                \/ l.kind = "axis" /\ ~AxisIsRight(l)
             /\ Exit(2)
             /\ UNCHANGED validation
    /\ UNCHANGED <<inputs, admitted, text, planning, ran, coverage>>

EndLines ==
    /\ at = "lines" /\ line > Len(text)
    /\ \/ declared = <<>> /\ Exit(2)
       \/ /\ declared # <<>> /\ UNCHANGED code
          /\ Goto(IF Verify /\ ~admitted THEN "fields" ELSE "binary")
    /\ UNCHANGED <<inputs, admitted, text, validation, planning, ran, coverage>>

-----------------------------------------------------------------------------
(* pict.generate(): what PICT makes of the text                            *)

\* resolve_binary() in generate(): its PictError is a rejected model.
Resolve ==
    /\ at = "binary" /\ (admitted \/ ~Verify)
    /\ \/ ~binary /\ Exit(2) /\ UNCHANGED rows
       \/ binary /\ Goto("pict") /\ rows' = <<>> /\ UNCHANGED code
    /\ UNCHANGED <<inputs, admitted, text, validation, todo, order, tried, ran, coverage>>

\* The axes PICT is given.  (Bug variant: the file is read again.)
ReadAgain == SelectSeq(disk, LAMBDA l : l.kind = "axis")
Axes == declared

Grid(axes) == {r \in [DOMAIN axes -> UNION {1 .. axes[i].values : i \in DOMAIN axes}] :
                 \A i \in DOMAIN axes : r[i] <= axes[i].values}
Excluded(axes, r, l) == \A i \in DOMAIN axes : axes[i].name \in l.refs => r[i] = 1
Feasible(axes, m) ==
    {r \in Grid(axes) :
       \A j \in DOMAIN m : m[j].kind = "constraint" => ~Excluded(axes, r, m[j])}

\* _combinations(): what the rows realise of each choice of so many axes.
Choices(width, k) == {c \in SUBSET (1 .. width) : Cardinality(c) = k}
Combinations(rs, width, k) ==
    {<<c, [i \in c |-> r[i]]>> : c \in Choices(width, k), r \in rs}

Rows(n) == {rows[i] : i \in {j \in DOMAIN rows : j <= n}}
Missing ==
    Combinations(Feasible(Axes, text), Len(Axes), order)
      \ Combinations(Rows(Len(rows)), Len(Axes), order)

\* PICT rejects the model (also an order that is too wide for it), or is killed, or cannot
\* be started any more, or does not come to an end; or it emits rows until every
\* combination is there.  Without any row, only an output that is empty is rejected.
Pict ==
    /\ at = "pict"
    /\ LET right == req.accepts /\ order <= Width(text)
       IN \/ ~right /\ Exit(2) /\ UNCHANGED <<mishaps, rows>>
          \/ Mishap("killed") /\ Exit(2) /\ UNCHANGED rows
          \/ Mishap("hung") /\ Exit(3) /\ UNCHANGED rows
          \/ ~binary /\ Exit(3) /\ UNCHANGED <<mishaps, rows>>
          \/ /\ right
             /\ \E r \in Feasible(Axes, text) :
                  /\ Combinations({r}, Len(Axes), order) \cap Missing # {}
                  /\ rows' = Append(rows, r)
             /\ UNCHANGED <<mishaps, at, code>>
          \/ /\ right /\ Missing = {}
             /\ \/ Goto(IF Verify THEN "client" ELSE "fit") /\ UNCHANGED code
                \/ Feasible(Axes, text) = {} /\ Exit(2)
             /\ UNCHANGED <<mishaps, rows>>
    /\ UNCHANGED <<req, disk, binary, admitted, text, validation, todo, order, tried>>
    /\ UNCHANGED <<ran, coverage>>

\* coverage_of_prefix(): of what the whole array realises.  (Bug variants: of what the
\* axes could realise; of one case more.)
CoverageOfGrid(n, k) ==
    <<Cardinality(Combinations(Rows(n), Len(Axes), k)),
      Cardinality(Combinations(Grid(Axes), Len(Axes), k))>>
CoverageOfPrefix(n, k) ==
    LET all == Combinations(Rows(Len(rows)), Len(Axes), k)
    IN IF all = {} THEN <<1, 1>>
       ELSE <<Cardinality(Combinations(Rows(n), Len(Axes), k)), Cardinality(all)>>

-----------------------------------------------------------------------------
(* cases.expand() and the case loop of cli/main.py                         *)

\* resolve_docker_client(), before any case.
Client ==
    /\ at = "client"
    /\ \/ Mishap("no_docker") /\ Exit(3)
       \/ Goto("cases") /\ UNCHANGED <<mishaps, code>>
    /\ UNCHANGED <<req, disk, binary, admitted, text, validation, planning, ran, coverage>>

\* The runs, case by case: which row, which repeat.  (Bug variant: repeat by repeat.)
ExpandRepeatMajor ==
    [j \in 1 .. Len(rows) * req.repeats |->
       [case |-> ((j - 1) % Len(rows)) + 1, repeat |-> (j - 1) \div Len(rows)]]
Expand ==
    [j \in 1 .. Len(rows) * req.repeats |->
       [case |-> ((j - 1) \div req.repeats) + 1, repeat |-> (j - 1) % req.repeats]]

\* _cases_of(): neighbours of one case_index are a case.
CaseStarts == {j \in DOMAIN Expand : j = 1 \/ Expand[j].case # Expand[j - 1].case}
RunsOf(n) ==
    {Expand[j] : j \in {i \in DOMAIN Expand : Cardinality({s \in CaseStarts : s <= i}) <= n}}

\* The cases run in array order until they are all through or the budget is.
RunCase ==
    /\ at = "cases" /\ ran < Cardinality(CaseStarts)
    /\ ran' = ran + 1
    /\ UNCHANGED <<inputs, at, admitted, text, validation, planning, coverage, code>>

Report ==
    /\ at = "cases"
    /\ coverage' = CoverageOfPrefix(ran, order)
    /\ Exit(0)
    /\ UNCHANGED <<inputs, admitted, text, validation, planning, ran>>

-----------------------------------------------------------------------------
(* pict.plan()                                                             *)

Smaller(a, b) == IF a <= b THEN a ELSE b
Larger(a, b) == IF a >= b THEN a ELSE b

\* _orders_to_try(): one order as asked, or those of several that the space can hold.
Wanted == IF req.auto THEN DefaultOrders ELSE req.orders
OrdersToTry ==
    LET width == DeclaredWidth(text)
        narrow == {o \in Wanted : o <= width}
        smallest == {o \in Wanted : \A k \in Wanted : o <= k}
    IN IF Wanted = {} THEN {req.order}
       ELSE IF narrow # {} THEN narrow ELSE {Smaller(o, width) : o \in smallest}

\* The repeats of a case are raised to their floor in auto only.  (Bug variant: always.)
RepeatsWithFloor == Larger(req.repeats, MinRepeats)
Repeats == IF req.auto THEN Larger(req.repeats, MinRepeats) ELSE req.repeats

\* (Bug variant: one more case than fits.)
AffordableRoundedUp ==
    Smaller(((req.wallclock * req.concurrency) \div (req.cost * Repeats)) + 1, req.maxCases)
Affordable ==
    Smaller((req.wallclock * req.concurrency) \div (req.cost * Repeats), req.maxCases)

\* The richest order left is tried.
Try(orders) ==
    \E o \in orders : /\ \A k \in orders : k <= o
                     /\ order' = o /\ todo' = orders \ {o}

Orders ==
    /\ at = "orders"
    /\ Try(OrdersToTry)
    /\ StartLines
    /\ UNCHANGED <<inputs, admitted, text, rows, tried, results>>

\* The first array that fits is the plan.
Fits ==
    /\ at = "fit" /\ Len(rows) <= Affordable
    /\ ran' = Len(rows) /\ coverage' = <<1, 1>>
    /\ Exit(0)
    /\ UNCHANGED <<inputs, admitted, text, validation, planning>>

\* One that does not gives way to the next order.
NextOrder ==
    /\ at = "fit" /\ Len(rows) > Affordable /\ todo # {}
    /\ tried' = tried \cup {[order |-> order, size |-> Len(rows)]}
    /\ Try(todo)
    /\ StartLines
    /\ UNCHANGED <<inputs, admitted, text, rows, results>>

\* The last one is cut, unless nothing would be left of it.
Cut ==
    /\ at = "fit" /\ Len(rows) > Affordable /\ todo = {}
    /\ \/ Affordable < 1 /\ Exit(2) /\ UNCHANGED <<ran, coverage>>
       \/ /\ Affordable >= 1
          /\ ran' = Affordable /\ coverage' = CoverageOfPrefix(Affordable, order)
          /\ Exit(0)
    /\ UNCHANGED <<inputs, admitted, text, validation, planning>>

-----------------------------------------------------------------------------
(* Others on the runner, and mishaps                                       *)

\* The model file is edited while the request is under way.
Edit ==
    /\ at # "over" /\ Verify
    /\ Mishap("edited")
    /\ disk' \in Edits \ {disk}
    /\ UNCHANGED <<req, binary, at, admitted, text, validation, planning, results>>

\* The binary is taken away.
Uninstall ==
    /\ at # "over" /\ binary
    /\ Mishap("uninstalled")
    /\ binary' = FALSE
    /\ UNCHANGED <<req, disk, at, admitted, text, validation, planning, results>>

Done == at = "over" /\ UNCHANGED vars

Parse == Consent \/ Read \/ Fields \/ Admit
Generate == CheckLine \/ EndLines \/ Resolve \/ Pict
Cases == Client \/ RunCase \/ Report
Plan == Orders \/ Fits \/ NextOrder \/ Cut

Next == Parse \/ Generate \/ Cases \/ Plan \/ Edit \/ Uninstall \/ Done

Spec == Init /\ [][Next]_vars

-----------------------------------------------------------------------------
(* Properties                                                              *)

\* The array has the shape of the axes that were read, and what is reported is of it.
TypeOK ==
    /\ req \in Requests
    /\ disk \in Models /\ text \in Models \cup {<<>>}
    /\ binary \in BOOLEAN /\ admitted \in BOOLEAN /\ constrained \in BOOLEAN
    /\ mishaps \subseteq {"unreadable", "killed", "hung", "edited", "uninstalled", "no_docker"}
    /\ at \in {"consent", "read", "lines", "fields", "binary", "pict", "client", "cases", "orders",
               "fit", "over"}
    /\ line \in 1 .. Len(text) + 1
    /\ declared \in Seq(Line)
    /\ order \in Nat /\ todo \subseteq Nat
    /\ rows \in Seq(Grid(declared)) \/ at \in {"lines", "binary", "over"}
    /\ \A t \in tried : t.order \in Nat /\ t.size \in Nat
    /\ ran \in Nat
    /\ coverage \in Nat \X Nat
    /\ code \in {NoCode, 0, 2, 3}

\* What a model must be: some axis, each of them with a name that can be a flag, values,
\* no namesake and no constraint before it; and constraints on the axes before them.
IsConstraint(m, i) == i \in DOMAIN m /\ m[i].kind = "constraint"

AxisWellFormed(m, i) ==
    /\ m[i].name \in Usable /\ m[i].values > 0
    /\ \A j \in 1 .. i - 1 : ~IsConstraint(m, j) /\ (IsAxis(m, j) => m[j].name # m[i].name)
ConstraintWellFormed(m, i) ==
    \A n \in m[i].refs : \E j \in 1 .. i - 1 : IsAxis(m, j) /\ m[j].name = n

WellFormed(m) ==
    /\ \E i \in DOMAIN m : IsAxis(m, i)
    /\ \A i \in DOMAIN m :
         /\ IsAxis(m, i) => AxisWellFormed(m, i)
         /\ IsConstraint(m, i) => ConstraintWellFormed(m, i)

SomeIfName(m) == \E i \in DOMAIN m : IsAxis(m, i) /\ m[i].name \in IfNames

\* Who is to blame.  Exit 2 says the request is wrong, exit 3 that the runner is; the
\* exceptions are named: the runner's faults that reach generate(), an axis whose name
\* begins with IF, and a model that admits no row.  Cases only run of a request that is
\* right, and whoever is wrong is found out before anything runs.
BlameIsRight ==
    Verify /\ code # NoCode =>
        /\ code = 2 =>
             \/ ~req.fields \/ ~WellFormed(text) \/ ~req.accepts \/ req.order > Width(text)
             \/ mishaps \cap {"killed", "uninstalled"} # {}
             \/ SomeIfName(text) \/ Feasible(declared, text) = {}
        /\ code = 3 =>
             \/ ~req.consent \/ ~binary
             \/ mishaps \cap {"hung", "unreadable", "no_docker"} # {}
        /\ code = 0 =>
             /\ req.consent /\ req.fields /\ WellFormed(text) /\ req.accepts
             /\ req.order <= Width(text)

\* The rows of a case all of whose repeats ran.
WholeRows == {rows[c] : c \in {d \in DOMAIN rows :
                  \A k \in 0 .. req.repeats - 1 : [case |-> d, repeat |-> k] \in RunsOf(ran)}}

Agree(r, f, c) == \A i \in c : r[i] = f[i]

\* The coverage that is reported is what was verified: it is that of the cases all of
\* whose repeats ran, among the combinations that the model as it was read admits, and
\* it is whole only if each of those was run.  A file edited later changes nothing.
CoverageIsHonest ==
    Verify /\ code = 0 =>
        LET possible == Feasible(declared, text)
            choices == Choices(Len(declared), order)
            covered == \A f \in possible, c \in choices : \E r \in WholeRows : Agree(r, f, c)
        IN /\ (coverage[1] = coverage[2]) <=> covered
           /\ possible # {} =>
                /\ coverage[1] = Cardinality(Combinations(WholeRows, Len(declared), order))
                /\ coverage[2] = Cardinality(Combinations(possible, Len(declared), order))

\* plan(): what it keeps fits the budget, and gives up no more than the budget demands:
\* a lower order only where every richer one did not fit, rows only where none of the
\* orders fits, and then as few as can be.  Without orders, the order is the one asked.
CutsOnlyWhatDoesNotFit ==
    ~Verify /\ code = 0 =>
        LET cost(n) == n * req.cost * Repeats
            budget == req.wallclock * req.concurrency
            fits(n) == cost(n) <= budget /\ n <= req.maxCases
        IN /\ fits(ran)
           /\ ran < Len(rows) => todo = {} /\ ~fits(ran + 1)
           /\ \A o \in OrdersToTry : o > order => \E t \in tried : t.order = o
           /\ \A t \in tried : ~fits(t.size)
           /\ ~req.auto => cost(1) = req.cost * req.repeats
           /\ Wanted = {} => order = req.order
=============================================================================
