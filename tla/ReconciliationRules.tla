-------------------------- MODULE ReconciliationRules --------------------------
(***************************************************************************)
(* ReconciliationEngine.run: the rules of every category, applied to the   *)
(* normalized statements and the facts that the caller lists.              *)
(*                                                                         *)
(* All statements are of one company and for the fiscal period FY.  Only   *)
(* segment rules read facts and they read no payload, so that statements   *)
(* are listed either with facts or with metrics.                           *)
(***************************************************************************)
EXTENDS Integers, Sequences, FiniteSets, FiniteSetsExt, SequencesExt

CONSTANTS
    Types,       \* statement types
    Years,       \* fiscal years
    MonthOf,     \* the month of the statement date, by year
    Versions,    \* version sequences
    Metrics,
    Values,      \* amounts
    Slices,      \* sets of dimensions, in the order of their dimension_key
    Rules,       \* the rules of a run
    Tolerance,   \* of every rule
    MaxListed,   \* bound: statements
    MaxFacts,    \* bound: facts
    None

\* What the constants have to be.
RulesAssumption ==
    /\ Values \subseteq Int
    /\ Tolerance \in Nat
    /\ MonthOf \in [Years -> 1..12]
    /\ None \notin Int
    /\ IsFiniteSet(Metrics)
    /\ \A r, q \in Rules : r.id = q.id => r = q
    /\ \A r \in Rules :
         /\ r.category \in {"IDENTITY", "ROLLFORWARD", "FX", "CALENDAR", "SEGMENT"}
         /\ r.category = "IDENTITY" => {r.lhs, r.rhs} \subseteq SUBSET Metrics
         /\ r.category = "SEGMENT" => {r.parent, r.child} \subseteq Metrics
    /\ DOMAIN Slices \subseteq Nat
    /\ \A i, j \in DOMAIN Slices : Slices[i] = {} /\ Slices[j] = {} => i = j
    /\ MaxListed \in Nat \ {0} /\ MaxFacts \in Nat

Identities == [type : Types, year : Years, version : Versions]

VARIABLES
    deep,      \* whether facts are looked at
    listed,    \* the statements
    facts,     \* the facts by identity
    results    \* of the last run, None before it

sheet == <<deep, listed, facts, results>>

NoMetrics == [m \in Metrics |-> None]

TypeOK ==
    /\ deep \in BOOLEAN
    /\ Len(listed) <= MaxListed
    /\ \A s \in ToSet(listed) :
         s.id \in Identities /\ s.core \in [Metrics -> Values \cup {None}]
    /\ \A f \in facts :
         /\ f.of \in Identities
         /\ f.metric \in Metrics
         /\ f.slice \in DOMAIN Slices
         /\ f.value \in Values

Init ==
    /\ deep \in BOOLEAN
    /\ listed = <<>>
    /\ facts = {}
    /\ results = None

-----------------------------------------------------------------------------
(* Results.                                                                *)

Result(id, r, status, severity, expected, actual, delta) ==
    [id |-> id, rule |-> r.id, status |-> status, severity |-> severity,
     expected |-> expected, actual |-> actual, delta |-> delta]

Judged(id, r, expected, actual) ==
    IF actual - expected \in -Tolerance..Tolerance
      THEN Result(id, r, "PASS", "NONE", expected, actual, actual - expected)
      ELSE Result(id, r, "FAIL", r.severity, expected, actual, actual - expected)

Warning(id, r, expected, actual) == Result(id, r, "WARNING", "LOW", expected, actual, None)

-----------------------------------------------------------------------------
(* The categories, over a sequence of statements.                          *)

BucketOfFirst(statements, y) ==  \* mutant
    {statements[i] : i \in {i \in DOMAIN statements :
        /\ statements[i].id.year = y
        /\ \A k \in DOMAIN statements : statements[k].id.year = y => k >= i}}

\* align_statements_across_types: the last statement of a type and year.
Bucket(statements, y) ==
    {statements[i] : i \in {i \in DOMAIN statements :
        /\ statements[i].id.year = y
        /\ \A k \in DOMAIN statements :
             (statements[k].id.year = y /\ statements[k].id.type = statements[i].id.type) => k <= i}}

\* The type that was listed first represents the year.
Representative(statements, y) ==
    LET first == Min({i \in DOMAIN statements : statements[i].id.year = y})
    IN  CHOOSE s \in Bucket(statements, y) : s.id.type = statements[first].id.type

Reported(metrics, bucket) == {p \in metrics \X bucket : p[2].core[p[1]] # None}

\* What is not reported counts for nothing, unless nothing is.
SumOf(metrics, bucket) ==
    IF Reported(metrics, bucket) = {} THEN None
    ELSE SumFunction([p \in Reported(metrics, bucket) |-> p[2].core[p[1]]])

IdentityResults(r, statements) ==
    {LET bucket   == Bucket(statements, y)
         id       == Representative(statements, y).id
         expected == SumOf(r.lhs, bucket)
         actual   == SumOf(r.rhs, bucket)
     IN  IF None \in {expected, actual} THEN Warning(id, r, expected, actual)
         ELSE Judged(id, r, expected, actual) :
     y \in {y \in Years : \E s \in Bucket(statements, y) : r.types = {} \/ s.id.type \in r.types}}

RollforwardResults(r, statements) ==
    {LET flow    == SumOf(r.flows, {s})
         opening == s.core[r.opening]
         closing == s.core[r.closing]
     IN  IF None \in {flow, opening, closing} THEN Warning(s.id, r, None, None)
         ELSE Judged(s.id, r, opening + flow, closing) :
     s \in {s \in ToSet(statements) : r.period \in {None, "FY"}}}

\* A stub.
FxResults(r, statements) == {Warning(s.id, r, None, None) : s \in ToSet(statements)}

CalendarResults(r, statements) ==
    {IF MonthOf[s.id.year] \in r.months
       THEN Result(s.id, r, "PASS", "NONE", None, None, None)
       ELSE Result(s.id, r, "FAIL", r.severity, None, None, None) : s \in ToSet(statements)}

Has(f, dimension) == dimension \in Slices[f.slice]

Parents(r, id) == {f \in facts : f.of = id /\ f.metric = r.parent /\ ~Has(f, r.dimension)}

ChildrenOfAny(r, id) == {f \in facts : f.of = id /\ f.metric = r.child}  \* mutant

Children(r, id) == {f \in facts : f.of = id /\ f.metric = r.child /\ Has(f, r.dimension)}

Total(S) == SumFunction([f \in S |-> f.value])

\* Of several rows without the dimension the last by dimension_key is the parent.  A deep
\* run lists its statements by identity, those without facts too.
SegmentResults(r, statements) ==
    {LET parent == CHOOSE f \in Parents(r, id) : \A g \in Parents(r, id) : g.slice <= f.slice
     IN  IF Parents(r, id) = {} \/ Children(r, id) = {} THEN Warning(id, r, None, None)
         ELSE Judged(id, r, parent.value, Total(Children(r, id))) :
     id \in {s.id : s \in {s \in ToSet(statements) : deep}}}

ResultsOf(r, statements) ==
    CASE r.category = "IDENTITY"    -> IdentityResults(r, statements)
      [] r.category = "ROLLFORWARD" -> RollforwardResults(r, statements)
      [] r.category = "FX"          -> FxResults(r, statements)
      [] r.category = "CALENDAR"    -> CalendarResults(r, statements)
      [] r.category = "SEGMENT"     -> SegmentResults(r, statements)

\* Without statements there are no results; their order is left out.
Evaluate(statements) ==
    UNION {ResultsOf(r, statements) : r \in {r \in Rules : statements # <<>> /\ r.enabled}}

-----------------------------------------------------------------------------
(* Steps.                                                                  *)

ListStatement ==
    /\ Len(listed) < IF deep THEN 1 ELSE MaxListed
    /\ \E id \in Identities, core \in IF deep THEN {NoMetrics} ELSE [Metrics -> Values \cup {None}] :
          /\ \A s \in ToSet(listed) : s.id # id
          /\ listed' = Append(listed, [id |-> id, core |-> core])
    /\ results' = None
    /\ UNCHANGED <<deep, facts>>

SegmentMetrics == UNION {{r.parent, r.child} : r \in {r \in Rules : r.category = "SEGMENT"}}

\* A fact of a listed statement, or of one that is not listed; one per metric and slice.
\* Facts of other metrics are read by no rule.
AddFact ==
    /\ deep
    /\ listed # <<>>
    /\ Cardinality(facts) < MaxFacts
    /\ \E v \in Versions, m \in SegmentMetrics, i \in DOMAIN Slices, x \in Values :
          LET id == [listed[1].id EXCEPT !.version = v]
          IN  /\ \A f \in facts : <<f.of, f.metric, f.slice>> # <<id, m, i>>
              /\ facts' = facts \cup {[of |-> id, metric |-> m, slice |-> i, value |-> x]}
    /\ results' = None
    /\ UNCHANGED <<deep, listed>>

Run ==
    /\ results' = Evaluate(listed)
    /\ UNCHANGED <<deep, listed, facts>>

Next == ListStatement \/ AddFact \/ Run

Spec == Init /\ [][Next]_sheet

-----------------------------------------------------------------------------
(* Properties.                                                             *)

RulesOf(category) == {r \in Rules : r.category = category /\ r.enabled}

Passed(r, id) == \E x \in results : x.id = id /\ x.rule = r.id /\ x.status = "PASS"

\* The statements that report a metric of a year, and the amount when there is one.
Reporters(y, m) == {s \in Bucket(listed, y) : s.core[m] # None}
Amount(y, m)    == (CHOOSE s \in Reporters(y, m) : TRUE).core[m]

Side(y, metrics) == SumFunction([m \in metrics |-> Amount(y, m)])

\* Whatever statement of the year reports them: when each metric of an identity is reported
\* once, and each side has one, the identity passes exactly when its sides agree.
\* (_apply_identity_rule)
IdentitiesTie ==
    \A r \in RulesOf("IDENTITY"), y \in {s.id.year : s \in ToSet(listed)} :
        (/\ {} \notin {r.lhs, r.rhs}
         /\ \A m \in r.lhs \cup r.rhs : Cardinality(Reporters(y, m)) = 1
         /\ \E s \in Bucket(listed, y) : r.types = {} \/ s.id.type \in r.types) =>
            (Passed(r, Representative(listed, y).id)
                <=> Side(y, r.rhs) - Side(y, r.lhs) \in -Tolerance..Tolerance)

\* When no fact is cut along another dimension, a segment rule passes exactly when the
\* segments add up to the row that has none.  (_apply_segment_rule)
SegmentsTie ==
    \A r \in RulesOf("SEGMENT"), id \in {s.id : s \in ToSet(listed)} :
        LET own      == {f \in facts : f.of = id /\ f.metric = r.parent}
            segments == {f \in own : Slices[f.slice] = {r.dimension}}
            total    == {f \in own : Slices[f.slice] = {}}
        IN  (own = segments \cup total /\ r.parent = r.child) =>
                (Passed(r, id) <=> /\ total # {}
                                   /\ segments # {}
                                   /\ Total(total) - Total(segments) \in -Tolerance..Tolerance)

\* What is found out does not depend on the order in which the statements are listed,
\* as long as no statement is listed in two versions: only the last of them then counts
\* in an identity.  (run; the representative of a year does depend on it)
Verdicts(statements) ==
    {[year |-> x.id.year, rule |-> x.rule, status |-> x.status, delta |-> x.delta] :
        x \in Evaluate(statements)}

VerdictsIgnoreOrder ==
    (\A s, t \in ToSet(listed) : (s.id.type = t.id.type /\ s.id.year = t.id.year) => s = t) =>
        \A other \in SetToSeqs(ToSet(listed)) : Verdicts(other) = Verdicts(listed)

\* A verdict is the truth about complete books, whoever reports a metric, and does not
\* depend on the order of the statements.  (ReconciliationEngine.run)
BooksTie == results # None => IdentitiesTie /\ SegmentsTie /\ VerdictsIgnoreOrder
=============================================================================
