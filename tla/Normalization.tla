----------------------------- MODULE Normalization -----------------------------
(***************************************************************************)
(* normalize_xbrl_statement between loading the version and writing it:    *)
(* the facts of the document, the override rules, the canonical payload.   *)
(* The rules are read concept by concept, each query with a snapshot of    *)
(* its own, while ref.edgar_xbrl_mapping_overrides is edited from outside; *)
(* what the payload is then written to is in StatementPipeline.            *)
(* apply_overrides, the other way to the engine, reads once and decides.   *)
(*                                                                         *)
(* A value is known by the id of its fact; ids and concepts are numbers,   *)
(* since they are compared.                                                *)
(***************************************************************************)
EXTENDS Integers, FiniteSets, Sequences, SequencesExt, FiniteSetsExt

CONSTANTS
    Registry,   \* _CANONICAL_METRIC_REGISTRY: [metric, concepts], in its order
    Documents,  \* the facts of a document, in its order
    Currency,   \* of the statement
    Taxonomy,   \* the taxonomy of the use case
    Cik,        \* the company
    Contexts,   \* contexts apply_overrides is called with
    Bases,      \* base metrics apply_overrides is called with
    Ids,        \* primary keys of rules
    Contents,   \* rules, apart from their ids
    None,       \* SQL NULL, None
    MaxEdits    \* bound: edits of the table

Metrics  == {Registry[i].metric : i \in DOMAIN Registry}
Concepts == UNION {ToSet(Registry[i].concepts) : i \in DOMAIN Registry}

\* concept is one of the document, in the registry or not; at is period_end or
\* instant_date; usable: not nil and with a known context; number: value is a
\* number.
IsFact(f) == /\ DOMAIN f = {"id", "concept", "unit", "at", "usable", "number"}
             /\ {f.usable, f.number} \subseteq BOOLEAN
             /\ f.id \in Nat /\ f.at \in Nat /\ f.concept \in Nat

\* In the order of _SCOPE_PRECEDENCE.
Scopes == <<"ANALYST", "COMPANY", "INDUSTRY", "GLOBAL">>

IsContent(c) == /\ DOMAIN c = {"scope", "concept", "taxonomy", "cik", "industry", "analyst",
                               "dims", "target", "suppress", "priority"}
                /\ c.scope \in ToSet(Scopes)
                /\ c.target \in Metrics \cup {None}
                /\ c.suppress \in BOOLEAN /\ c.priority \in Int

ASSUME NormalizationAssumption ==
    /\ \A i \in DOMAIN Registry : Registry[i].concepts \in Seq(Nat)
    /\ \A doc \in Documents : /\ Len(doc) \in Nat /\ DOMAIN doc = 1..Len(doc)
                           /\ \A k \in DOMAIN doc : IsFact(doc[k])
    /\ \A c \in Contents : IsContent(c)
    /\ Ids \subseteq Nat /\ IsFiniteSet(Ids)
    /\ Bases \subseteq Metrics \cup {None}
    /\ None \notin Contents /\ None \notin Metrics /\ None \notin Nat
    /\ MaxEdits \in Nat

VARIABLES
    table,     \* ref.edgar_xbrl_mapping_overrides
    edits,     \* edits so far
    document,  \* of the call
    pending,   \* concepts whose rules are still to be read
    rules,     \* rules collected so far
    result,    \* of the last call
    readAt     \* history: the table when the rules of a concept were read

vars == <<table, edits, document, pending, rules, result, readAt>>

Rule(t, id) == [id |-> id, rule |-> t[id]]

-----------------------------------------------------------------------------
(* XBRLMappingOverrideEngine.                                              *)

\* _match_scope_entity.
EntityMatches(rule, ctx) ==
    CASE rule.scope = "COMPANY"  -> rule.cik # None /\ rule.cik = ctx.cik
      [] rule.scope = "INDUSTRY" -> rule.industry # None /\ rule.industry = ctx.industry
      [] rule.scope = "ANALYST"  -> rule.analyst # None /\ rule.analyst = ctx.analyst
      [] rule.scope = "GLOBAL"   -> {rule.cik, rule.industry, rule.analyst} = {None}

\* _rule_matches; dimensions are pairs of axis and member.
Matches(rule, ctx) == EntityMatches(rule, ctx) /\ rule.dims \subseteq ctx.dims

\* _filter_candidates.
Applies(rule, concept, ctx) == rule.concept = concept /\ rule.taxonomy \in {None, ctx.taxonomy}

MatchingIn(scope, list, concept, ctx) ==
    {r \in ToSet(list) : /\ Applies(r.rule, concept, ctx)
                         /\ r.rule.scope = scope
                         /\ Matches(r.rule, ctx)}

FirstCandidate(list, concept, ctx) ==  \* mutant: the scope is settled before the rules are matched
    LET present == {i \in DOMAIN Scopes :
                      \E r \in ToSet(list) : Applies(r.rule, concept, ctx) /\ r.rule.scope = Scopes[i]}
        best == IF present = {} THEN {} ELSE MatchingIn(Scopes[Min(present)], list, concept, ctx)
    IN  {r \in best : \A q \in best : \/ q.rule.priority < r.rule.priority
                                      \/ q.rule.priority = r.rule.priority /\ r.id <= q.id}

\* _select_winning_rule: the first scope with a match, there the highest priority,
\* of those the lowest id.  Empty when nothing matches.
Winner(list, concept, ctx) ==
    LET matched == {i \in DOMAIN Scopes : MatchingIn(Scopes[i], list, concept, ctx) # {}}
        best == IF matched = {} THEN {} ELSE MatchingIn(Scopes[Min(matched)], list, concept, ctx)
    IN  {r \in best : \A q \in best : \/ q.rule.priority < r.rule.priority
                                      \/ q.rule.priority = r.rule.priority /\ r.id <= q.id}

\* _compute_final_metric.
Target(rule) == IF rule.suppress THEN None ELSE rule.target

\* apply: the metric and the rule that gave it; None is a suppressed metric, or no rule.
Decision(list, concept, base, ctx) ==
    LET won == Winner(list, concept, ctx)
    IN  IF won = {} THEN [final |-> base, by |-> None]
        ELSE LET r == CHOOSE r \in won : TRUE
             IN  [final |-> Target(r.rule), by |-> r.id]

-----------------------------------------------------------------------------
(* CanonicalStatementNormalizer.                                           *)

\* A context of normalize_xbrl_statement has no industry, no analyst and no dimensions.
Context == [taxonomy |-> Taxonomy, dims |-> {}, cik |-> Cik, industry |-> None, analyst |-> None]

\* _map_xbrl_to_edgar_facts: where the facts of a document are; the dimensions of a
\* context are dropped.
FactsOf(doc) == {k \in DOMAIN doc : doc[k].usable}

ConceptsOf(doc) == {doc[k].concept : k \in FactsOf(doc)}

\* The first registered concept of those that have facts.
ConceptFor(entry, concepts) ==
    LET found == {i \in DOMAIN entry.concepts : entry.concepts[i] \in concepts}
    IN  IF found = {} THEN None ELSE entry.concepts[Min(found)]

InCurrency(doc, concept) ==
    LET own == {k \in FactsOf(doc) : doc[k].concept = concept}
        preferred == {k \in own : doc[k].unit = Currency}
    IN  IF preferred = {} THEN own ELSE preferred

ChosenByDate(doc, concept) ==  \* mutant: equal dates are not told apart
    LET places == InCurrency(doc, concept)
    IN  doc[Max({k \in places : \A m \in places : doc[m].at <= doc[k].at})]

NoLater(f, g) == f.at < g.at \/ (f.at = g.at /\ f.id <= g.id)

\* The last of the facts sorted by date and id; the sort is stable.
Chosen(doc, concept) ==
    LET places == InCurrency(doc, concept)
    IN  doc[Max({k \in places : \A m \in places : NoLater(doc[m], doc[k])})]

\* _resolve_metric: the engine is asked only if there are rules at all.
Resolve(entry, doc, list) ==
    LET concept == ConceptFor(entry, ConceptsOf(doc))
    IN  IF concept = None THEN [kind |-> "unresolved"]
        ELSE LET fact == Chosen(doc, concept)
                 decision == IF list = <<>> THEN [final |-> entry.metric, by |-> None]
                             ELSE Decision(list, concept, entry.metric, Context)
             IN  IF ~fact.number THEN [kind |-> "invalid"]
                 ELSE IF decision.final = None THEN [kind |-> "suppressed", by |-> decision.by]
                 ELSE [kind |-> "resolved", metric |-> decision.final, by |-> decision.by, fact |-> fact]

\* normalize: EdgarNormalizationError, or the metrics, the later in the registry
\* overwriting the earlier.
Normalized(doc, list) ==
    LET got == [i \in DOMAIN Registry |-> Resolve(Registry[i], doc, list)]
        into(m) == {i \in DOMAIN got : got[i].kind = "resolved" /\ got[i].metric = m}
    IN  IF \E i \in DOMAIN got : got[i].kind = "invalid" THEN [kind |-> "failed"]
        ELSE [kind |-> "payload",
              metrics |-> [m \in {m \in Metrics : into(m) # {}} |-> got[Max(into(m))].fact],
              warned  |-> {i \in DOMAIN got : got[i].kind \in {"unresolved", "suppressed"}},
              got     |-> got]

-----------------------------------------------------------------------------
Init ==
    /\ table \in [Ids -> Contents \cup {None}]
    /\ edits = 0
    /\ document = None
    /\ pending = {}
    /\ rules = <<>>
    /\ result = [kind |-> "none"]
    /\ readAt = <<>>

\* Rules are inserted, changed and deleted outside the program.
EditRule ==
    /\ edits < MaxEdits
    /\ edits' = edits + 1
    /\ \E id \in Ids, c \in Contents \cup {None} :
         /\ c # table[id]
         /\ table' = [table EXCEPT ![id] = c]
    /\ UNCHANGED <<document, pending, rules, result, readAt>>

\* list_rules_for_concept, in no particular order.
Listed(t, concept, taxonomy) ==
    {id \in Ids : t[id] # None /\ t[id].concept = concept /\ t[id].taxonomy \in {None, taxonomy}}

RulesOf(t, concept, taxonomy) == {Rule(t, id) : id \in Listed(t, concept, taxonomy)}

\* The concepts of the document's facts; without facts there is nothing to do.
Call ==
    /\ document = None
    /\ \E doc \in Documents :
         IF FactsOf(doc) = {}
         THEN result' = [kind |-> "nothing"] /\ UNCHANGED <<document, pending>>
         ELSE /\ document' = doc
              /\ pending' = ConceptsOf(doc)
              /\ result' = [kind |-> "none"]
    /\ rules' = <<>>
    /\ readAt' = <<>>
    /\ UNCHANGED <<table, edits>>

\* A rule met again keeps its place and what was read of it first.
Unmet(list) == {r \in list : \A k \in DOMAIN rules : rules[k].id # r.id}

\* _collect_override_rules, one query: of the concept that comes next in their order,
\* its rules in any.
ReadRules ==
    /\ document # None
    /\ \E concept \in pending :
         /\ \A other \in pending : concept <= other
         /\ \E new \in SetToSeqs(Unmet(RulesOf(table, concept, Taxonomy))) : rules' = rules \o new
         /\ readAt' = Append(readAt, [concept |-> concept, table |-> table])
         /\ pending' = pending \ {concept}
    /\ UNCHANGED <<table, edits, document, result>>

Normalize ==
    /\ document # None
    /\ pending = {}
    /\ result' = Normalized(document, rules)
    /\ document' = None
    /\ UNCHANGED <<table, edits, pending, rules, readAt>>

\* A query fails, or the request is cancelled.
Fail ==
    /\ document # None
    /\ document' = None
    /\ pending' = {}
    /\ UNCHANGED <<table, edits, rules, result, readAt>>

\* apply_overrides.
ApplyOverrides ==
    /\ document = None
    /\ \E ctx \in Contexts, concept \in Concepts, base \in Bases :
         /\ \E list \in SetToSeqs(RulesOf(table, concept, ctx.taxonomy)) :
              result' = [kind |-> "decision", ctx |-> ctx, concept |-> concept, base |-> base,
                         decision |-> Decision(list, concept, base, ctx)]
         /\ readAt' = <<[concept |-> concept, table |-> table]>>
    /\ rules' = <<>>
    /\ UNCHANGED <<table, edits, document, pending>>

Next == EditRule \/ Call \/ ReadRules \/ Normalize \/ Fail \/ ApplyOverrides

Spec == Init /\ [][Next]_vars

-----------------------------------------------------------------------------
(* Properties.                                                             *)

Rank(scope) == CHOOSE i \in DOMAIN Scopes : Scopes[i] = scope

Outranks(r, q) ==
    \/ Rank(r.rule.scope) < Rank(q.rule.scope)
    \/ r.rule.scope = q.rule.scope /\ r.rule.priority > q.rule.priority
    \/ r.rule.scope = q.rule.scope /\ r.rule.priority = q.rule.priority /\ r.id < q.id

\* What the table says of a concept: of the rules that apply and match the one that no
\* other outranks decides, whatever it names; a rule that names no metric suppresses.
Verdict(t, concept, base, ctx) ==
    LET all == {r \in {Rule(t, id) : id \in {id \in Ids : t[id] # None}} :
                  Applies(r.rule, concept, ctx) /\ Matches(r.rule, ctx)}
    IN  IF all = {} THEN [final |-> base, by |-> None]
        ELSE LET top == CHOOSE r \in all : \A q \in all \ {r} : Outranks(r, q)
             IN  [final |-> IF top.rule.suppress THEN None ELSE top.rule.target, by |-> top.id]

TableOf(concept) == readAt[CHOOSE k \in DOMAIN readAt : readAt[k].concept = concept].table

\* A rule of the concept had been read as a rule of another.
Moved(concept) ==
    \E k \in DOMAIN rules : /\ rules[k].rule.concept # concept
                            /\ rules[k].id \in Listed(TableOf(concept), concept, Taxonomy)

\* A decision is the one that the order of rules (scope, priority, id) makes over the
\* whole table as it was when the rules of the concept were read, however the table is
\* edited between the reads of a call; only a rule that moves between two concepts
\* during the call can be missed.  A rule without a metric suppresses, as the code has it
\* and the docs of MappingOverrideRule and _compute_final_metric say, not the docstring
\* of the engine, where the base metric stays.  (normalize_xbrl_statement, apply_overrides)
DecidedByTable ==
    /\ result.kind = "decision" =>
         result.decision = Verdict(TableOf(result.concept), result.concept, result.base, result.ctx)
    /\ result.kind = "payload" =>
         \A i \in DOMAIN result.got :
            LET got == result.got[i]
                concept == ConceptFor(Registry[i], {readAt[k].concept : k \in DOMAIN readAt})
            IN  got.kind # "unresolved" /\ ~Moved(concept) =>
                  LET verdict == Verdict(TableOf(concept), concept, Registry[i].metric, Context)
                  IN  /\ got.by = verdict.by
                      /\ (got.kind = "suppressed") = (verdict.final = None)
                      /\ got.kind = "resolved" => got.metric = verdict.final

Untied(doc) ==
    \A k, m \in FactsOf(doc) : k # m => ~(doc[k].id = doc[m].id /\ doc[k].at = doc[m].at)

\* The payload does not depend on the order of the document's facts, nor on the order in
\* which the rules were returned, as long as facts can be told apart by date and id.
\* ("no reliance on iteration order", edgar_normalization)
OrderIsIrrelevant ==
    document # None /\ pending = {} /\ Untied(document) =>
        Normalized(document, rules) = Normalized(Reverse(document), Reverse(rules))
=============================================================================
