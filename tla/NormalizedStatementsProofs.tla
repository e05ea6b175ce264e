---------------------- MODULE NormalizedStatementsProofs ----------------------
(***************************************************************************)
(* The engine's decision is the documented precedence, and a normalized    *)
(* statement follows it over the table as it was read, for any rules, any  *)
(* registry and documents, and any edits between the queries of a call.    *)
(* What a data-quality run stores and what the overlay answers, for any    *)
(* number of concurrent use cases, any facts, metrics and statements.      *)
(* What a sync or an ingest that returned has put into the tables, for any *)
(* document the provider may show and correct, any requests and any number *)
(* of concurrent calls.                                                    *)
(***************************************************************************)
EXTENDS NormalizedStatements, FunctionTheorems, FiniteSetTheorems, WellFoundedInduction, TLAPS

-----------------------------------------------------------------------------
(* Numbers and lists.                                                      *)

LEMMA NatIsWellFounded ==
    \E R : IsWellFoundedOn(R, Nat) /\ \A x, y \in Nat : x < y => <<x, y>> \in R
<1>1. \A x, y \in Nat : x < y => <<x, y>> \in OpToRel(<, Nat)
    BY DEF OpToRel
<1> QED
    BY <1>1, NatLessThanWellFounded, Zenon

LEMMA MinimalElement ==
    ASSUME NEW S, S \subseteq Nat, S # {}, NEW R, IsWellFoundedOn(R, Nat)
    PROVE  \E x \in S : \A y \in S : ~(<<y, x>> \in R)
BY WFMin

\* A set of numbers has a least one.
LEMMA LeastNumber ==
    ASSUME NEW S \in SUBSET Nat, S # {}
    PROVE  \E m \in S : \A n \in S : m <= n
<1>0. PICK R : IsWellFoundedOn(R, Nat) /\ \A x, y \in Nat : x < y => <<x, y>> \in R
    BY NatIsWellFounded, Zenon
<1>1. PICK m \in S : \A y \in S : ~(<<y, m>> \in R)
    BY <1>0, MinimalElement
<1>2. \A y \in S : ~(y < m)
    BY <1>0, <1>1, Zenon
<1> QED
    BY <1>2, SMT

LEMMA MinIsLeast ==
    ASSUME NEW S \in SUBSET Nat, S # {}
    PROVE  Min(S) \in S /\ \A n \in S : Min(S) <= n
<1>1. \E m \in S : \A n \in S : m <= n
    BY LeastNumber
<1> QED
    BY <1>1 DEF Min

\* Of finitely many things in a strict total order one is before all others.
LEMMA FirstOfFinite ==
    ASSUME NEW S, IsFiniteSet(S), S # {}, NEW before \in [S -> SUBSET S],
           \A p \in S : p \notin before[p],
           \A p, o \in S : p # o => p \in before[o] \/ o \in before[p],
           \A p, o, q \in S : p \in before[o] /\ o \in before[q] => p \in before[q]
    PROVE  \E first \in S : \A q \in S \ {first} : first \in before[q]
<1> DEFINE Sizes == {Cardinality(before[r]) : r \in S}
<1>1. \A r \in S : IsFiniteSet(before[r]) /\ Cardinality(before[r]) \in Nat
    BY FS_Subset, FS_CardinalityType
<1>2. PICK n \in Sizes : \A m \in Sizes : n <= m
  <2>1. Sizes \in SUBSET Nat /\ Sizes # {}
      BY <1>1
  <2> HIDE DEF Sizes
  <2> QED
      BY <2>1, LeastNumber
<1>3. PICK first \in S : n = Cardinality(before[first])
    BY <1>2
<1>4. ASSUME NEW q \in S \ {first}, first \notin before[q] PROVE FALSE
  <2>1. q \in before[first]
      BY <1>4
  <2>2. before[q] \subseteq before[first] \ {q}
      BY <2>1
  <2>3. IsFiniteSet(before[first]) /\ Cardinality(before[first]) \in Nat /\ Cardinality(before[q]) \in Nat
      BY <1>1
  <2>4. Cardinality(before[first]) <= Cardinality(before[q])
      BY <1>2, <1>3
  <2>5. /\ IsFiniteSet(before[first] \ {q})
        /\ Cardinality(before[first] \ {q}) = Cardinality(before[first]) - 1
      BY <2>1, <2>3, FS_RemoveElement
  <2>6. Cardinality(before[q]) <= Cardinality(before[first] \ {q})
      BY <2>2, <2>5, FS_Subset
  <2> QED
      BY <2>3, <2>4, <2>5, <2>6
<1> QED
    BY <1>4

\* The list a query returns holds every row of its answer and no other.
LEMMA ListsAreWhole ==
    ASSUME NEW S, IsFiniteSet(S), NEW list \in SetToSeqs(S)
    PROVE  /\ list \in Seq(S) /\ ToSet(list) = S
           /\ \A i, j \in DOMAIN list : i # j => list[i] # list[j]
<1> DEFINE D == 1..Cardinality(S)
<1>1. Cardinality(S) \in Nat
    BY FS_CardinalityType
<1>2. list \in [D -> S] /\ \A i, j \in D : i # j => list[i] # list[j]
    BY DEF SetToSeqs
<1>3. IsFiniteSet(D) /\ Cardinality(D) = Cardinality(S)
    BY <1>1, FS_Interval
<1>4. ASSUME NEW s \in S PROVE s \in ToSet(list)
  <2>1. SUFFICES ASSUME s \notin ToSet(list) PROVE FALSE
      OBVIOUS
  <2>2. list \in [D -> S \ {s}]
      BY <1>2, <2>1 DEF ToSet
  <2>3. IsFiniteSet(S \ {s}) /\ Cardinality(S \ {s}) = Cardinality(S) - 1
      BY FS_RemoveElement
  <2>4. Cardinality(S \ {s}) < Cardinality(D)
      BY <1>1, <1>3, <2>3
  <2> HIDE DEF D
  <2>5. \E i, j \in D : i # j /\ list[i] = list[j]
      BY <1>3, <2>2, <2>3, <2>4, FS_PigeonHole
  <2> QED
      BY <1>2, <2>5
<1>5. list \in Seq(S)
    BY <1>1, <1>2
<1> QED
    BY <1>2, <1>4, <1>5 DEF ToSet

-----------------------------------------------------------------------------
(* Precedence.                                                             *)

LEMMA RulesRank ==
    /\ ToSet(Scopes) = {"ANALYST", "COMPANY", "INDUSTRY", "GLOBAL"}
    /\ DOMAIN Scopes = 1..4
    /\ \A i \in 1..4 : Rank(Scopes[i]) = i
    /\ \A s \in ToSet(Scopes) : Rank(s) \in 1..4 /\ Scopes[Rank(s)] = s
<1>1. /\ DOMAIN Scopes = 1..4
      /\ Scopes[1] = "ANALYST" /\ Scopes[2] = "COMPANY"
      /\ Scopes[3] = "INDUSTRY" /\ Scopes[4] = "GLOBAL"
    BY DEF Scopes
<1>2. ToSet(Scopes) = {"ANALYST", "COMPANY", "INDUSTRY", "GLOBAL"}
    BY <1>1 DEF ToSet
<1>3. \A i \in 1..4 : Rank(Scopes[i]) = i
    BY <1>1 DEF Rank
<1> QED
    BY <1>1, <1>2, <1>3

\* A set of rules of the table: ids tell them apart.
IsRuleSet(S) ==
    /\ IsFiniteSet(S)
    /\ \A r \in S : r.id \in Nat /\ r.rule.priority \in Int /\ r.rule.scope \in ToSet(Scopes)
    /\ \A r, q \in S : r.id = q.id => r = q

LEMMA OutranksIsAnOrder ==
    ASSUME NEW S, IsRuleSet(S), NEW r \in S, NEW q \in S
    PROVE  /\ ~Outranks(r, r)
           /\ r # q => Outranks(r, q) \/ Outranks(q, r)
           /\ Outranks(r, q) => ~Outranks(q, r)
           /\ \A p \in S : Outranks(r, q) /\ Outranks(q, p) => Outranks(r, p)
<1>1. ASSUME NEW p \in S
      PROVE  /\ p.id \in Nat /\ p.rule.priority \in Int
             /\ Rank(p.rule.scope) \in 1..4
             /\ Scopes[Rank(p.rule.scope)] = p.rule.scope
    BY RulesRank DEF IsRuleSet
<1>2. \A p, o \in S : Rank(p.rule.scope) = Rank(o.rule.scope) <=> p.rule.scope = o.rule.scope
    BY <1>1
<1>3. \A p, o \in S :
        Outranks(p, o) <=>
            \/ Rank(p.rule.scope) < Rank(o.rule.scope)
            \/ /\ Rank(p.rule.scope) = Rank(o.rule.scope)
               /\ \/ p.rule.priority > o.rule.priority
                  \/ p.rule.priority = o.rule.priority /\ p.id < o.id
    BY <1>2 DEF Outranks
<1>4. r # q => r.id # q.id
    BY DEF IsRuleSet
<1> QED
    BY <1>1, <1>3, <1>4

IsTop(S, top) == top \in S /\ \A q \in S \ {top} : Outranks(top, q)

LEMMA OneTop ==
    ASSUME NEW S, IsRuleSet(S), NEW r, NEW q, IsTop(S, r), IsTop(S, q)
    PROVE  r = q
BY OutranksIsAnOrder DEF IsTop

LEMMA HasTop ==
    ASSUME NEW S, IsRuleSet(S), S # {}
    PROVE  \E top \in S : IsTop(S, top)
<1> DEFINE above == [q \in S |-> {p \in S : Outranks(p, q)}]
<1>1. \A p, o \in S : p \in above[o] <=> Outranks(p, o)
    OBVIOUS
<1>2. above \in [S -> SUBSET S]
    OBVIOUS
<1> HIDE DEF above
<1>3. /\ \A p \in S : p \notin above[p]
      /\ \A p, o \in S : p # o => p \in above[o] \/ o \in above[p]
      /\ \A p, o, q \in S : p \in above[o] /\ o \in above[q] => p \in above[q]
    BY <1>1, OutranksIsAnOrder
<1>4. IsFiniteSet(S)
    BY DEF IsRuleSet
<1>5. PICK top \in S : \A q \in S \ {top} : top \in above[q]
    BY <1>2, <1>3, <1>4, FirstOfFinite
<1> QED
    BY <1>1, <1>5 DEF IsTop

\* The rules of a list that apply to a concept and match a context.
Matched(list, concept, ctx) ==
    {r \in ToSet(list) : Applies(r.rule, concept, ctx) /\ Matches(r.rule, ctx)}

\* The engine's search by scope finds the one rule no other outranks.
LEMMA WinnerIsTop ==
    ASSUME NEW list, NEW concept, NEW ctx, IsRuleSet(Matched(list, concept, ctx))
    PROVE  /\ Matched(list, concept, ctx) = {} => Winner(list, concept, ctx) = {}
           /\ \A top : IsTop(Matched(list, concept, ctx), top) =>
                Winner(list, concept, ctx) = {top}
<1> DEFINE S == Matched(list, concept, ctx)
           Here(i) == MatchingIn(Scopes[i], list, concept, ctx)
           matched == {i \in DOMAIN Scopes : Here(i) # {}}
           best == IF matched = {} THEN {} ELSE Here(Min(matched))
<1>1. \A i \in 1..4 : Here(i) = {r \in S : r.rule.scope = Scopes[i]}
    BY DEF MatchingIn, Matched
<1>2. Winner(list, concept, ctx) =
        {r \in best : \A q \in best : \/ q.rule.priority < r.rule.priority
                                      \/ q.rule.priority = r.rule.priority /\ r.id <= q.id}
    BY DEF Winner
<1>3. matched \in SUBSET Nat /\ matched \subseteq 1..4
    BY RulesRank
<1>4. ASSUME S = {} PROVE Winner(list, concept, ctx) = {}
  <2>1. matched = {}
      BY <1>1, <1>3, <1>4
  <2> QED
      BY <1>2, <2>1
<1>5. ASSUME NEW top, IsTop(S, top) PROVE Winner(list, concept, ctx) = {top}
  <2> DEFINE t == Rank(top.rule.scope)
  <2>1. /\ top \in S /\ t \in 1..4 /\ Scopes[t] = top.rule.scope
        /\ \A q \in S : q.id \in Nat /\ q.rule.priority \in Int /\ q.rule.scope \in ToSet(Scopes)
      BY <1>5, RulesRank DEF IsTop, IsRuleSet
  <2>2. t \in matched
      BY <1>1, <2>1, RulesRank
  <2>3. ASSUME NEW i \in matched PROVE t <= i
    <3>1. PICK q \in S : q.rule.scope = Scopes[i]
        BY <1>1, <1>3, <2>3
    <3>2. Rank(q.rule.scope) = i
        BY <1>3, <3>1, RulesRank
    <3>3. q # top => Outranks(top, q)
        BY <1>5 DEF IsTop
    <3> QED
        BY <1>3, <2>1, <3>2, <3>3 DEF Outranks
  <2> HIDE DEF matched, t
  <2>4. Min(matched) \in matched /\ \A i \in matched : Min(matched) <= i
      BY <1>3, <2>2, MinIsLeast
  <2>5. Min(matched) = t
    <3>1. Min(matched) <= t /\ t <= Min(matched)
        BY <2>2, <2>3, <2>4
    <3>2. Min(matched) \in 1..4 /\ t \in 1..4
        BY <1>3, <2>2, <2>4
    <3> QED
        BY <3>1, <3>2
  <2>6. best = {r \in S : r.rule.scope = top.rule.scope}
      BY <1>1, <2>1, <2>2, <2>5
  <2> HIDE DEF best, S
  <2>7. top \in best
      BY <2>1, <2>6
  <2>8. ASSUME NEW q \in best, q # top
        PROVE  /\ \/ q.rule.priority < top.rule.priority
                  \/ q.rule.priority = top.rule.priority /\ top.id < q.id
               /\ q.rule.priority \in Int /\ q.id \in Nat
    <3>1. q \in S /\ q.rule.scope = top.rule.scope
        BY <2>6
    <3>2. Outranks(top, q)
        BY <1>5, <2>8, <3>1 DEF IsTop
    <3>3. ~(Rank(top.rule.scope) < Rank(q.rule.scope))
        BY <2>1, <3>1 DEF t
    <3> QED
        BY <2>1, <3>1, <3>2, <3>3 DEF Outranks
  <2>9. top.rule.priority \in Int /\ top.id \in Nat
      BY <2>1
  <2>10. ASSUME NEW r
         PROVE  r \in Winner(list, concept, ctx) <=> r = top
    <3>1. ASSUME r \in Winner(list, concept, ctx), r # top PROVE FALSE
      <4>1. r \in best /\ \/ top.rule.priority < r.rule.priority
                          \/ top.rule.priority = r.rule.priority /\ r.id <= top.id
          BY <1>2, <2>7, <3>1
      <4> QED
          BY <2>8, <2>9, <3>1, <4>1
    <3>2. \A q \in best : \/ q.rule.priority < top.rule.priority
                          \/ q.rule.priority = top.rule.priority /\ top.id <= q.id
        BY <2>8, <2>9
    <3>3. top \in Winner(list, concept, ctx)
        BY <1>2, <2>7, <3>2
    <3> QED
        BY <3>1, <3>3
  <2> QED
      BY <2>10
<1> QED
    BY <1>4, <1>5

\* The table as it may be.
IsTable(t) == t \in [Ids -> Contents \cup {None}]

InTable(t) == {Rule(t, id) : id \in {id \in Ids : t[id] # None}}

LEMMA TablesAreRuleSets ==
    ASSUME NEW t, IsTable(t), NEW S, S \subseteq InTable(t)
    PROVE  IsRuleSet(S)
<1>1. IsFiniteSet(InTable(t))
  <2> DEFINE ids == {id \in Ids : t[id] # None}
             rows == [id \in ids |-> Rule(t, id)]
  <2>1. IsFiniteSet(ids)
      BY NormalizationAssumption, FS_Subset DEF NormalizationAssumption
  <2>2. rows \in Surjection(ids, InTable(t))
      BY DEF Surjection, InTable
  <2> HIDE DEF rows, ids
  <2> QED
      BY <2>1, <2>2, FS_Surjection
<1>2. IsFiniteSet(S)
    BY <1>1, FS_Subset
<1>3. ASSUME NEW r \in S
      PROVE  /\ r.id \in Ids /\ r = Rule(t, r.id) /\ r.rule = t[r.id] /\ r.rule \in Contents
    BY DEF InTable, Rule, IsTable
<1>4. Ids \subseteq Nat /\ \A c \in Contents : c.scope \in ToSet(Scopes) /\ c.priority \in Int
    BY NormalizationAssumption DEF NormalizationAssumption, IsContent
<1> QED
    BY <1>2, <1>3, <1>4 DEF IsRuleSet

\* The decision over a list is the verdict over a table with the same rules of the concept.
LEMMA SameDecision ==
    ASSUME NEW t, IsTable(t), NEW list, NEW concept, NEW base, NEW ctx,
           {r \in ToSet(list) : Applies(r.rule, concept, ctx)} =
               {r \in InTable(t) : Applies(r.rule, concept, ctx)}
    PROVE  Decision(list, concept, base, ctx) = Verdict(t, concept, base, ctx)
<1> DEFINE all == {r \in InTable(t) : Applies(r.rule, concept, ctx) /\ Matches(r.rule, ctx)}
<1>1. Matched(list, concept, ctx) = all
    BY DEF Matched
<1>2. IsRuleSet(all)
    BY TablesAreRuleSets
<1>3. Verdict(t, concept, base, ctx) =
        IF all = {} THEN [final |-> base, by |-> None]
        ELSE LET top == CHOOSE r \in all : \A q \in all \ {r} : Outranks(r, q)
             IN  [final |-> Target(top.rule), by |-> top.id]
    BY DEF Verdict, InTable, Target
<1> HIDE DEF all
<1>4. CASE all = {}
  <2>1. Winner(list, concept, ctx) = {}
      BY <1>1, <1>2, <1>4, WinnerIsTop
  <2> QED
      BY <1>3, <1>4, <2>1 DEF Decision
<1>5. CASE all # {}
  <2>1. PICK top : IsTop(all, top)
      BY <1>2, <1>5, HasTop
  <2>2. Winner(list, concept, ctx) = {top}
      BY <1>1, <1>2, <2>1, WinnerIsTop
  <2>3. (CHOOSE r \in Winner(list, concept, ctx) : TRUE) = top
      BY <2>2
  <2>4. (CHOOSE r \in all : \A q \in all \ {r} : Outranks(r, q)) = top
    <3>1. top \in all /\ \A q \in all \ {top} : Outranks(top, q)
        BY <2>1 DEF IsTop
    <3>2. \A r \in all : (\A q \in all \ {r} : Outranks(r, q)) => r = top
        BY <1>2, <2>1, OneTop DEF IsTop
    <3> QED
        BY <3>1, <3>2
  <2> QED
      BY <1>3, <1>5, <2>2, <2>3, <2>4 DEF Decision
<1> QED
    BY <1>4, <1>5

\* A query returns the rules that apply, those of a missing taxonomy included.
LEMMA RulesOfApply ==
    ASSUME NEW t, IsTable(t), NEW concept, NEW ctx
    PROVE  /\ RulesOf(t, concept, ctx.taxonomy) =
                  {r \in InTable(t) : Applies(r.rule, concept, ctx)}
           /\ IsFiniteSet(RulesOf(t, concept, ctx.taxonomy))
<1>1. RulesOf(t, concept, ctx.taxonomy) = {r \in InTable(t) : Applies(r.rule, concept, ctx)}
    BY DEF RulesOf, Listed, InTable, Rule, Applies
<1>2. IsFiniteSet(InTable(t))
    BY TablesAreRuleSets DEF IsRuleSet
<1> QED
    BY <1>1, <1>2, FS_Subset

-----------------------------------------------------------------------------
(* The inductive invariant.                                                *)

Row == [id : Ids, rule : Contents]
ReadsOfRules == [concept : ConceptsOf(document),
          table : [Ids -> Contents \cup {None}]]

\* What a query returned.
Returned(read) == RulesOf(read.table, read.concept, Taxonomy)

\* What is collected while a call reads: every concept is read once or still to be read,
\* every rule was read at one of the queries, and every rule a query returned is there
\* once, as that query or an earlier one read it.
ReadInv ==
    document # None =>
        /\ document \in Documents /\ result.kind = "none"
        /\ \A j, l \in DOMAIN rules : rules[j].id = rules[l].id => j = l
        /\ rules \in Seq(Row) /\ readAt \in Seq(ReadsOfRules)
        /\ pending \cup {readAt[k].concept : k \in DOMAIN readAt} =
              ConceptsOf(document)
        /\ \A k \in DOMAIN readAt : readAt[k].concept \notin pending
        /\ \A k, m \in DOMAIN readAt : readAt[k].concept = readAt[m].concept => k = m
        /\ \A j \in DOMAIN rules : \E k \in DOMAIN readAt : rules[j] \in Returned(readAt[k])
        /\ \A k \in DOMAIN readAt : \A r \in Returned(readAt[k]) :
              \E j \in DOMAIN rules : rules[j].id = r.id

IInv == IsTable(table) /\ ReadInv /\ DecidedByTable

LEMMA InitInv == Init => IInv
BY DEF Init, IInv, IsTable, ReadInv, DecidedByTable

\* What was collected decides as the table would, unless a rule has moved.
LEMMA CollectedDecide ==
    ASSUME ReadInv, document # None, NEW k \in DOMAIN readAt,
           ~Moved(readAt[k].concept), NEW base
    PROVE  /\ TableOf(readAt[k].concept) = readAt[k].table
           /\ Decision(rules, readAt[k].concept, base, Context) =
                  Verdict(readAt[k].table, readAt[k].concept, base, Context)
<1> DEFINE concept == readAt[k].concept
           t == readAt[k].table
<1>0. readAt \in Seq(ReadsOfRules)
    BY DEF ReadInv
<1>1. /\ IsTable(t)
      /\ \A j \in DOMAIN rules : \E m \in DOMAIN readAt : rules[j] \in Returned(readAt[m])
      /\ \A m \in DOMAIN readAt : readAt[m].concept = concept => m = k
      /\ \A r \in Returned(readAt[k]) : \E j \in DOMAIN rules : rules[j].id = r.id
  <2>1. readAt[k] \in ReadsOfRules
      BY <1>0
  <2> QED
      BY <2>1 DEF ReadInv, ReadsOfRules, IsTable
<1>2. TableOf(concept) = t
  <2>1. (CHOOSE m \in DOMAIN readAt : readAt[m].concept = concept) = k
      BY <1>1
  <2> QED
      BY <2>1 DEF TableOf
<1>3. ASSUME NEW j \in DOMAIN rules, rules[j].rule.concept = concept
      PROVE  rules[j] \in Returned(readAt[k])
  <2>1. PICK m \in DOMAIN readAt : rules[j] \in Returned(readAt[m])
      BY <1>1
  <2>2. rules[j].rule.concept = readAt[m].concept
      BY <2>1 DEF Returned, RulesOf, Listed, Rule
  <2> QED
      BY <1>1, <1>3, <2>1, <2>2
<1>4. ASSUME NEW r \in Returned(readAt[k])
      PROVE  \E j \in DOMAIN rules : rules[j] = r
  <2>1. PICK j \in DOMAIN rules : rules[j].id = r.id
      BY <1>1
  <2>2. r.id \in Listed(t, concept, Taxonomy) /\ r = Rule(t, r.id)
      BY DEF Returned, RulesOf, Rule
  <2>3. rules[j].rule.concept = concept
      BY <1>2, <2>1, <2>2 DEF Moved
  <2>4. rules[j] \in Returned(readAt[k])
      BY <1>3, <2>3
  <2>5. rules[j] = Rule(t, rules[j].id)
      BY <2>4 DEF Returned, RulesOf, Rule
  <2> QED
      BY <2>1, <2>2, <2>5
<1>5. Returned(readAt[k]) = {r \in InTable(t) : Applies(r.rule, concept, Context)}
  <2>1. Context.taxonomy = Taxonomy
      BY DEF Context
  <2> HIDE DEF t, concept
  <2>2. RulesOf(t, concept, Context.taxonomy) = {r \in InTable(t) : Applies(r.rule, concept, Context)}
      BY <1>1, RulesOfApply
  <2> QED
      BY <2>1, <2>2 DEF Returned, t, concept
<1>6. {r \in ToSet(rules) : Applies(r.rule, concept, Context)} = Returned(readAt[k])
  <2>1. \A r \in Returned(readAt[k]) : Applies(r.rule, concept, Context)
      BY <1>5
  <2>2. \A r : Applies(r.rule, concept, Context) => r.rule.concept = concept
      BY DEF Applies
  <2> QED
      BY <1>3, <1>4, <2>1, <2>2 DEF ToSet
<1> HIDE DEF t, concept
<1>7. Decision(rules, concept, base, Context) = Verdict(t, concept, base, Context)
    BY <1>1, <1>5, <1>6, SameDecision
<1> QED
    BY <1>2, <1>7 DEF t, concept


-----------------------------------------------------------------------------
(* The steps.                                                              *)

LEMMA UnchangedKeeps ==
    ASSUME IInv, UNCHANGED <<document, pending, rules, result, readAt>>, IsTable(table')
    PROVE  IInv'
<1>1. UNCHANGED document /\ UNCHANGED pending /\ UNCHANGED rules /\ UNCHANGED result /\ UNCHANGED readAt
    OBVIOUS
<1>2. ReadInv'
  <2>1. ReadsOfRules' = ReadsOfRules
      BY <1>1 DEF ReadsOfRules
  <2> QED
      BY <1>1, <2>1 DEF IInv, ReadInv
<1>3. \A concept : TableOf(concept)' = TableOf(concept)
    BY <1>1 DEF TableOf
<1>4. \A concept : Moved(concept)' <=> Moved(concept)
    BY <1>1, <1>3 DEF Moved
<1>5. {readAt'[k].concept : k \in DOMAIN readAt'} = {readAt[k].concept : k \in DOMAIN readAt}
    BY <1>1
<1>6. DecidedByTable'
    BY <1>1, <1>3, <1>4, <1>5 DEF IInv, DecidedByTable
<1> QED
    BY <1>2, <1>6 DEF IInv

LEMMA EditRuleStep ==
    ASSUME IInv, EditRule
    PROVE  IInv'
<1>1. IsTable(table')
    BY NormalizationAssumption DEF EditRule, IInv, IsTable, NormalizationAssumption
<1> QED
    BY <1>1, UnchangedKeeps DEF EditRule

LEMMA CallStep ==
    ASSUME IInv, Call
    PROVE  IInv'
<1>1. PICK doc \in Documents :
         IF FactsOf(doc) = {}
         THEN result' = [kind |-> "nothing"] /\ UNCHANGED <<document, pending>>
         ELSE /\ document' = doc
              /\ pending' = ConceptsOf(doc)
              /\ result' = [kind |-> "none"]
    BY DEF Call
<1>2. document = None /\ rules' = <<>> /\ readAt' = <<>> /\ table' = table
    BY DEF Call
<1>3. DecidedByTable'
    BY <1>1 DEF DecidedByTable
<1>4. ReadInv'
  <2>1. CASE FactsOf(doc) = {}
      BY <1>1, <1>2, <2>1 DEF ReadInv
  <2>2. CASE FactsOf(doc) # {}
    <3>1. /\ pending' = ConceptsOf(document') /\ result'.kind = "none" /\ document' \in Documents
          /\ rules' \in Seq(Row) /\ readAt' \in Seq(ReadsOfRules') /\ DOMAIN rules' = {} /\ DOMAIN readAt' = {}
        BY <1>1, <1>2, <2>2
    <3> QED
        BY <3>1 DEF ReadInv
  <2> QED
      BY <2>1, <2>2
<1> QED
    BY <1>2, <1>3, <1>4 DEF IInv, IsTable

LEMMA ReadRulesStep ==
    ASSUME IInv, ReadRules
    PROVE  IInv'
<1>1. PICK concept \in pending :
        /\ \E new \in SetToSeqs(Unmet(RulesOf(table, concept, Taxonomy))) : rules' = rules \o new
        /\ readAt' = Append(readAt, [concept |-> concept, table |-> table])
        /\ pending' = pending \ {concept}
    BY DEF ReadRules
<1>2. document # None /\ UNCHANGED <<table, document, result>>
    BY DEF ReadRules
<1> DEFINE listed == RulesOf(table, concept, Taxonomy)
<1>3. PICK new \in SetToSeqs(Unmet(listed)) : rules' = rules \o new
    BY <1>1
<1>4. /\ IsTable(table) /\ result.kind = "none" /\ document \in Documents
      /\ \A j, l \in DOMAIN rules : rules[j].id = rules[l].id => j = l
      /\ rules \in Seq(Row) /\ readAt \in Seq(ReadsOfRules)
      /\ pending \cup {readAt[k].concept : k \in DOMAIN readAt} = ConceptsOf(document)
      /\ \A k \in DOMAIN readAt : readAt[k].concept \notin pending
      /\ \A k, m \in DOMAIN readAt : readAt[k].concept = readAt[m].concept => k = m
      /\ \A j \in DOMAIN rules : \E k \in DOMAIN readAt : rules[j] \in Returned(readAt[k])
      /\ \A k \in DOMAIN readAt : \A r \in Returned(readAt[k]) : \E j \in DOMAIN rules : rules[j].id = r.id
    BY <1>2 DEF IInv, ReadInv
<1>5. listed \subseteq Row
    BY <1>4 DEF RulesOf, Listed, Rule, Row, IsTable
<1>6. IsFiniteSet(listed)
  <2>1. Context.taxonomy = Taxonomy
      BY DEF Context
  <2> QED
      BY <1>4, <2>1, RulesOfApply
<1>7. /\ new \in Seq(Unmet(listed)) /\ ToSet(new) = Unmet(listed)
      /\ \A j, l \in DOMAIN new : j # l => new[j] # new[l]
  <2>1. IsFiniteSet(Unmet(listed))
      BY <1>6, FS_Subset DEF Unmet
  <2> HIDE DEF listed
  <2> QED
      BY <2>1, ListsAreWhole
<1>8. /\ Unmet(listed) \subseteq listed
      /\ \A r \in listed \ Unmet(listed) : \E j \in DOMAIN rules : rules[j].id = r.id
    BY DEF Unmet
<1>20. \A r, q \in listed : r.id = q.id => r = q
    BY DEF RulesOf, Rule
<1> HIDE DEF listed
<1>9. new \in Seq(Row)
    BY <1>5, <1>7, <1>8
<1>10. /\ rules' \in Seq(Row)
       /\ DOMAIN rules' = 1 .. Len(rules) + Len(new)
       /\ \A j \in DOMAIN rules : j \in DOMAIN rules' /\ rules'[j] = rules[j]
       /\ \A j \in DOMAIN new : Len(rules) + j \in DOMAIN rules' /\ rules'[Len(rules) + j] = new[j]
    BY <1>3, <1>4, <1>9
<1>0. PICK n \in Nat : n = Len(readAt)
    BY <1>4
<1>11. /\ readAt' \in Seq(ReadsOfRules')
       /\ DOMAIN readAt = 1..n /\ DOMAIN readAt' = 1 .. n + 1
       /\ \A k \in DOMAIN readAt : readAt'[k] = readAt[k]
       /\ readAt'[n + 1] = [concept |-> concept, table |-> table]
  <2>1. [concept |-> concept, table |-> table] \in ReadsOfRules
      BY <1>4 DEF ReadsOfRules, IsTable
  <2>2. ReadsOfRules' = ReadsOfRules
      BY <1>2 DEF ReadsOfRules
  <2> QED
      BY <1>0, <1>1, <1>4, <2>1, <2>2
<1>12. /\ \A k \in DOMAIN readAt : Returned(readAt'[k]) = Returned(readAt[k])
       /\ Returned(readAt'[n + 1]) = listed
    BY <1>11 DEF Returned, listed
<1>13. pending' \cup {readAt'[k].concept : k \in DOMAIN readAt'} = ConceptsOf(document')
  <2>1. {readAt'[k].concept : k \in DOMAIN readAt'} =
            {readAt[k].concept : k \in DOMAIN readAt} \cup {concept}
      BY <1>11
  <2> QED
      BY <1>1, <1>2, <1>4, <2>1
<1>14. \A k \in DOMAIN readAt' : readAt'[k].concept \notin pending'
    BY <1>1, <1>4, <1>11
<1>15. \A k, m \in DOMAIN readAt' : readAt'[k].concept = readAt'[m].concept => k = m
    BY <1>1, <1>4, <1>11
<1>16. ASSUME NEW j \in DOMAIN rules' PROVE \E k \in DOMAIN readAt' : rules'[j] \in Returned(readAt'[k])
  <2>1. CASE j \in DOMAIN rules
      BY <1>4, <1>10, <1>11, <1>12, <2>1
  <2>2. CASE j \notin DOMAIN rules
    <3>1. j - Len(rules) \in DOMAIN new /\ j = Len(rules) + (j - Len(rules))
        BY <1>4, <1>9, <1>10, <2>2
    <3>2. rules'[j] = new[j - Len(rules)]
        BY <1>10, <3>1
    <3>3. rules'[j] \in listed
        BY <1>7, <1>8, <3>1, <3>2 DEF ToSet
    <3> QED
        BY <1>11, <1>12, <3>3
  <2> QED
      BY <2>1, <2>2
<1>17. ASSUME NEW k \in DOMAIN readAt', NEW r \in Returned(readAt'[k])
       PROVE  \E j \in DOMAIN rules' : rules'[j].id = r.id
  <2>1. CASE k \in DOMAIN readAt
    <3>1. r \in Returned(readAt[k])
        BY <1>12, <2>1
    <3>2. PICK j \in DOMAIN rules : rules[j].id = r.id
        BY <1>4, <2>1, <3>1
    <3>3. j \in DOMAIN rules' /\ rules'[j] = rules[j]
        BY <1>10
    <3> QED
        BY <3>2, <3>3
  <2>2. CASE k = n + 1
    <3>1. r \in listed
        BY <1>12, <2>2
    <3>2. CASE r \in Unmet(listed)
      <4>1. PICK j \in DOMAIN new : new[j] = r
          BY <1>7, <3>2 DEF ToSet
      <4> QED
          BY <1>10, <4>1
    <3>3. CASE r \notin Unmet(listed)
        BY <1>8, <1>10, <3>1, <3>3
    <3> QED
        BY <3>2, <3>3
  <2> QED
      BY <1>11, <2>1, <2>2
<1>21. \A j, l \in DOMAIN rules' : rules'[j].id = rules'[l].id => j = l
  <2>1. ASSUME NEW j \in DOMAIN rules'
        PROVE  \/ j \in DOMAIN rules /\ rules'[j] = rules[j]
               \/ /\ j \notin DOMAIN rules
                  /\ j - Len(rules) \in DOMAIN new /\ rules'[j] = new[j - Len(rules)]
    <3>1. j \notin DOMAIN rules => j - Len(rules) \in DOMAIN new /\ j = Len(rules) + (j - Len(rules))
        BY <1>4, <1>9, <1>10
    <3> QED
        BY <1>10, <3>1
  <2>2. ASSUME NEW j \in DOMAIN new
        PROVE  new[j] \in listed /\ \A l \in DOMAIN rules : rules[l].id # new[j].id
    <3>1. new[j] \in Unmet(listed)
        BY <1>7
    <3> QED
        BY <1>8, <3>1 DEF Unmet
  <2>3. ASSUME NEW j \in DOMAIN rules', NEW l \in DOMAIN rules', rules'[j].id = rules'[l].id,
               j \notin DOMAIN rules, l \notin DOMAIN rules
        PROVE  j = l
    <3>1. new[j - Len(rules)] = new[l - Len(rules)]
        BY <1>20, <2>1, <2>2, <2>3
    <3>2. j - Len(rules) = l - Len(rules)
        BY <1>7, <2>1, <2>3, <3>1
    <3> QED
        BY <1>4, <1>9, <1>10, <3>2
  <2> QED
      BY <1>4, <2>1, <2>2, <2>3
<1>18. ReadInv'
    BY <1>21, <1>2, <1>4, <1>10, <1>11, <1>13, <1>14, <1>15, <1>16, <1>17 DEF ReadInv, Row
<1>19. DecidedByTable'
    BY <1>2, <1>4 DEF DecidedByTable
<1> QED
    BY <1>2, <1>4, <1>18, <1>19 DEF IInv, IsTable


\* The concept of a metric is the same among the facts and among what was read.
LEMMA SameConcept ==
    ASSUME ReadInv, document # None, pending = {}, NEW i \in DOMAIN Registry
    PROVE  LET concept == ConceptFor(Registry[i], ConceptsOf(document))
           IN  /\ ConceptFor(Registry[i], {readAt[k].concept : k \in DOMAIN readAt}) = concept
               /\ concept # None => \E k \in DOMAIN readAt : readAt[k].concept = concept
<1> DEFINE concepts == ConceptsOf(document)
           entry == Registry[i]
           hits == {m \in DOMAIN entry.concepts : entry.concepts[m] \in concepts}
<1>1. {readAt[k].concept : k \in DOMAIN readAt} = concepts
    BY DEF ReadInv
<1> HIDE DEF concepts
<1>2. ConceptFor(entry, concepts) = IF hits = {} THEN None ELSE entry.concepts[Min(hits)]
    BY DEF ConceptFor
<1>3. hits \in SUBSET Nat
    BY NormalizationAssumption DEF NormalizationAssumption
<1>4. ASSUME hits # {} PROVE entry.concepts[Min(hits)] \in concepts
  <2>1. Min(hits) \in hits
    <3> HIDE DEF hits
    <3> QED
        BY <1>3, <1>4, MinIsLeast
  <2> QED
      BY <2>1
<1> QED
    BY <1>1, <1>2, <1>4 DEF concepts

LEMMA NothingWins ==
    ASSUME NEW concept, NEW base, NEW ctx
    PROVE  Decision(<<>>, concept, base, ctx) = [final |-> base, by |-> None]
<1>1. ToSet(<<>>) = {}
    BY DEF ToSet
<1>2. Matched(<<>>, concept, ctx) = {}
    BY <1>1 DEF Matched
<1>3. IsRuleSet(Matched(<<>>, concept, ctx))
    BY <1>2, FS_EmptySet DEF IsRuleSet
<1>4. Winner(<<>>, concept, ctx) = {}
    BY <1>2, <1>3, WinnerIsTop
<1> QED
    BY <1>4 DEF Decision

\* What the normalizer makes of a metric is what the table says of its concept.
LEMMA ResolvedByTable ==
    ASSUME ReadInv, document # None, pending = {}, NEW i \in DOMAIN Registry
    PROVE  LET got == Resolve(Registry[i], document, rules)
               concept == ConceptFor(Registry[i], {readAt[k].concept : k \in DOMAIN readAt})
               verdict == Verdict(TableOf(concept), concept, Registry[i].metric, Context)
           IN  got.kind \notin {"unresolved", "invalid"} /\ ~Moved(concept) =>
                 /\ got.by = verdict.by
                 /\ (got.kind = "suppressed") = (verdict.final = None)
                 /\ got.kind = "resolved" => got.metric = verdict.final
<1> DEFINE entry == Registry[i]
           concept == ConceptFor(entry, ConceptsOf(document))
           got == Resolve(entry, document, rules)
           read == {readAt[k].concept : k \in DOMAIN readAt}
           verdict == Verdict(TableOf(concept), concept, entry.metric, Context)
<1>1. /\ ConceptFor(entry, read) = concept
      /\ concept # None => \E k \in DOMAIN readAt : readAt[k].concept = concept
    BY SameConcept
<1>2. ASSUME got.kind \notin {"unresolved", "invalid"}, ~Moved(concept)
      PROVE  /\ got.by = verdict.by
             /\ (got.kind = "suppressed") = (verdict.final = None)
             /\ got.kind = "resolved" => got.metric = verdict.final
  <2> DEFINE fact == Chosen(document, concept)
             decision == IF rules = <<>> THEN [final |-> entry.metric, by |-> None]
                         ELSE Decision(rules, concept, entry.metric, Context)
  <2>1. got = IF concept = None THEN [kind |-> "unresolved"]
              ELSE IF ~fact.number THEN [kind |-> "invalid"]
              ELSE IF decision.final = None THEN [kind |-> "suppressed", by |-> decision.by]
              ELSE [kind |-> "resolved", metric |-> decision.final, by |-> decision.by,
                    fact |-> fact]
      BY DEF Resolve
  <2> HIDE DEF got, concept, fact
  <2>2. concept # None
      BY <1>2, <2>1
  <2>3. PICK k \in DOMAIN readAt : readAt[k].concept = concept
      BY <1>1, <2>2
  <2>4. Decision(rules, concept, entry.metric, Context) = verdict
      BY <1>2, <2>3, CollectedDecide
  <2>5. decision = Decision(rules, concept, entry.metric, Context)
      BY NothingWins
  <2>6. decision = verdict
      BY <2>4, <2>5
  <2> HIDE DEF decision, verdict
  <2> QED
      BY <1>2, <2>1, <2>2, <2>6
<1> HIDE DEF concept, got, read
<1> QED
    BY <1>1, <1>2 DEF got, read, concept


LEMMA NormalizeStep ==
    ASSUME IInv, Normalize
    PROVE  IInv'
<1>1. /\ document # None /\ pending = {} /\ document' = None
      /\ table' = table /\ rules' = rules /\ readAt' = readAt
      /\ result' = Normalized(document, rules)
    BY DEF Normalize
<1>2. ReadInv
    BY DEF IInv
<1>3. \A concept : TableOf(concept)' = TableOf(concept)
    BY <1>1 DEF TableOf
<1>4. \A concept : Moved(concept)' <=> Moved(concept)
    BY <1>1, <1>3 DEF Moved
<1> DEFINE got == [i \in DOMAIN Registry |-> Resolve(Registry[i], document, rules)]
<1>5. /\ result'.kind \in {"failed", "payload"}
      /\ result'.kind = "payload" =>
           /\ result'.got = got
           /\ \A i \in DOMAIN Registry : got[i].kind # "invalid"
    BY <1>1 DEF Normalized
<1> HIDE DEF got
<1>6. ASSUME NEW i \in DOMAIN Registry, result'.kind = "payload"
      PROVE  LET concept == ConceptFor(Registry[i], {readAt[k].concept : k \in DOMAIN readAt})
                 verdict == Verdict(TableOf(concept), concept, Registry[i].metric, Context)
             IN  got[i].kind # "unresolved" /\ ~Moved(concept) =>
                   /\ got[i].by = verdict.by
                   /\ (got[i].kind = "suppressed") = (verdict.final = None)
                   /\ got[i].kind = "resolved" => got[i].metric = verdict.final
  <2>1. got[i] = Resolve(Registry[i], document, rules) /\ got[i].kind # "invalid"
      BY <1>5, <1>6 DEF got
  <2> QED
      BY <1>1, <1>2, <2>1, ResolvedByTable
<1>7. DecidedByTable'
  <2>1. DOMAIN got = DOMAIN Registry
      BY DEF got
  <2> QED
      BY <1>1, <1>3, <1>4, <1>5, <1>6, <2>1 DEF DecidedByTable
<1>8. ReadInv'
    BY <1>1 DEF ReadInv
<1> QED
    BY <1>1, <1>7, <1>8 DEF IInv, IsTable

LEMMA FailStep ==
    ASSUME IInv, Fail
    PROVE  IInv'
<1>1. document # None /\ document' = None /\ table' = table /\ result' = result
    BY DEF Fail
<1>2. ReadInv' /\ result.kind = "none"
    BY <1>1 DEF IInv, ReadInv
<1>3. DecidedByTable'
    BY <1>1, <1>2 DEF DecidedByTable
<1> QED
    BY <1>1, <1>2, <1>3 DEF IInv, IsTable

LEMMA ApplyOverridesStep ==
    ASSUME IInv, ApplyOverrides
    PROVE  IInv'
<1>1. PICK ctx \in Contexts, concept \in Concepts, base \in Bases :
         /\ \E list \in SetToSeqs(RulesOf(table, concept, ctx.taxonomy)) :
              result' = [kind |-> "decision", ctx |-> ctx, concept |-> concept, base |-> base,
                         decision |-> Decision(list, concept, base, ctx)]
         /\ readAt' = <<[concept |-> concept, table |-> table]>>
    BY DEF ApplyOverrides
<1>2. PICK list \in SetToSeqs(RulesOf(table, concept, ctx.taxonomy)) :
         result' = [kind |-> "decision", ctx |-> ctx, concept |-> concept, base |-> base,
                    decision |-> Decision(list, concept, base, ctx)]
    BY <1>1
<1>3. document' = None /\ table' = table
    BY DEF ApplyOverrides
<1>4. IsTable(table)
    BY DEF IInv
<1>5. /\ RulesOf(table, concept, ctx.taxonomy) = {r \in InTable(table) : Applies(r.rule, concept, ctx)}
      /\ IsFiniteSet(RulesOf(table, concept, ctx.taxonomy))
    BY <1>4, RulesOfApply
<1>6. ToSet(list) = RulesOf(table, concept, ctx.taxonomy)
    BY <1>5, ListsAreWhole
<1>7. Decision(list, concept, base, ctx) = Verdict(table, concept, base, ctx)
    BY <1>4, <1>5, <1>6, SameDecision
<1>8. TableOf(concept)' = table
    BY <1>1 DEF TableOf
<1>9. DecidedByTable'
    BY <1>2, <1>7, <1>8 DEF DecidedByTable
<1>10. ReadInv'
    BY <1>3 DEF ReadInv
<1> QED
    BY <1>3, <1>4, <1>9, <1>10 DEF IInv, IsTable

LEMMA StepInv == IInv /\ [Next]_vars => IInv'
<1> SUFFICES ASSUME IInv, [Next]_vars PROVE IInv'
    OBVIOUS
<1>1. CASE UNCHANGED vars
  <2>1. UNCHANGED <<document, pending, rules, result, readAt>> /\ IsTable(table')
      BY <1>1 DEF vars, IInv, IsTable
  <2> QED
      BY <2>1, UnchangedKeeps
<1> QED
    BY <1>1, EditRuleStep, CallStep, ReadRulesStep, NormalizeStep, FailStep, ApplyOverridesStep
    DEF Next

LEMMA Always == Spec => []IInv
BY InitInv, StepInv, PTL DEF Spec

\* However the rules are edited between its queries, a normalization decides every metric
\* as the order of rules over the table it read does, unless a rule moved between two
\* concepts meanwhile; apply_overrides, with one query, always does.
THEOREM DecisionsFollowTheTable == Spec => []DecidedByTable
<1>1. IInv => DecidedByTable
    BY DEF IInv
<1> QED
    BY <1>1, Always, PTL

\* The engine's search, scope by scope, finds the one rule that no other outranks, for
\* any rules with different ids: the precedence is total, so that a decision does not
\* depend on the order in which rules are returned.  (_select_winning_rule)
THEOREM PrecedenceIsTotal ==
    ASSUME NEW list, NEW concept, NEW ctx,
           IsRuleSet(Matched(list, concept, ctx)), Matched(list, concept, ctx) # {}
    PROVE  \E top \in Matched(list, concept, ctx) :
              /\ Winner(list, concept, ctx) = {top}
              /\ \A q \in Matched(list, concept, ctx) \ {top} : Outranks(top, q)
<1>1. PICK top : IsTop(Matched(list, concept, ctx), top)
    BY HasTop
<1>2. Winner(list, concept, ctx) = {top}
    BY <1>1, WinnerIsTop
<1> QED
    BY <1>1, <1>2 DEF IsTop
-----------------------------------------------------------------------------
(* Order.                                                                  *)

IsDocument(doc) ==
    IsFiniteSet(DOMAIN doc) /\ DOMAIN doc \subseteq Nat /\ \A k \in DOMAIN doc : IsFact(doc[k])

\* other holds the facts of doc in an order of its own: p says where they come from.
Reorders(other, doc, p) ==
    /\ DOMAIN other = DOMAIN doc /\ p \in [DOMAIN doc -> DOMAIN doc]
    /\ \A i, j \in DOMAIN doc : p[i] = p[j] => i = j
    /\ \A k \in DOMAIN doc : \E i \in DOMAIN doc : p[i] = k
    /\ \A i \in DOMAIN doc : other[i] = doc[p[i]]

\* One fact of the preferred unit is later than all others, and it is chosen.
LEMMA ChosenIsLast ==
    ASSUME NEW doc, IsDocument(doc), Untied(doc), NEW concept, concept \in ConceptsOf(doc)
    PROVE  \E k \in InCurrency(doc, concept) :
              /\ Chosen(doc, concept) = doc[k]
              /\ \A m \in InCurrency(doc, concept) : NoLater(doc[m], doc[k])
<1> DEFINE places == InCurrency(doc, concept)
           later == [k \in places |-> {m \in places : ~NoLater(doc[m], doc[k])}]
<1>1. places # {} /\ places \subseteq FactsOf(doc) /\ FactsOf(doc) \subseteq DOMAIN doc
    BY DEF InCurrency, ConceptsOf, FactsOf
<1>2. IsFiniteSet(places) /\ places \subseteq Nat
    BY <1>1, FS_Subset DEF IsDocument
<1>3. \A k \in places : doc[k].at \in Nat /\ doc[k].id \in Nat
    BY <1>1 DEF IsDocument, IsFact
<1>4. \A k, m \in places : k # m => ~(doc[k].id = doc[m].id /\ doc[k].at = doc[m].at)
    BY <1>1 DEF Untied
<1> HIDE DEF places
<1>5. later \in [places -> SUBSET places] /\ \A k, m \in places : m \in later[k] <=> ~NoLater(doc[m], doc[k])
    OBVIOUS
<1> HIDE DEF later
<1>6. /\ \A k \in places : NoLater(doc[k], doc[k])
      /\ \A k, m \in places : k # m => ~NoLater(doc[m], doc[k]) \/ ~NoLater(doc[k], doc[m])
      /\ \A k, m \in places : NoLater(doc[m], doc[k]) \/ NoLater(doc[k], doc[m])
      /\ \A k, m, l \in places :
           ~NoLater(doc[k], doc[m]) /\ ~NoLater(doc[m], doc[l]) => ~NoLater(doc[k], doc[l])
    BY <1>3, <1>4 DEF NoLater
<1>7. /\ \A k \in places : k \notin later[k]
      /\ \A k, m \in places : k # m => k \in later[m] \/ m \in later[k]
      /\ \A k, m, l \in places : k \in later[m] /\ m \in later[l] => k \in later[l]
    BY <1>5, <1>6
<1>8. PICK k \in places : \A m \in places \ {k} : k \in later[m]
    BY <1>1, <1>2, <1>5, <1>7, FirstOfFinite
<1>9. \A m \in places : NoLater(doc[m], doc[k])
    BY <1>5, <1>6, <1>8
<1> DEFINE last == {l \in places : \A m \in places : NoLater(doc[m], doc[l])}
<1>10. last = {k}
    BY <1>6, <1>9
<1>11. Max(last) = k
    BY <1>2, <1>10 DEF Max
<1>12. Chosen(doc, concept) = doc[Max(last)]
    BY DEF Chosen, places
<1> QED
    BY <1>9, <1>11, <1>12 DEF places

LEMMA SameChoice ==
    ASSUME NEW doc, NEW other, NEW p, IsDocument(doc), Untied(doc), Reorders(other, doc, p)
    PROVE  /\ ConceptsOf(other) = ConceptsOf(doc)
           /\ \A concept \in ConceptsOf(doc) : Chosen(other, concept) = Chosen(doc, concept)
<1>1. /\ DOMAIN other = DOMAIN doc /\ p \in [DOMAIN doc -> DOMAIN doc]
      /\ \A i, j \in DOMAIN doc : p[i] = p[j] => i = j
      /\ \A k \in DOMAIN doc : \E i \in DOMAIN doc : p[i] = k
      /\ \A i \in DOMAIN doc : other[i] = doc[p[i]]
    BY DEF Reorders
<1>2. FactsOf(other) = {i \in DOMAIN doc : p[i] \in FactsOf(doc)}
    BY <1>1 DEF FactsOf
<1>3. FactsOf(doc) \subseteq DOMAIN doc
    BY DEF FactsOf
<1>4. ConceptsOf(other) = ConceptsOf(doc)
    BY <1>1, <1>2, <1>3 DEF ConceptsOf
<1>5. IsDocument(other)
    BY <1>1 DEF IsDocument
<1>6. Untied(other)
    BY <1>1, <1>2 DEF Untied
<1>7. ASSUME NEW concept \in ConceptsOf(doc)
      PROVE  Chosen(other, concept) = Chosen(doc, concept)
  <2>1. InCurrency(other, concept) = {i \in DOMAIN doc : p[i] \in InCurrency(doc, concept)}
    <3> DEFINE Own(d) == {k \in FactsOf(d) : d[k].concept = concept}
               Preferred(d) == {k \in Own(d) : d[k].unit = Currency}
    <3>1. /\ Own(other) = {i \in DOMAIN doc : p[i] \in Own(doc)}
          /\ Preferred(other) = {i \in DOMAIN doc : p[i] \in Preferred(doc)}
        BY <1>1, <1>2
    <3>2. Preferred(doc) \subseteq DOMAIN doc
        BY <1>3
    <3>3. \A d : InCurrency(d, concept) = IF Preferred(d) = {} THEN Own(d) ELSE Preferred(d)
        BY DEF InCurrency
    <3> HIDE DEF Own, Preferred
    <3>4. Preferred(other) = {} <=> Preferred(doc) = {}
        BY <1>1, <3>1, <3>2
    <3> QED
        BY <3>1, <3>3, <3>4
  <2>2. InCurrency(doc, concept) \subseteq FactsOf(doc)
      BY DEF InCurrency
  <2>3. PICK k \in InCurrency(doc, concept) :
              /\ Chosen(doc, concept) = doc[k]
              /\ \A m \in InCurrency(doc, concept) : NoLater(doc[m], doc[k])
      BY ChosenIsLast
  <2>4. PICK i \in InCurrency(other, concept) :
              /\ Chosen(other, concept) = other[i]
              /\ \A m \in InCurrency(other, concept) : NoLater(other[m], other[i])
      BY <1>4, <1>5, <1>6, ChosenIsLast
  <2>5. i \in DOMAIN doc /\ p[i] \in InCurrency(doc, concept) /\ other[i] = doc[p[i]]
      BY <1>1, <2>1
  <2>6. PICK j \in DOMAIN doc : p[j] = k
      BY <1>1, <1>3, <2>2
  <2>7. NoLater(doc[k], doc[p[i]])
      BY <1>1, <2>1, <2>4, <2>5, <2>6
  <2>8. NoLater(doc[p[i]], doc[k])
      BY <2>3, <2>5
  <2>9. /\ doc[k].at \in Nat /\ doc[k].id \in Nat
        /\ doc[p[i]].at \in Nat /\ doc[p[i]].id \in Nat
      BY <1>3, <2>2, <2>5 DEF IsDocument, IsFact
  <2>10. doc[k].at = doc[p[i]].at /\ doc[k].id = doc[p[i]].id
      BY <2>7, <2>8, <2>9 DEF NoLater
  <2>11. p[i] = k
      BY <2>2, <2>5, <2>10 DEF Untied
  <2> QED
      BY <2>3, <2>4, <2>5, <2>11
<1> QED
    BY <1>4, <1>7

LEMMA SameRules ==
    ASSUME NEW list, NEW other, ToSet(other) = ToSet(list), IsRuleSet(ToSet(list)),
           NEW concept, NEW base, NEW ctx
    PROVE  Decision(other, concept, base, ctx) = Decision(list, concept, base, ctx)
<1>1. Matched(other, concept, ctx) = Matched(list, concept, ctx)
    BY DEF Matched
<1>2. IsRuleSet(Matched(list, concept, ctx))
  <2>1. Matched(list, concept, ctx) \subseteq ToSet(list)
      BY DEF Matched
  <2> QED
      BY <2>1, FS_Subset DEF IsRuleSet
<1>3. Winner(other, concept, ctx) = Winner(list, concept, ctx)
  <2>1. CASE Matched(list, concept, ctx) = {}
      BY <1>1, <1>2, <2>1, WinnerIsTop
  <2>2. CASE Matched(list, concept, ctx) # {}
    <3>1. PICK top : IsTop(Matched(list, concept, ctx), top)
        BY <1>2, <2>2, HasTop
    <3> QED
        BY <1>1, <1>2, <3>1, WinnerIsTop
  <2> QED
      BY <2>1, <2>2
<1> QED
    BY <1>3 DEF Decision

\* The payload, from what is resolved for every metric.
Made(got) ==
    LET into(m) == {i \in DOMAIN got : got[i].kind = "resolved" /\ got[i].metric = m}
    IN  IF \E i \in DOMAIN got : got[i].kind = "invalid" THEN [kind |-> "failed"]
        ELSE [kind |-> "payload",
              metrics |-> [m \in {m \in Metrics : into(m) # {}} |-> got[Max(into(m))].fact],
              warned  |-> {i \in DOMAIN got : got[i].kind \in {"unresolved", "suppressed"}},
              got     |-> got]

\* Facts that can be told apart by date and id may come in any order, and so may rules
\* with different ids: the normalizer makes the same of them, whatever the registry.
\* ("no reliance on iteration order", edgar_normalization)
THEOREM AnyOrderWillDo ==
    ASSUME NEW doc, NEW copy, NEW p, IsDocument(doc), Untied(doc), Reorders(copy, doc, p),
           NEW list, NEW other, ToSet(other) = ToSet(list), IsRuleSet(ToSet(list))
    PROVE  Normalized(copy, other) = Normalized(doc, list)
<1>1. /\ ConceptsOf(copy) = ConceptsOf(doc)
      /\ \A concept \in ConceptsOf(doc) : Chosen(copy, concept) = Chosen(doc, concept)
    BY SameChoice
<1>2. ASSUME NEW i \in DOMAIN Registry
      PROVE  Resolve(Registry[i], copy, other) = Resolve(Registry[i], doc, list)
  <2> DEFINE concept == ConceptFor(Registry[i], ConceptsOf(doc))
  <2>1. concept # None => concept \in ConceptsOf(doc)
    <3> DEFINE hits == {m \in DOMAIN Registry[i].concepts : Registry[i].concepts[m] \in ConceptsOf(doc)}
    <3>1. hits \in SUBSET Nat
        BY NormalizationAssumption DEF NormalizationAssumption
    <3>2. concept = IF hits = {} THEN None ELSE Registry[i].concepts[Min(hits)]
        BY DEF ConceptFor
    <3>3. hits # {} => Min(hits) \in hits
      <4> HIDE DEF hits
      <4> QED
          BY <3>1, MinIsLeast
    <3> QED
        BY <3>2, <3>3
  <2>2. concept # None => Chosen(copy, concept) = Chosen(doc, concept)
      BY <1>1, <2>1
  <2> QED
      BY <1>1, <2>2, NothingWins, SameRules DEF Resolve
<1>3. [i \in DOMAIN Registry |-> Resolve(Registry[i], copy, other)] =
      [i \in DOMAIN Registry |-> Resolve(Registry[i], doc, list)]
    BY <1>2
<1>4. \A d, l : Normalized(d, l) = Made([i \in DOMAIN Registry |-> Resolve(Registry[i], d, l)])
    BY DEF Normalized, Made
<1> QED
    BY <1>3, <1>4

LEMMA ReversedIsReordered ==
    ASSUME NEW doc, Len(doc) \in Nat, DOMAIN doc = 1..Len(doc)
    PROVE  /\ Reorders(Reverse(doc), doc, [i \in DOMAIN doc |-> Len(doc) - i + 1])
           /\ ToSet(Reverse(doc)) = ToSet(doc)
<1> DEFINE n == Len(doc)
           p == [i \in DOMAIN doc |-> n - i + 1]
<1>1. /\ DOMAIN Reverse(doc) = 1..n
      /\ \A i \in 1..n : Reverse(doc)[i] = doc[n - i + 1]
    BY DEF Reverse
<1>2. \A i \in 1..n : n - i + 1 \in 1..n /\ p[i] = n - i + 1
    OBVIOUS
<1>3. \A k \in 1..n : n - k + 1 \in 1..n /\ n - (n - k + 1) + 1 = k
    OBVIOUS
<1>4. p \in [DOMAIN doc -> DOMAIN doc]
    BY <1>2
<1> HIDE DEF n, p
<1>5. n \in Nat /\ DOMAIN doc = 1..n
    BY DEF n
<1>6. \A i, j \in DOMAIN doc : p[i] = p[j] => i = j
    BY <1>2, <1>5
<1>7. \A k \in DOMAIN doc : \E i \in DOMAIN doc : p[i] = k
  <2>1. ASSUME NEW k \in 1..n PROVE p[n - k + 1] = k
      BY <1>2, <1>3
  <2> QED
      BY <1>3, <1>5, <2>1
<1>8. \A i \in DOMAIN doc : Reverse(doc)[i] = doc[p[i]]
    BY <1>1, <1>2, <1>5
<1>9. Reorders(Reverse(doc), doc, p)
    BY <1>1, <1>4, <1>5, <1>6, <1>7, <1>8 DEF Reorders
<1>10. ToSet(Reverse(doc)) = ToSet(doc)
  <2>1. DOMAIN Reverse(doc) = DOMAIN doc
      BY <1>1, <1>5
  <2>2. \A k \in DOMAIN doc : \E i \in DOMAIN doc : Reverse(doc)[i] = doc[k]
      BY <1>7, <1>8
  <2>3. \A i \in DOMAIN doc : \E k \in DOMAIN doc : Reverse(doc)[i] = doc[k]
      BY <1>4, <1>8
  <2> QED
      BY <2>1, <2>2, <2>3 DEF ToSet
<1> QED
    BY <1>9, <1>10 DEF n, p

LEMMA RulesAreRuleSet ==
    ASSUME NEW S, S \subseteq Row, IsFiniteSet(S), \A r, q \in S : r.id = q.id => r = q
    PROVE  IsRuleSet(S)
<1>1. Ids \subseteq Nat /\ \A c \in Contents : c.scope \in ToSet(Scopes) /\ c.priority \in Int
    BY NormalizationAssumption DEF NormalizationAssumption, IsContent
<1> QED
    BY <1>1 DEF IsRuleSet, Row

\* When all rules are read, the payload does not depend on the order of the facts or of
\* the rules.
THEOREM OrderNeverMatters == Spec => []OrderIsIrrelevant
<1>1. ASSUME IInv, document # None, pending = {}, Untied(document)
      PROVE  Normalized(document, rules) = Normalized(Reverse(document), Reverse(rules))
  <2>1. /\ document \in Documents /\ rules \in Seq(Row)
        /\ \A j, l \in DOMAIN rules : rules[j].id = rules[l].id => j = l
      BY <1>1 DEF IInv, ReadInv
  <2>2. /\ Len(document) \in Nat /\ DOMAIN document = 1..Len(document)
        /\ \A k \in DOMAIN document : IsFact(document[k])
      BY <2>1, NormalizationAssumption DEF NormalizationAssumption
  <2>3. IsDocument(document)
    <3>1. IsFiniteSet(1..Len(document))
        BY <2>2, FS_Interval
    <3> QED
        BY <2>2, <3>1 DEF IsDocument
  <2>4. ToSet(Reverse(rules)) = ToSet(rules)
    <3>1. Len(rules) \in Nat /\ DOMAIN rules = 1..Len(rules)
        BY <2>1
    <3> QED
        BY <3>1, ReversedIsReordered
  <2>5. IsRuleSet(ToSet(rules))
    <3>1. ToSet(rules) \subseteq Row /\ \A r, q \in ToSet(rules) : r.id = q.id => r = q
        BY <2>1 DEF ToSet
    <3>2. IsFiniteSet(ToSet(rules))
      <4>1. IsFiniteSet(1..Len(rules)) /\ DOMAIN rules = 1..Len(rules)
          BY <2>1, FS_Interval
      <4>2. rules \in Surjection(1..Len(rules), ToSet(rules))
          BY <2>1, <4>1 DEF Surjection, ToSet
      <4> QED
          BY <4>1, <4>2, FS_Surjection
    <3> QED
        BY <3>1, <3>2, RulesAreRuleSet
  <2>6. Reorders(Reverse(document), document, [i \in DOMAIN document |-> Len(document) - i + 1])
      BY <2>2, ReversedIsReordered
  <2> QED
      BY <1>1, <2>3, <2>4, <2>5, <2>6, AnyOrderWillDo
<1>2. IInv => OrderIsIrrelevant
    BY <1>1 DEF OrderIsIrrelevant
<1> QED
    BY <1>2, Always, PTL

-----------------------------------------------------------------------------
(* Data quality: the inductive invariant.                                  *)

\* What DataQuality calls finite, and its sizes, are what the lemmas speak of.
LEMMA SameSizes ==
    ASSUME NEW S
    PROVE  /\ DQ!IsFiniteSet(S) <=> IsFiniteSet(S)
           /\ DQ!Cardinality(S) = Cardinality(S)
BY DEF DQ!IsFiniteSet, DQ!Cardinality, IsFiniteSet, Cardinality

Severities == {"NONE", "LOW", "MEDIUM"}

\* A row is at least as severe as its anomalies.
Graded(row) == \A a \in DQ!AnomaliesOf(row) : DQ!Rank[DQ!SeverityOf(a)] <= DQ!Rank[row.severity]

\* A run that is stored has rows, and its anomalies are those of its rows.
RunsInv ==
    \A r \in runs :
        /\ r.id \in 1..stamped
        /\ r.version \in DQ!VersionsOf(r.statement)
        /\ r.rows # {}
        /\ r.anomalies = UNION {DQ!AnomaliesOf(row) : row \in r.rows}
        /\ \A row \in r.rows : Graded(row)

\* A run judges what it has read at its start.
JudgeInv(j) ==
    job[j].pc \in {"judging", "storing"} =>
        /\ job[j] \in DQ!Judging
        /\ job[j].read \in job[j].had
        /\ \E m \in Codes : job[j].read[m] # None
        /\ \A row \in job[j].rows :
             /\ job[j].read[row.metric] # None
             /\ row.nonNegative = (job[j].read[row.metric] >= 0)
             /\ Graded(row)
        /\ \A r, q \in job[j].rows : r.metric = q.metric => r = q
        /\ job[j].found = UNION {DQ!AnomaliesOf(row) : row \in job[j].rows}
        /\ DQ!VersionsOf(job[j].stmt) # {}
        /\ job[j].version # None => job[j].version \in DQ!VersionsOf(job[j].stmt)
        /\ job[j].pc = "storing" =>
             /\ DQ!Unjudged(j) = {}
             /\ job[j].stamp \in 1..stamped

\* No run the overlay could have known is newer than one it has found, if the statement
\* is still of the row the run is of.
Newest(j, r) ==
    \A q \in job[j].earlier : q.version = DQ!Resolved(job[j].stmt) => q.id <= r.id

\* The overlay's queries see ever more runs, and rows of ever lower ids.
OverlayInv(j) ==
    job[j].pc \in {"run", "quality", "newest", "listing", "answered"} =>
        /\ job[j] \in DQ!Reading
        /\ job[j].earlier \subseteq DQ!RunsOf(job[j].stmt)
        /\ DQ!VersionsOf(job[j].stmt) # {}
        /\ job[j].version # None =>
             job[j].pc \in {"run", "newest"} /\ job[j].version \in DQ!VersionsOf(job[j].stmt)
        /\ job[j].pc = "run" /\ job[j].version # None =>
             \A r \in job[j].earlier : job[j].version <= r.version
        /\ job[j].pc # "run" =>
             /\ job[j].header \in DQ!RunsOf(job[j].stmt) \cup {DQ!NoRun}
             /\ Newest(j, job[j].header)
        /\ job[j].pc = "newest" /\ job[j].version # None /\ job[j].header # DQ!NoRun =>
             job[j].version <= job[j].header.version
        /\ job[j].pc \in {"newest", "listing", "answered"} =>
             \A r \in job[j].earlier \cup {job[j].header} : r.rows \subseteq job[j].rows
        /\ job[j].pc \in {"listing", "answered"} =>
             /\ job[j].latest \in DQ!RunsOf(job[j].stmt) \cup {DQ!NoRun}
             /\ job[j].header # DQ!NoRun /\ job[j].header.version = DQ!Resolved(job[j].stmt) =>
                  job[j].header.id <= job[j].latest.id
        /\ job[j].pc = "answered" => job[j].found \in DQ!FirstAnomalies(job[j].latest.anomalies)

QualityInv ==
    /\ DQ!TypeOK
    /\ DOMAIN job = Jobs
    /\ RunsInv
    /\ \A j \in Jobs : JudgeInv(j) /\ OverlayInv(j)

-----------------------------------------------------------------------------
(* Severities.                                                             *)

LEMMA Ranks ==
    /\ DQ!Rank["NONE"] = 0 /\ DQ!Rank["LOW"] = 1 /\ DQ!Rank["MEDIUM"] = 2
    /\ \A a \in DQ!Anomaly : DQ!SeverityOf(a) \in Severities
    /\ \A row \in DQ!Row : row.severity \in Severities
    /\ \A x \in Severities : DQ!Rank[x] \in Nat
BY DEF DQ!Rank, Severities, DQ!SeverityOf, DQ!Row

\* The worst of some severities is one of them, and none is worse.
LEMMA WorstIsWorst ==
    ASSUME NEW S \in SUBSET Severities, S # {}
    PROVE  DQ!Worst(S) \in S /\ \A y \in S : DQ!Rank[y] <= DQ!Rank[DQ!Worst(S)]
<1>1. \E x \in S : \A y \in S : DQ!Rank[y] <= DQ!Rank[x]
  <2>0. \A y \in S : y \in {"NONE", "LOW", "MEDIUM"}
      BY DEF Severities
  <2>1. CASE "MEDIUM" \in S
    <3>1. \A y \in S : DQ!Rank[y] <= DQ!Rank["MEDIUM"]
        BY <2>0, Ranks
    <3> QED
        BY <2>1, <3>1
  <2>2. CASE "MEDIUM" \notin S /\ "LOW" \in S
    <3>1. \A y \in S : DQ!Rank[y] <= DQ!Rank["LOW"]
        BY <2>0, <2>2, Ranks
    <3> QED
        BY <2>2, <3>1
  <2>3. CASE "MEDIUM" \notin S /\ "LOW" \notin S
    <3>1. S = {"NONE"}
        BY <2>0, <2>3
    <3> QED
        BY <3>1, Ranks
  <2> QED
      BY <2>1, <2>2, <2>3
<1> QED
    BY <1>1 DEF DQ!Worst

\* Severities of which every one is matched are no worse.
LEMMA NoWorse ==
    ASSUME NEW S \in SUBSET Severities, S # {}, NEW T \in SUBSET Severities,
           \A x \in S : \E y \in T : DQ!Rank[x] <= DQ!Rank[y]
    PROVE  DQ!Rank[DQ!Worst(S)] <= DQ!Rank[DQ!Worst(T)]
<1>1. DQ!Worst(S) \in S
    BY WorstIsWorst
<1>2. PICK y \in T : DQ!Rank[DQ!Worst(S)] <= DQ!Rank[y]
    BY <1>1
<1>3. DQ!Worst(T) \in T /\ DQ!Rank[y] <= DQ!Rank[DQ!Worst(T)]
    BY <1>2, WorstIsWorst
<1>4. DQ!Rank[DQ!Worst(S)] \in Nat /\ DQ!Rank[y] \in Nat /\ DQ!Rank[DQ!Worst(T)] \in Nat
    BY <1>1, <1>3, Ranks
<1> QED
    BY <1>2, <1>3, <1>4

\* A verdict is a row as severe as its anomalies.
LEMMA VerdictIsRow ==
    ASSUME NEW m \in Codes, NEW value \in Int, NEW c \in {"true", "false", "null"}
    PROVE  /\ DQ!Verdict(m, value, c) \in DQ!Row
           /\ DQ!Verdict(m, value, c).metric = m
           /\ DQ!Verdict(m, value, c).nonNegative = (value >= 0)
           /\ Graded(DQ!Verdict(m, value, c))
<1>1. /\ DQ!Verdict(m, value, c) \in DQ!Row
      /\ DQ!Verdict(m, value, c).metric = m
      /\ DQ!Verdict(m, value, c).nonNegative = (value >= 0)
      /\ DQ!Verdict(m, value, c).consistent = c
    BY DEF DQ!Verdict, DQ!Row
<1>2. ASSUME NEW a \in DQ!AnomaliesOf(DQ!Verdict(m, value, c))
      PROVE  DQ!Rank[DQ!SeverityOf(a)] <= DQ!Rank[DQ!Verdict(m, value, c).severity]
  <2>1. /\ a \in DQ!Anomaly
        /\ a.rule \in {"NON_NEGATIVE", "HISTORY_SPIKE"}
        /\ a.rule = "NON_NEGATIVE" => value < 0
        /\ a.rule # "NON_NEGATIVE" => c = "false"
    <3>1. a \in DQ!Anomaly /\ a.rule \in {"NON_NEGATIVE", "HISTORY_SPIKE"}
        BY DEF DQ!AnomaliesOf, DQ!Anomaly
    <3>2. IF a.rule = "NON_NEGATIVE" THEN ~(value >= 0) ELSE c = "false"
        BY <1>1, Zenon DEF DQ!AnomaliesOf
    <3> QED
        BY <3>1, <3>2
  <2>2. CASE c = "false"
    <3>1. DQ!Verdict(m, value, c).severity = "MEDIUM"
        BY <2>2 DEF DQ!Verdict
    <3>2. DQ!SeverityOf(a) = "MEDIUM" \/ DQ!SeverityOf(a) = "LOW"
        BY DEF DQ!SeverityOf
    <3> QED
        BY <3>1, <3>2, Ranks
  <2>3. CASE c # "false"
    <3>1. DQ!Verdict(m, value, c).severity = "LOW" /\ DQ!SeverityOf(a) = "LOW"
        BY <2>1, <2>3 DEF DQ!Verdict, DQ!SeverityOf
    <3> QED
        BY <3>1, Ranks
  <2> QED
      BY <2>2, <2>3
<1> QED
    BY <1>1, <1>2 DEF Graded

\* There are finitely many anomalies.
LEMMA AnomaliesFinite == IsFiniteSet(DQ!Anomaly)
<1> DEFINE Of(rule) == {a \in DQ!Anomaly : a.rule = rule}
<1>1. ASSUME NEW rule \in {"NON_NEGATIVE", "HISTORY_SPIKE"}
      PROVE  IsFiniteSet(Of(rule))
  <2> DEFINE f == [a \in Of(rule) |-> a.metric]
  <2>1. f \in [Of(rule) -> Codes]
      BY DEF DQ!Anomaly
  <2>2. \A a, b \in Of(rule) : f[a] = f[b] => a = b
      BY DEF DQ!Anomaly
  <2>3. f \in Injection(Of(rule), Codes)
      BY <2>1, <2>2 DEF Injection, IsInjective
  <2> HIDE DEF f, Of
  <2> QED
      BY <2>3, FS_Injection, SameSizes, Quality DEF DQ!QualityAssumption
<1>2. DQ!Anomaly = Of("NON_NEGATIVE") \cup Of("HISTORY_SPIKE")
    BY DEF DQ!Anomaly
<1> HIDE DEF Of
<1> QED
    BY <1>1, <1>2, FS_Union

\* The anomalies that are listed are as severe as those that are cut off.
LEMMA ListedAreWorst ==
    ASSUME NEW all \in SUBSET DQ!Anomaly, all # {}, NEW kept \in DQ!FirstAnomalies(all)
    PROVE  \A a \in all : \E b \in kept : DQ!Rank[DQ!SeverityOf(a)] <= DQ!Rank[DQ!SeverityOf(b)]
<1>1. IsFiniteSet(all) /\ IsFiniteSet(kept) /\ kept \subseteq all
    BY AnomaliesFinite, FS_Subset DEF DQ!FirstAnomalies
<1>2. Cardinality(all) \in Nat /\ Cardinality(all) # 0
    BY <1>1, FS_CardinalityType, FS_EmptySet
<1>3. Cardinality(kept) # 0
    BY <1>2, SameSizes, Quality DEF DQ!FirstAnomalies, DQ!QualityAssumption
<1>4. kept # {}
    BY <1>3, FS_EmptySet
<1>5. ASSUME NEW a \in all, a \notin kept, DQ!SeverityOf(a) = "MEDIUM"
      PROVE  \E b \in kept : DQ!SeverityOf(b) = "MEDIUM"
    BY <1>4, <1>5 DEF DQ!FirstAnomalies
<1>6. \A a \in DQ!Anomaly : DQ!SeverityOf(a) \in {"LOW", "MEDIUM"}
    BY DEF DQ!SeverityOf
<1> QED
    BY <1>1, <1>4, <1>5, <1>6, Ranks

-----------------------------------------------------------------------------
(* The row a statement stands for, and the latest run.                     *)

\* It is the row with the lowest id.
LEMMA ResolvedIsLowest ==
    ASSUME DQ!TypeOK, NEW s, DQ!VersionsOf(s) # {}
    PROVE  /\ DQ!Resolved(s) \in DQ!VersionsOf(s)
           /\ \A u \in DQ!VersionsOf(s) : u \in Nat /\ DQ!Resolved(s) <= u
<1>1. DQ!VersionsOf(s) \in SUBSET Nat
    BY Quality DEF DQ!QualityAssumption, DQ!TypeOK, DQ!VersionsOf
<1>2. \E x \in DQ!VersionsOf(s) : \A y \in DQ!VersionsOf(s) : x <= y
    BY <1>1, LeastNumber
<1> QED
    BY <1>1, <1>2 DEF DQ!Resolved, DQ!Min

\* Rows are never removed, so that the lowest id only sinks.
LEMMA ResolvedSinksTo ==
    ASSUME DQ!TypeOK, NEW later \in SUBSET Uuids, stored \subseteq later, NEW s,
           NEW u \in DQ!VersionsOf(s), u = DQ!Min({v \in later : Identity[v] = s})
    PROVE  u = DQ!Resolved(s)
<1> DEFINE all == {v \in later : Identity[v] = s}
<1>1. DQ!VersionsOf(s) \subseteq all
    BY DEF DQ!VersionsOf
<1>2. DQ!Resolved(s) \in DQ!VersionsOf(s) /\ DQ!Resolved(s) <= u /\ u \in Nat
    BY ResolvedIsLowest
<1>3. all \in SUBSET Nat
    BY Quality DEF DQ!QualityAssumption
<1> HIDE DEF all
<1>4. \E x \in all : \A y \in all : x <= y
    BY <1>1, <1>2, <1>3, LeastNumber
<1>5. \A y \in all : DQ!Min(all) <= y
    BY <1>4 DEF DQ!Min
<1> QED
    BY <1>1, <1>2, <1>3, <1>5 DEF all

\* The latest run of a row is one of its runs, and none is later.
LEMMA LatestIsLatest ==
    ASSUME DQ!TypeOK, RunsInv, NEW s, NEW v
    PROVE  /\ DQ!LatestRun(s, v) \in DQ!RunsOf(s) \cup {DQ!NoRun}
           /\ \A r \in DQ!RunsOf(s) : r.version = v => r.id <= DQ!LatestRun(s, v).id
<1> DEFINE candidates == {r \in DQ!RunsOf(s) : r.version = v}
<1>0. DQ!LatestRun(s, v) =
        IF candidates = {} THEN DQ!NoRun
        ELSE CHOOSE r \in candidates : \A other \in candidates : other.id <= r.id
    BY DEF DQ!LatestRun
<1>3. candidates \subseteq DQ!RunsOf(s) /\ \A r \in DQ!RunsOf(s) : r.version = v => r \in candidates
    OBVIOUS
<1> HIDE DEF candidates
<1>1. CASE candidates = {}
    BY <1>0, <1>1, <1>3
<1>2. CASE candidates # {}
  <2>1. stamped \in Nat /\ \A r \in candidates : r.id \in 1..stamped
      BY <1>3, Quality DEF DQ!QualityAssumption, DQ!TypeOK, RunsInv, DQ!RunsOf
  <2> DEFINE ages == {stamped - r.id : r \in candidates}
  <2>2. ages \in SUBSET Nat /\ ages # {}
      BY <1>2, <2>1
  <2>3. PICK m \in ages : \A n \in ages : m <= n
      BY <2>2, LeastNumber
  <2>4. PICK r \in candidates : m = stamped - r.id
      BY <2>3
  <2>5. ASSUME NEW q \in candidates PROVE q.id <= r.id
    <3>1. stamped - q.id \in ages
        OBVIOUS
    <3>2. stamped - r.id <= stamped - q.id
        BY <2>3, <2>4, <3>1
    <3> QED
        BY <2>1, <3>2
  <2> QED
      BY <1>0, <1>2, <1>3, <2>5
<1> QED
    BY <1>1, <1>2

-----------------------------------------------------------------------------
(* Every action keeps the invariant.                                       *)

\* A job keeps its invariant while others store runs and rows.
LEMMA Undisturbed ==
    ASSUME NEW d \in Jobs, JudgeInv(d), OverlayInv(d), job'[d] = job[d],
           DQ!TypeOK, stored' \subseteq Uuids, stored \subseteq stored', RunsInv,
           runs \subseteq runs', stamped \in Nat, stamped' \in Nat, stamped <= stamped'
    PROVE  /\ JudgeInv(d)' /\ OverlayInv(d)'
           /\ job[d] \in DQ!Reading => job'[d] \in DQ!Reading'
<1>1. \A r \in DQ!RunsOf(job[d].stmt) : r \in DQ!RunsOf(job[d].stmt)'
  <2>1. job'[d].stmt = job[d].stmt
      OBVIOUS
  <2> QED
      BY <2>1, Zenon DEF DQ!RunsOf
<1>2. job[d] \in DQ!Reading => job'[d] \in DQ!Reading'
    BY DEF DQ!Reading
<1>5. \A u \in DQ!VersionsOf(job[d].stmt) : u \in DQ!VersionsOf(job[d].stmt)'
  <2>1. job'[d].stmt = job[d].stmt
      OBVIOUS
  <2> QED
      BY <2>1, Zenon DEF DQ!VersionsOf
<1>3. JudgeInv(d)'
  <2>1. job[d].pc = "storing" /\ JudgeInv(d) => job[d].stamp \in 1..stamped'
      BY DEF JudgeInv
  <2>2. DQ!Unjudged(d)' = DQ!Unjudged(d)
      BY DEF DQ!Unjudged
  <2> QED
      BY <1>5, <2>1, <2>2 DEF JudgeInv
<1>4. OverlayInv(d)'
  <2> SUFFICES ASSUME job[d].pc \in {"run", "quality", "newest", "listing", "answered"}
               PROVE  OverlayInv(d)'
      BY DEF OverlayInv
  <2>0. /\ job[d].earlier \subseteq DQ!RunsOf(job[d].stmt) /\ DQ!VersionsOf(job[d].stmt) # {}
        /\ job[d].pc # "run" => job[d].header \in DQ!RunsOf(job[d].stmt) \cup {DQ!NoRun}
      BY DEF OverlayInv
  <2>1. job'[d] \in DQ!Reading'
      BY <1>2 DEF OverlayInv
  <2>2. (job[d].earlier)' \subseteq DQ!RunsOf(job[d].stmt)'
      BY <1>1 DEF OverlayInv
  <2>7. ASSUME NEW r \in DQ!RunsOf(job[d].stmt), r.version = DQ!Resolved(job[d].stmt)'
        PROVE  r.version = DQ!Resolved(job[d].stmt)
    <3>1. r.version \in DQ!VersionsOf(job[d].stmt)
        BY DEF RunsInv, DQ!RunsOf
    <3>2. (DQ!Resolved(job[d].stmt))' = DQ!Min({u \in stored' : Identity[u] = job[d].stmt})
        BY DEF DQ!Resolved, DQ!VersionsOf
    <3> QED
        BY <2>7, <3>1, <3>2, ResolvedSinksTo
  <2>3. job[d].pc # "run" => /\ (job[d].header)' \in DQ!RunsOf(job[d].stmt)' \cup {DQ!NoRun}
                             /\ Newest(d, job[d].header)'
    <3>1. job[d].pc # "run" => Newest(d, job[d].header)
        BY DEF OverlayInv
    <3> QED
        BY <1>1, <2>0, <2>7, <3>1 DEF Newest
  <2>4. job[d].pc \in {"newest", "listing", "answered"} =>
           \A r \in job[d].earlier \cup {job[d].header} : r.rows \subseteq job[d].rows
      BY DEF OverlayInv
  <2>5. job[d].pc \in {"listing", "answered"} =>
           /\ (job[d].latest)' \in DQ!RunsOf(job[d].stmt)' \cup {DQ!NoRun}
           /\ job[d].header # DQ!NoRun /\ job[d].header.version = (DQ!Resolved(job[d].stmt))' =>
                job[d].header.id <= job[d].latest.id
    <3>1. job[d].pc \in {"listing", "answered"} =>
            /\ job[d].latest \in DQ!RunsOf(job[d].stmt) \cup {DQ!NoRun}
            /\ job[d].header # DQ!NoRun /\ job[d].header.version = DQ!Resolved(job[d].stmt) =>
                 job[d].header.id <= job[d].latest.id
        BY DEF OverlayInv
    <3> QED
        BY <1>1, <2>0, <2>7, <3>1
  <2>6. job[d].pc = "answered" => job[d].found \in DQ!FirstAnomalies(job[d].latest.anomalies)
      BY DEF OverlayInv
  <2>8. /\ (DQ!VersionsOf(job[d].stmt))' # {}
        /\ job[d].version # None => job[d].version \in (DQ!VersionsOf(job[d].stmt))'
      BY <1>5, <2>0 DEF OverlayInv
  <2>9. /\ job[d].pc = "run" /\ job[d].version # None =>
             \A r \in job[d].earlier : job[d].version <= r.version
        /\ job[d].pc = "newest" /\ job[d].version # None /\ job[d].header # DQ!NoRun =>
             job[d].version <= job[d].header.version
      BY DEF OverlayInv
  <2> QED
      BY <2>1, <2>2, <2>3, <2>4, <2>5, <2>6, <2>8, <2>9 DEF OverlayInv
<1> QED
    BY <1>2, <1>3, <1>4

\* What is read does not change while no run is stored.
LEMMA SameRuns ==
    ASSUME runs' = runs, stored' = stored, NEW j, NEW record, job'[j] = record,
           record.stmt = job[j].stmt
    PROVE  /\ DQ!Reading' = DQ!Reading
           /\ (DQ!RunsOf(job[j].stmt))' = DQ!RunsOf(job[j].stmt)
           /\ (DQ!VersionsOf(job[j].stmt))' = DQ!VersionsOf(job[j].stmt)
           /\ (DQ!Resolved(job[j].stmt))' = DQ!Resolved(job[j].stmt)
<1>1. DQ!Reading' = DQ!Reading
    BY DEF DQ!Reading
<1>2. (DQ!RunsOf(job[j].stmt))' = DQ!RunsOf(job[j].stmt)
    BY DEF DQ!RunsOf
<1>3. (DQ!VersionsOf(job[j].stmt))' = DQ!VersionsOf(job[j].stmt)
    BY DEF DQ!VersionsOf
<1>4. (DQ!Resolved(job[j].stmt))' = DQ!Resolved(job[j].stmt)
    BY <1>3, Zenon DEF DQ!Resolved
<1> QED
    BY <1>1, <1>2, <1>3, <1>4

\* A step of one job.
LEMMA JobStep ==
    ASSUME QualityInv, NEW j \in Jobs, NEW record, DQ!Set(j, record),
           UNCHANGED <<stored, facts, replaced>>, runs \subseteq runs', runs' \subseteq DQ!Run,
           stamped' \in 0..MaxRuns, stamped <= stamped', RunsInv',
           record = DQ!Idle \/ record \in DQ!Judging \/ record \in DQ!Reading',
           JudgeInv(j)' /\ OverlayInv(j)'
    PROVE  QualityInv'
<1>1. job'[j] = record /\ DOMAIN job' = Jobs /\ \A d \in Jobs \ {j} : job'[d] = job[d]
    BY DEF QualityInv, DQ!Set
<1>2. stamped \in Nat /\ stamped' \in Nat
    BY Quality DEF DQ!QualityAssumption, QualityInv, DQ!TypeOK
<1>3. ASSUME NEW d \in Jobs \ {j}
      PROVE  /\ JudgeInv(d)' /\ OverlayInv(d)'
             /\ job'[d] = DQ!Idle \/ job'[d] \in DQ!Judging \/ job'[d] \in DQ!Reading'
  <2>1. stored' \subseteq Uuids /\ stored \subseteq stored'
      BY DEF QualityInv, DQ!TypeOK
  <2> QED
      BY <1>1, <1>2, <2>1, Undisturbed DEF QualityInv, DQ!TypeOK
<1>4. DQ!TypeOK'
    BY <1>1, <1>3 DEF QualityInv, DQ!TypeOK, DQ!Judging
<1> QED
    BY <1>1, <1>3, <1>4 DEF QualityInv

\* A step of one job that stores nothing.
LEMMA OwnStep ==
    ASSUME QualityInv, NEW j \in Jobs, NEW record, DQ!Set(j, record),
           UNCHANGED <<stored, facts, runs, stamped, replaced>>,
           record = DQ!Idle \/ record \in DQ!Judging \/ record \in DQ!Reading,
           JudgeInv(j)' /\ OverlayInv(j)'
    PROVE  QualityInv'
<1>1. RunsInv' /\ runs' \subseteq DQ!Run /\ stamped' \in 0..MaxRuns
    BY DEF QualityInv, DQ!TypeOK, RunsInv, DQ!VersionsOf
<1>2. stamped <= stamped'
    BY Quality DEF DQ!QualityAssumption, QualityInv, DQ!TypeOK
<1>3. record = DQ!Idle \/ record \in DQ!Judging \/ record \in DQ!Reading'
    BY DEF DQ!Reading
<1> QED
    BY <1>1, <1>2, <1>3, JobStep

LEMMA EndKeeps ==
    ASSUME QualityInv, NEW j \in Jobs, DQ!End(j), UNCHANGED <<stored, facts, runs, stamped, replaced>>
    PROVE  QualityInv'
<1>1. DQ!Set(j, DQ!Idle)
    BY DEF DQ!End
<1>2. job'[j] = DQ!Idle
    BY <1>1 DEF QualityInv, DQ!Set
<1>3. JudgeInv(j)' /\ OverlayInv(j)'
    BY <1>2 DEF JudgeInv, OverlayInv, DQ!Idle
<1> QED
    BY <1>1, <1>3, OwnStep

LEMMA SomeFact ==
    ASSUME NEW p \in DQ!Payload, p # DQ!NoFacts
    PROVE  \E m \in Codes : p[m] # None
BY DEF DQ!Payload, DQ!NoFacts

LEMMA ReplaceFactsKeeps ==
    ASSUME QualityInv, NEW s \in Statements, DQ!ReplaceFacts(s)
    PROVE  QualityInv'
<1>1. PICK p \in Payloads \ {DQ!NoFacts} :
        /\ facts' = [facts EXCEPT ![DQ!Resolved(s)] = p]
        /\ job' = [j \in Jobs |->
              IF j \notin DQ!DQJobs THEN job[j]
              ELSE [job[j] EXCEPT !.had = IF job[j].stmt = s THEN @ \cup {p} ELSE @]]
    BY DEF DQ!ReplaceFacts
<1>2. p \in DQ!Payload
    BY <1>1, Quality DEF DQ!QualityAssumption, DQ!Payload
<1>3. /\ runs' = runs /\ stamped' = stamped /\ replaced' \in 0..MaxReplaced /\ stored' = stored
      /\ facts' \in [Uuids -> DQ!Payload] /\ DOMAIN job' = Jobs
  <2>1. runs' = runs /\ stamped' = stamped /\ stored' = stored
      BY DEF DQ!ReplaceFacts
  <2>2. replaced < MaxReplaced /\ replaced' = replaced + 1
      BY DEF DQ!ReplaceFacts
  <2>3. replaced' \in 0..MaxReplaced
      BY <2>2, Quality DEF DQ!QualityAssumption, QualityInv, DQ!TypeOK
  <2>4. facts \in [Uuids -> DQ!Payload]
      BY DEF QualityInv, DQ!TypeOK
  <2>5. facts' \in [Uuids -> DQ!Payload]
      BY <1>1, <1>2, <2>4
  <2>6. DOMAIN job' = Jobs
      BY <1>1
  <2> QED
      BY <2>1, <2>3, <2>5, <2>6
<1>4. ASSUME NEW j \in Jobs, j \notin DQ!DQJobs
      PROVE  /\ job'[j] = DQ!Idle \/ job'[j] \in DQ!Judging \/ job'[j] \in DQ!Reading'
             /\ JudgeInv(j)' /\ OverlayInv(j)'
  <2>1. job'[j] = job[j]
      BY <1>1, <1>4
  <2>2. stamped \in Nat /\ stamped' \in Nat /\ stamped <= stamped'
      BY <1>3, Quality DEF DQ!QualityAssumption, QualityInv, DQ!TypeOK
  <2>4. stored' \subseteq Uuids /\ stored \subseteq stored' /\ runs \subseteq runs'
      BY <1>3 DEF QualityInv, DQ!TypeOK
  <2>3. JudgeInv(j)' /\ OverlayInv(j)' /\ (job[j] \in DQ!Reading => job'[j] \in DQ!Reading')
      BY <2>1, <2>2, <2>4, Undisturbed DEF QualityInv
  <2> QED
      BY <2>1, <2>3 DEF QualityInv, DQ!TypeOK
<1>5. ASSUME NEW j \in Jobs, j \in DQ!DQJobs
      PROVE  job'[j] \in DQ!Judging /\ JudgeInv(j)' /\ OverlayInv(j)'
  <2>1. job[j].pc \in {"judging", "storing"} /\ job[j] \in DQ!Judging /\ JudgeInv(j)
      BY <1>5 DEF DQ!DQJobs, QualityInv, JudgeInv
  <2>2. PICK h : /\ job'[j] = [job[j] EXCEPT !.had = h]
                 /\ h = job[j].had \cup {p} \/ h = job[j].had
      BY <1>1, <1>5
  <2>3. /\ job'[j].pc = job[j].pc /\ job'[j].read = job[j].read /\ job'[j].rows = job[j].rows
        /\ job'[j].found = job[j].found /\ job'[j].stamp = job[j].stamp
        /\ job'[j].version = job[j].version /\ job'[j].stmt = job[j].stmt
        /\ job[j].read \in job[j].had => job[j].read \in job'[j].had
        /\ job'[j] \in DQ!Judging
      BY <1>2, <2>1, <2>2 DEF DQ!Judging
  <2>4. DQ!Unjudged(j)' = DQ!Unjudged(j)
      BY <2>3 DEF DQ!Unjudged
  <2>7. (DQ!VersionsOf(job[j].stmt))' = DQ!VersionsOf(job[j].stmt)
      BY <1>3, <2>3 DEF DQ!VersionsOf
  <2>5. JudgeInv(j)'
      BY <1>3, <2>1, <2>3, <2>4, <2>7 DEF JudgeInv
  <2>6. OverlayInv(j)'
      BY <2>1, <2>3 DEF OverlayInv
  <2> QED
      BY <2>3, <2>5, <2>6
<1>6. DQ!TypeOK' /\ RunsInv'
    BY <1>3, <1>4, <1>5 DEF QualityInv, DQ!TypeOK, RunsInv, DQ!VersionsOf
<1> QED
    BY <1>3, <1>4, <1>5, <1>6 DEF QualityInv

LEMMA StartRunKeeps ==
    ASSUME QualityInv, NEW j \in Jobs, DQ!StartRun(j)
    PROVE  QualityInv'
<1>1. PICK s \in Statements, limit \in Lookbacks :
         /\ DQ!VersionsOf(s) # {}
         /\ LET read == facts[DQ!Resolved(s)]
            IN  /\ read # DQ!NoFacts
                /\ DQ!Set(j, [pc |-> "judging", stmt |-> s, lookback |-> limit, read |-> read,
                              rows |-> {}, found |-> {}, stamp |-> 0, version |-> None,
                              had |-> {read}])
    BY DEF DQ!StartRun
<1> DEFINE read == facts[DQ!Resolved(s)]
           record == [pc |-> "judging", stmt |-> s, lookback |-> limit, read |-> read,
                      rows |-> {}, found |-> {}, stamp |-> 0, version |-> None, had |-> {read}]
<1>3. read \in DQ!Payload /\ \E m \in Codes : read[m] # None
  <2>1. DQ!Resolved(s) \in Uuids
      BY <1>1, ResolvedIsLowest DEF QualityInv, DQ!VersionsOf, DQ!TypeOK
  <2> QED
      BY <1>1, <2>1, SomeFact DEF QualityInv, DQ!TypeOK
<1>2. DQ!Set(j, record) /\ UNCHANGED <<stored, facts, runs, stamped, replaced>>
    BY <1>1 DEF DQ!StartRun
<1> HIDE DEF read
<1>4. record \in DQ!Judging
    BY <1>3, Quality DEF DQ!Judging, DQ!QualityAssumption
<1>5. job'[j] = record
    BY <1>2 DEF QualityInv, DQ!Set
<1>7. DQ!VersionsOf(s)' # {}
    BY <1>1, <1>2 DEF DQ!VersionsOf
<1>6. JudgeInv(j)' /\ OverlayInv(j)'
    BY <1>3, <1>4, <1>5, <1>7 DEF JudgeInv, OverlayInv
<1> HIDE DEF record
<1> QED
    BY <1>2, <1>4, <1>6, OwnStep

\* The next fact is judged from what was read, by a metric that has no row yet.
LEMMA JudgeKeeps ==
    ASSUME QualityInv, NEW j \in Jobs, DQ!Judge(j)
    PROVE  QualityInv'
<1> DEFINE m == DQ!Min(DQ!Unjudged(j))
           value == job[j].read[m]
           c == DQ!Consistent(value, DQ!History(m, job[j].lookback), m)
           row == DQ!Verdict(m, value, c)
           record == [job[j] EXCEPT !.rows = @ \cup {row}, !.found = @ \cup DQ!AnomaliesOf(row)]
<1>1. job[j].pc = "judging" /\ DQ!Unjudged(j) # {} /\ DQ!Set(j, record)
    BY DEF DQ!Judge
<1>2. JudgeInv(j) /\ job[j] \in DQ!Judging
    BY <1>1 DEF QualityInv, JudgeInv
<1>3. m \in DQ!Unjudged(j)
  <2>1. DQ!Unjudged(j) \in SUBSET Nat
      BY Quality DEF DQ!Unjudged, DQ!QualityAssumption
  <2>2. \E x \in DQ!Unjudged(j) : \A y \in DQ!Unjudged(j) : x <= y
      BY <1>1, <2>1, LeastNumber
  <2> QED
      BY <2>2 DEF DQ!Min
<1> HIDE DEF m
<1>4. /\ m \in Codes /\ value # None /\ value \in Int
      /\ \A r \in job[j].rows : r.metric # m
    BY <1>2, <1>3, Quality DEF DQ!Unjudged, DQ!Judging, DQ!Payload, DQ!QualityAssumption
<1>5. c \in {"true", "false", "null"}
    BY DEF DQ!Consistent
<1> HIDE DEF c
<1>6. /\ row \in DQ!Row /\ row.metric = m /\ Graded(row)
      /\ row.nonNegative = (value >= 0)
    BY <1>4, <1>5, VerdictIsRow
<1> HIDE DEF row
<1>7. DQ!AnomaliesOf(row) \subseteq DQ!Anomaly
    BY DEF DQ!AnomaliesOf
<1>8. /\ job'[j] = record
      /\ record \in DQ!Judging
      /\ record.pc = "judging" /\ record.read = job[j].read /\ record.had = job[j].had
      /\ record.rows = job[j].rows \cup {row}
      /\ record.found = job[j].found \cup DQ!AnomaliesOf(row)
      /\ record.stmt = job[j].stmt /\ record.version = job[j].version
    BY <1>1, <1>2, <1>6, <1>7 DEF QualityInv, DQ!Set, DQ!Judging
<1> HIDE DEF record
<1>9. UNION {DQ!AnomaliesOf(r) : r \in job[j].rows \cup {row}}
        = (UNION {DQ!AnomaliesOf(r) : r \in job[j].rows}) \cup DQ!AnomaliesOf(row)
    OBVIOUS
<1>10. JudgeInv(j)'
  <2>1. ASSUME NEW r \in record.rows
        PROVE  /\ record.read[r.metric] # None
               /\ r.nonNegative = (record.read[r.metric] >= 0)
               /\ Graded(r)
    <3>1. CASE r = row
        BY <1>4, <1>6, <1>8, <3>1
    <3>2. CASE r \in job[j].rows
        BY <1>1, <1>2, <1>8, <3>2 DEF JudgeInv
    <3> QED
        BY <1>8, <3>1, <3>2
  <2>2. \A r, q \in record.rows : r.metric = q.metric => r = q
      BY <1>1, <1>2, <1>4, <1>6, <1>8 DEF JudgeInv
  <2>3. record.found = UNION {DQ!AnomaliesOf(r) : r \in record.rows}
      BY <1>1, <1>2, <1>8, <1>9 DEF JudgeInv
  <2>4. record.read \in record.had /\ \E n \in Codes : record.read[n] # None
      BY <1>1, <1>2, <1>8 DEF JudgeInv
  <2>5. /\ (DQ!VersionsOf(job[j].stmt))' # {}
        /\ record.version # None => record.version \in (DQ!VersionsOf(job[j].stmt))'
    <3>1. UNCHANGED <<stored, facts, runs, stamped, replaced>>
        BY DEF DQ!Judge
    <3>2. (DQ!VersionsOf(job[j].stmt))' = DQ!VersionsOf(job[j].stmt)
        BY <1>8, <3>1, SameRuns
    <3> QED
        BY <1>1, <1>2, <1>8, <3>2 DEF JudgeInv
  <2> QED
      BY <1>8, <2>1, <2>2, <2>3, <2>4, <2>5 DEF JudgeInv
<1>11. OverlayInv(j)'
    BY <1>8 DEF OverlayInv
<1> QED
    BY <1>1, <1>8, <1>10, <1>11, OwnStep DEF DQ!Judge

LEMMA StampKeeps ==
    ASSUME QualityInv, NEW j \in Jobs, DQ!Stamp(j)
    PROVE  QualityInv'
<1> DEFINE record == [job[j] EXCEPT !.pc = "storing", !.stamp = stamped + 1]
<1>1. /\ job[j].pc = "judging" /\ DQ!Unjudged(j) = {} /\ DQ!Set(j, record)
      /\ stamped < MaxRuns /\ stamped' = stamped + 1 /\ UNCHANGED <<stored, facts, runs, replaced>>
    BY DEF DQ!Stamp
<1>2. JudgeInv(j) /\ job[j] \in DQ!Judging
    BY <1>1 DEF QualityInv, JudgeInv
<1>3. stamped \in Nat /\ stamped + 1 \in 1..MaxRuns /\ stamped <= stamped' /\ MaxRuns \in Nat
    BY <1>1, Quality DEF DQ!QualityAssumption, QualityInv, DQ!TypeOK
<1>4. /\ job'[j] = record /\ record \in DQ!Judging
      /\ record.pc = "storing" /\ record.read = job[j].read /\ record.had = job[j].had
      /\ record.rows = job[j].rows /\ record.found = job[j].found /\ record.stamp = stamped + 1
      /\ record.stmt = job[j].stmt /\ record.version = job[j].version
  <2>1. job'[j] = record
      BY <1>1 DEF QualityInv, DQ!Set
  <2>2. stamped + 1 \in 0..MaxRuns
      BY <1>3
  <2>3. record \in DQ!Judging
      BY <1>2, <2>2 DEF DQ!Judging
  <2>4. /\ record.pc = "storing" /\ record.read = job[j].read /\ record.had = job[j].had
        /\ record.rows = job[j].rows /\ record.found = job[j].found /\ record.stamp = stamped + 1
        /\ record.stmt = job[j].stmt /\ record.version = job[j].version
      BY <1>2 DEF DQ!Judging
  <2> QED
      BY <2>1, <2>3, <2>4
<1> HIDE DEF record
<1>5. DQ!Unjudged(j)' = DQ!Unjudged(j)
    BY <1>4 DEF DQ!Unjudged
<1>9. (DQ!VersionsOf(job[j].stmt))' = DQ!VersionsOf(job[j].stmt)
    BY <1>1, <1>4, SameRuns
<1>6. JudgeInv(j)'
    BY <1>1, <1>2, <1>3, <1>4, <1>5, <1>9 DEF JudgeInv
<1>7. OverlayInv(j)'
    BY <1>4 DEF OverlayInv
<1>8. RunsInv' /\ runs' \subseteq DQ!Run /\ runs \subseteq runs' /\ stamped' \in 0..MaxRuns
    BY <1>1, <1>3 DEF QualityInv, RunsInv, DQ!TypeOK, DQ!VersionsOf
<1> QED
    BY <1>1, <1>3, <1>4, <1>6, <1>7, <1>8, JobStep

LEMMA StoreRunKeeps ==
    ASSUME QualityInv, NEW j \in Jobs, DQ!StoreRun(j)
    PROVE  QualityInv'
<1>1. /\ job[j].pc = "storing" /\ job[j].version # None /\ runs' = runs \cup {DQ!RunOf(j)} /\ DQ!Set(j, DQ!Idle)
      /\ UNCHANGED <<stored, facts, stamped, replaced>>
    BY DEF DQ!StoreRun, DQ!End
<1>2. JudgeInv(j) /\ job[j] \in DQ!Judging
    BY <1>1 DEF QualityInv, JudgeInv
<1>3. stamped \in Nat /\ stamped \in 0..MaxRuns /\ stamped <= stamped'
    BY <1>1, Quality DEF DQ!QualityAssumption, QualityInv, DQ!TypeOK
<1>4. /\ DQ!RunOf(j) \in DQ!Run
      /\ DQ!RunOf(j).id \in 1..stamped
      /\ DQ!RunOf(j).rows = job[j].rows /\ DQ!RunOf(j).anomalies = job[j].found
      /\ DQ!RunOf(j).version \in DQ!VersionsOf(DQ!RunOf(j).statement)
    BY <1>1, <1>2, <1>3 DEF DQ!RunOf, DQ!Run, DQ!Judging, JudgeInv
<1>5. job[j].rows # {}
  <2>1. PICK m \in Codes : job[j].read[m] # None
      BY <1>1, <1>2 DEF JudgeInv
  <2> QED
      BY <1>1, <1>2, <2>1 DEF JudgeInv, DQ!Unjudged
<1>6. RunsInv'
  <2>1. \A s : DQ!VersionsOf(s)' = DQ!VersionsOf(s)
      BY <1>1 DEF DQ!VersionsOf
  <2> QED
      BY <1>1, <1>2, <1>4, <1>5, <2>1 DEF RunsInv, QualityInv, JudgeInv
<1>7. job'[j] = DQ!Idle
    BY <1>1 DEF QualityInv, DQ!Set
<1>8. JudgeInv(j)' /\ OverlayInv(j)'
    BY <1>7 DEF JudgeInv, OverlayInv, DQ!Idle
<1>9. runs \subseteq runs' /\ runs' \subseteq DQ!Run
    BY <1>1, <1>4 DEF QualityInv, DQ!TypeOK
<1> QED
    BY <1>1, <1>3, <1>6, <1>8, <1>9, JobStep

LEMMA StartOverlayKeeps ==
    ASSUME QualityInv, NEW j \in Jobs, DQ!StartOverlay(j)
    PROVE  QualityInv'
<1>1. PICK s \in Statements :
         /\ DQ!VersionsOf(s) # {}
         /\ DQ!Set(j, [pc |-> "run", stmt |-> s, version |-> None, header |-> DQ!NoRun, rows |-> {},
                       latest |-> DQ!NoRun, found |-> {}, earlier |-> DQ!RunsOf(s)])
    BY DEF DQ!StartOverlay
<1> DEFINE record == [pc |-> "run", stmt |-> s, version |-> None, header |-> DQ!NoRun, rows |-> {},
                      latest |-> DQ!NoRun, found |-> {}, earlier |-> DQ!RunsOf(s)]
<1>2. record \in DQ!Reading
    BY DEF DQ!Reading, DQ!RunsOf
<1>3. job'[j] = record
    BY <1>1 DEF QualityInv, DQ!Set
<1>4. UNCHANGED <<stored, facts, runs, stamped, replaced>>
    BY DEF DQ!StartOverlay
<1>5. record \in DQ!Reading'
    BY <1>2, <1>4 DEF DQ!Reading
<1>7. DQ!VersionsOf(s)' # {} /\ DQ!RunsOf(s)' = DQ!RunsOf(s)
    BY <1>1, <1>4 DEF DQ!VersionsOf, DQ!RunsOf
<1>6. JudgeInv(j)' /\ OverlayInv(j)'
    BY <1>3, <1>5, <1>7 DEF JudgeInv, OverlayInv
<1> HIDE DEF record
<1> QED
    BY <1>1, <1>2, <1>4, <1>6, OwnStep DEF record

\* The first query of create_run and of latest_run_for_statement finds the lowest row.
LEMMA ResolveKeeps ==
    ASSUME QualityInv, NEW j \in Jobs, DQ!Resolve(j)
    PROVE  QualityInv'
<1> DEFINE s == job[j].stmt
           record == [job[j] EXCEPT !.version = DQ!Resolved(s)]
<1>1. /\ job[j].pc \in {"storing", "run", "newest"} /\ job[j].version = None /\ DQ!Set(j, record)
      /\ UNCHANGED <<stored, facts, runs, stamped, replaced>>
    BY DEF DQ!Resolve
<1>2. /\ JudgeInv(j) /\ OverlayInv(j) /\ DQ!TypeOK /\ RunsInv
      /\ job[j] \in DQ!Judging \/ job[j] \in DQ!Reading
    BY <1>1 DEF QualityInv, JudgeInv, OverlayInv
<1>3. DQ!VersionsOf(s) # {}
    BY <1>1, <1>2 DEF JudgeInv, OverlayInv
<1>4. /\ DQ!Resolved(s) \in DQ!VersionsOf(s) /\ DQ!Resolved(s) \in Uuids
      /\ \A u \in DQ!VersionsOf(s) : DQ!Resolved(s) <= u
    BY <1>2, <1>3, ResolvedIsLowest DEF DQ!VersionsOf, DQ!TypeOK
<1>5. \A r \in DQ!RunsOf(s) : DQ!Resolved(s) <= r.version
    BY <1>2, <1>4 DEF RunsInv, DQ!RunsOf
<1>6. job'[j] = record /\ record.stmt = job[j].stmt /\ record.pc = job[j].pc
    BY <1>1, <1>2 DEF QualityInv, DQ!Set, DQ!Judging, DQ!Reading
<1>7. /\ DQ!Reading' = DQ!Reading
      /\ (DQ!RunsOf(s))' = DQ!RunsOf(s)
      /\ (DQ!VersionsOf(s))' = DQ!VersionsOf(s)
      /\ (DQ!Resolved(s))' = DQ!Resolved(s)
    BY <1>1, <1>6, SameRuns
<1>8. CASE job[j].pc = "storing"
  <2>1. job[j] \in DQ!Judging
      BY <1>2, <1>8 DEF JudgeInv
  <2>2. /\ record \in DQ!Judging /\ record.read = job[j].read /\ record.had = job[j].had
        /\ record.rows = job[j].rows /\ record.found = job[j].found /\ record.stamp = job[j].stamp
        /\ record.version = DQ!Resolved(s)
      BY <1>4, <2>1 DEF DQ!Judging
  <2>3. DQ!Unjudged(j)' = DQ!Unjudged(j)
      BY <1>6, <2>2 DEF DQ!Unjudged
  <2> HIDE DEF record
  <2>4. JudgeInv(j)'
      BY <1>1, <1>2, <1>3, <1>4, <1>6, <1>7, <1>8, <2>2, <2>3 DEF JudgeInv
  <2>5. OverlayInv(j)'
      BY <1>6, <1>8 DEF OverlayInv
  <2> QED
      BY <1>1, <2>2, <2>4, <2>5, OwnStep
<1>9. CASE job[j].pc \in {"run", "newest"}
  <2>1. /\ job[j] \in DQ!Reading /\ job[j].earlier \subseteq DQ!RunsOf(s)
        /\ job[j].pc # "run" => job[j].header \in DQ!RunsOf(s) \cup {DQ!NoRun}
      BY <1>2, <1>9 DEF OverlayInv
  <2>2. /\ record \in DQ!Reading /\ record.header = job[j].header /\ record.rows = job[j].rows
        /\ record.latest = job[j].latest /\ record.found = job[j].found
        /\ record.earlier = job[j].earlier /\ record.version = DQ!Resolved(s)
      BY <1>4, <2>1 DEF DQ!Reading
  <2> HIDE DEF record
  <2>3. /\ \A r \in job[j].earlier : DQ!Resolved(s) <= r.version
        /\ job[j].pc # "run" /\ job[j].header # DQ!NoRun => DQ!Resolved(s) <= job[j].header.version
    <3>1. ASSUME NEW r \in job[j].earlier PROVE DQ!Resolved(s) <= r.version
        BY <1>5, <2>1
    <3>2. job[j].pc # "run" /\ job[j].header # DQ!NoRun => DQ!Resolved(s) <= job[j].header.version
        BY <1>5, <2>1
    <3> QED
        BY <3>1, <3>2
  <2>4. job[j].pc # "run" => Newest(j, job[j].header)'
    <3>1. job[j].pc # "run" => Newest(j, job[j].header)
        BY <1>2, <1>9 DEF OverlayInv
    <3>2. (job[j].header)' = job[j].header /\ (job[j].earlier)' = job[j].earlier
          /\ (job[j].stmt)' = job[j].stmt
        BY <1>6, <2>2
    <3>3. (DQ!Resolved(job[j].stmt))' = DQ!Resolved(job[j].stmt)
        BY <1>7, Zenon
    <3> QED
        BY <3>1, <3>2, <3>3 DEF Newest
  <2>6. record.pc = "newest" =>
          \A r \in record.earlier \cup {record.header} : r.rows \subseteq record.rows
      BY <1>2, <1>6, <1>9, <2>2 DEF OverlayInv
  <2>5. JudgeInv(j)' /\ OverlayInv(j)'
      BY <1>3, <1>4, <1>6, <1>7, <1>9, <2>1, <2>2, <2>3, <2>4, <2>6 DEF JudgeInv, OverlayInv
  <2> QED
      BY <1>1, <2>2, <2>5, OwnStep
<1> QED
    BY <1>1, <1>8, <1>9

LEMMA ReadRunKeeps ==
    ASSUME QualityInv, NEW j \in Jobs, DQ!ReadRun(j)
    PROVE  QualityInv'
<1> DEFINE s == job[j].stmt
<1>0. PICK run : run = DQ!LatestRun(s, job[j].version)
    OBVIOUS
<1> DEFINE record == [job[j] EXCEPT !.pc = "quality", !.version = None, !.header = run]
<1>1. /\ job[j].pc = "run" /\ job[j].version # None /\ DQ!Set(j, record)
      /\ UNCHANGED <<stored, facts, runs, stamped, replaced>>
    BY <1>0 DEF DQ!ReadRun
<1>2. /\ job[j] \in DQ!Reading /\ job[j].earlier \subseteq DQ!RunsOf(s)
      /\ job[j].version \in DQ!VersionsOf(s) /\ DQ!VersionsOf(s) # {}
      /\ \A r \in job[j].earlier : job[j].version <= r.version
      /\ DQ!TypeOK /\ RunsInv
    BY <1>1 DEF QualityInv, OverlayInv
<1>3. /\ run \in DQ!RunsOf(s) \cup {DQ!NoRun} /\ run \in runs \cup {DQ!NoRun}
      /\ \A r \in DQ!RunsOf(s) : r.version = job[j].version => r.id <= run.id
    BY <1>0, <1>2, LatestIsLatest DEF DQ!RunsOf
<1>8. \A r \in job[j].earlier : r.version = DQ!Resolved(s) => r.id <= run.id
  <2>1. DQ!Resolved(s) <= job[j].version /\ job[j].version \in Nat /\ DQ!Resolved(s) \in Nat
      BY <1>2, ResolvedIsLowest
  <2>2. \A r \in job[j].earlier : r.version = DQ!Resolved(s) => r.version = job[j].version
      BY <1>2, <2>1
  <2> QED
      BY <1>2, <1>3, <2>2
<1>4. /\ job'[j] = record /\ record \in DQ!Reading
      /\ record.pc = "quality" /\ record.stmt = job[j].stmt /\ record.header = run
      /\ record.earlier = job[j].earlier /\ record.version = None
    BY <1>1, <1>2, <1>3 DEF QualityInv, DQ!Set, DQ!Reading
<1> HIDE DEF record
<1>5. /\ DQ!Reading' = DQ!Reading /\ (DQ!RunsOf(s))' = DQ!RunsOf(s)
      /\ (DQ!VersionsOf(s))' = DQ!VersionsOf(s) /\ (DQ!Resolved(s))' = DQ!Resolved(s)
    BY <1>1, <1>4, SameRuns
<1>7. Newest(j, run)'
    BY <1>4, <1>5, <1>8 DEF Newest
<1>6. JudgeInv(j)' /\ OverlayInv(j)'
    BY <1>2, <1>3, <1>4, <1>5, <1>7 DEF JudgeInv, OverlayInv
<1> QED
    BY <1>1, <1>4, <1>6, OwnStep

LEMMA ReadQualityKeeps ==
    ASSUME QualityInv, NEW j \in Jobs, DQ!ReadQuality(j)
    PROVE  QualityInv'
<1> DEFINE s == job[j].stmt
           all == DQ!QualityOf(s)
           record == [job[j] EXCEPT !.pc = "newest", !.rows = all]
<1>1. job[j].pc = "quality" /\ DQ!Set(j, record) /\ UNCHANGED <<stored, facts, runs, stamped, replaced>>
    BY DEF DQ!ReadQuality
<1>2. /\ job[j] \in DQ!Reading /\ job[j].earlier \subseteq DQ!RunsOf(s)
      /\ job[j].header \in DQ!RunsOf(s) \cup {DQ!NoRun}
      /\ Newest(j, job[j].header) /\ DQ!VersionsOf(s) # {}
      /\ job[j].version # None => job[j].version \in DQ!VersionsOf(s)
    BY <1>1 DEF QualityInv, OverlayInv
<1>3. /\ all \subseteq DQ!Row
      /\ \A r \in job[j].earlier \cup {job[j].header} : r.rows \subseteq all
  <2>1. \A r \in DQ!RunsOf(s) : r.rows \subseteq DQ!Row /\ r.rows \subseteq all
      BY DEF DQ!QualityOf, DQ!RunsOf, QualityInv, DQ!TypeOK, DQ!Run
  <2>2. all \subseteq DQ!Row
      BY <2>1 DEF DQ!QualityOf
  <2> QED
      BY <1>2, <2>1, <2>2 DEF DQ!NoRun
<1> HIDE DEF all
<1>4. /\ job'[j] = record /\ record \in DQ!Reading
      /\ record.pc = "newest" /\ record.stmt = job[j].stmt /\ record.header = job[j].header
      /\ record.earlier = job[j].earlier /\ record.rows = all /\ record.version = job[j].version
    BY <1>1, <1>2, <1>3 DEF QualityInv, DQ!Set, DQ!Reading
<1> HIDE DEF record
<1>5. /\ DQ!Reading' = DQ!Reading /\ (DQ!RunsOf(s))' = DQ!RunsOf(s)
      /\ (DQ!VersionsOf(s))' = DQ!VersionsOf(s) /\ (DQ!Resolved(s))' = DQ!Resolved(s)
    BY <1>1, <1>4, SameRuns
<1>7. Newest(j, job[j].header)'
    BY <1>2, <1>4, <1>5 DEF Newest
<1>8. job[j].version = None
    BY <1>1 DEF QualityInv, OverlayInv
<1>6. JudgeInv(j)' /\ OverlayInv(j)'
    BY <1>2, <1>3, <1>4, <1>5, <1>7, <1>8 DEF JudgeInv, OverlayInv
<1> QED
    BY <1>1, <1>4, <1>6, OwnStep

LEMMA ReadLatestKeeps ==
    ASSUME QualityInv, NEW j \in Jobs, DQ!ReadLatest(j)
    PROVE  QualityInv'
<1> DEFINE s == job[j].stmt
<1>0. PICK run : run = DQ!LatestRun(s, job[j].version)
    OBVIOUS
<1> DEFINE record == [job[j] EXCEPT !.pc = "listing", !.version = None, !.latest = run]
<1>1. /\ job[j].pc = "newest" /\ job[j].version # None /\ DQ!Set(j, record)
      /\ UNCHANGED <<stored, facts, runs, stamped, replaced>>
    BY <1>0 DEF DQ!ReadLatest
<1>2. /\ job[j] \in DQ!Reading /\ job[j].earlier \subseteq DQ!RunsOf(s)
      /\ job[j].header \in DQ!RunsOf(s) \cup {DQ!NoRun}
      /\ Newest(j, job[j].header) /\ DQ!VersionsOf(s) # {}
      /\ job[j].version \in DQ!VersionsOf(s)
      /\ job[j].header # DQ!NoRun => job[j].version <= job[j].header.version
      /\ \A r \in job[j].earlier \cup {job[j].header} : r.rows \subseteq job[j].rows
      /\ DQ!TypeOK /\ RunsInv
    BY <1>1 DEF QualityInv, OverlayInv
<1>3. /\ run \in DQ!RunsOf(s) \cup {DQ!NoRun} /\ run \in runs \cup {DQ!NoRun}
      /\ \A r \in DQ!RunsOf(s) : r.version = job[j].version => r.id <= run.id
    BY <1>0, <1>2, LatestIsLatest DEF DQ!RunsOf
<1>4. job[j].header # DQ!NoRun /\ job[j].header.version = DQ!Resolved(s) =>
         job[j].header.id <= run.id
  <2>1. DQ!Resolved(s) <= job[j].version /\ job[j].version \in Nat /\ DQ!Resolved(s) \in Nat
      BY <1>2, ResolvedIsLowest
  <2> QED
      BY <1>2, <1>3, <2>1
<1>5. /\ job'[j] = record /\ record \in DQ!Reading
      /\ record.pc = "listing" /\ record.stmt = job[j].stmt /\ record.header = job[j].header
      /\ record.earlier = job[j].earlier /\ record.rows = job[j].rows /\ record.latest = run
      /\ record.version = None
    BY <1>1, <1>2, <1>3 DEF QualityInv, DQ!Set, DQ!Reading
<1> HIDE DEF record
<1>6. /\ DQ!Reading' = DQ!Reading /\ (DQ!RunsOf(s))' = DQ!RunsOf(s)
      /\ (DQ!VersionsOf(s))' = DQ!VersionsOf(s) /\ (DQ!Resolved(s))' = DQ!Resolved(s)
    BY <1>1, <1>5, SameRuns
<1>8. Newest(j, job[j].header)'
    BY <1>2, <1>5, <1>6 DEF Newest
<1>7. JudgeInv(j)' /\ OverlayInv(j)'
    BY <1>2, <1>3, <1>4, <1>5, <1>6, <1>8 DEF JudgeInv, OverlayInv
<1> QED
    BY <1>1, <1>5, <1>7, OwnStep

LEMMA ReadAnomaliesKeeps ==
    ASSUME QualityInv, NEW j \in Jobs, DQ!ReadAnomalies(j)
    PROVE  QualityInv'
<1> DEFINE s == job[j].stmt
<1>1. PICK kept \in DQ!FirstAnomalies(job[j].latest.anomalies) :
         DQ!Set(j, [job[j] EXCEPT !.pc = "answered", !.found = kept])
    BY DEF DQ!ReadAnomalies
<1> DEFINE record == [job[j] EXCEPT !.pc = "answered", !.found = kept]
<1>2. /\ job[j].pc = "listing" /\ DQ!Set(j, record)
      /\ UNCHANGED <<stored, facts, runs, stamped, replaced>>
    BY <1>1 DEF DQ!ReadAnomalies
<1>3. /\ job[j] \in DQ!Reading /\ job[j].earlier \subseteq DQ!RunsOf(s)
      /\ job[j].header \in DQ!RunsOf(s) \cup {DQ!NoRun}
      /\ Newest(j, job[j].header) /\ DQ!VersionsOf(s) # {}
      /\ job[j].version # None => job[j].version \in DQ!VersionsOf(s)
      /\ \A r \in job[j].earlier \cup {job[j].header} : r.rows \subseteq job[j].rows
      /\ job[j].latest \in DQ!RunsOf(s) \cup {DQ!NoRun}
      /\ job[j].header # DQ!NoRun /\ job[j].header.version = DQ!Resolved(s) =>
           job[j].header.id <= job[j].latest.id
    BY <1>2 DEF QualityInv, OverlayInv
<1>4. kept \subseteq DQ!Anomaly
  <2>1. job[j].latest.anomalies \subseteq DQ!Anomaly
      BY <1>3 DEF DQ!RunsOf, QualityInv, DQ!TypeOK, DQ!Run, DQ!NoRun
  <2> QED
      BY <2>1 DEF DQ!FirstAnomalies
<1>5. /\ job'[j] = record /\ record \in DQ!Reading
      /\ record.pc = "answered" /\ record.stmt = job[j].stmt /\ record.header = job[j].header
      /\ record.earlier = job[j].earlier /\ record.rows = job[j].rows
      /\ record.latest = job[j].latest /\ record.found = kept /\ record.version = job[j].version
    BY <1>2, <1>3, <1>4 DEF QualityInv, DQ!Set, DQ!Reading
<1> HIDE DEF record
<1>6. /\ DQ!Reading' = DQ!Reading /\ (DQ!RunsOf(s))' = DQ!RunsOf(s)
      /\ (DQ!VersionsOf(s))' = DQ!VersionsOf(s) /\ (DQ!Resolved(s))' = DQ!Resolved(s)
    BY <1>2, <1>5, SameRuns
<1>8. Newest(j, job[j].header)'
    BY <1>3, <1>5, <1>6 DEF Newest
<1>9. job[j].version = None
    BY <1>2 DEF QualityInv, OverlayInv
<1>7. JudgeInv(j)' /\ OverlayInv(j)'
    BY <1>3, <1>5, <1>6, <1>8, <1>9 DEF JudgeInv, OverlayInv
<1> QED
    BY <1>2, <1>5, <1>7, OwnStep

\* Another row of a statement changes nothing that was read.
LEMMA StoreVersionKeeps ==
    ASSUME QualityInv, DQ!StoreVersion
    PROVE  QualityInv'
<1>1. /\ stored \subseteq stored' /\ stored' \subseteq Uuids
      /\ UNCHANGED <<facts, runs, stamped, replaced, job>>
    BY DEF DQ!StoreVersion, QualityInv, DQ!TypeOK
<1>2. DQ!TypeOK' /\ DOMAIN job' = Jobs
    BY <1>1 DEF QualityInv, DQ!TypeOK, DQ!Reading
<1>3. RunsInv'
  <2>1. \A s : DQ!VersionsOf(s) \subseteq DQ!VersionsOf(s)'
      BY <1>1 DEF DQ!VersionsOf
  <2> QED
      BY <1>1, <2>1 DEF QualityInv, RunsInv
<1>4. stamped \in Nat /\ stamped' \in Nat /\ stamped <= stamped'
    BY <1>1, Quality DEF DQ!QualityAssumption, QualityInv, DQ!TypeOK
<1>5. \A j \in Jobs : JudgeInv(j)' /\ OverlayInv(j)'
    BY <1>1, <1>4, Undisturbed DEF QualityInv
<1> QED
    BY <1>2, <1>3, <1>5 DEF QualityInv

-----------------------------------------------------------------------------
(* Data quality: the theorems.                                             *)

LEMMA QualityInit == DQ!Init => QualityInv
<1> SUFFICES ASSUME DQ!Init
             PROVE  QualityInv
    OBVIOUS
<1>1. DQ!TypeOK /\ DOMAIN job = Jobs
    BY Quality DEF DQ!QualityAssumption, DQ!Init, DQ!TypeOK, DQ!NoFacts, DQ!Payload
<1>2. RunsInv
    BY DEF DQ!Init, RunsInv
<1>3. \A j \in Jobs : JudgeInv(j) /\ OverlayInv(j)
    BY DEF DQ!Init, JudgeInv, OverlayInv, DQ!Idle
<1> QED
    BY <1>1, <1>2, <1>3 DEF QualityInv

LEMMA QualityStep == QualityInv /\ [DQ!Next]_DQ!vars => QualityInv'
<1> SUFFICES ASSUME QualityInv, [DQ!Next]_DQ!vars
             PROVE  QualityInv'
    OBVIOUS
<1>1. CASE \E s \in Statements : DQ!ReplaceFacts(s)
    BY <1>1, ReplaceFactsKeeps
<1>4. CASE DQ!StoreVersion
    BY <1>4, StoreVersionKeeps
<1>2. ASSUME NEW j \in Jobs, DQ!DQ(j) \/ DQ!Overlay(j) \/ DQ!Resolve(j) \/ DQ!Fail(j)
      PROVE  QualityInv'
  <2>1. CASE DQ!StartRun(j)
      BY <2>1, StartRunKeeps
  <2>2. CASE DQ!Judge(j)
      BY <2>2, JudgeKeeps
  <2>3. CASE DQ!Stamp(j)
      BY <2>3, StampKeeps
  <2>4. CASE DQ!StoreRun(j)
      BY <2>4, StoreRunKeeps
  <2>5. CASE DQ!StartOverlay(j)
      BY <2>5, StartOverlayKeeps
  <2>6. CASE DQ!ReadRun(j)
      BY <2>6, ReadRunKeeps
  <2>7. CASE DQ!ReadQuality(j)
      BY <2>7, ReadQualityKeeps
  <2>8. CASE DQ!ReadLatest(j)
      BY <2>8, ReadLatestKeeps
  <2>9. CASE DQ!ReadAnomalies(j)
      BY <2>9, ReadAnomaliesKeeps
  <2>10. CASE DQ!Answered(j) \/ DQ!Fail(j)
      BY <2>10, EndKeeps DEF DQ!Answered, DQ!Fail
  <2>11. CASE DQ!Resolve(j)
      BY <2>11, ResolveKeeps
  <2> QED
      BY <1>2, <2>1, <2>2, <2>3, <2>4, <2>5, <2>6, <2>7, <2>8, <2>9, <2>10, <2>11 DEF DQ!DQ, DQ!Overlay
<1>3. CASE UNCHANGED DQ!vars
  <2>1. DQ!TypeOK' /\ DOMAIN job' = Jobs /\ RunsInv'
      BY <1>3 DEF QualityInv, DQ!TypeOK, RunsInv, DQ!Reading, DQ!vars, DQ!VersionsOf
  <2>2. stamped \in Nat /\ stamped' \in Nat /\ stamped <= stamped'
      BY <1>3, Quality DEF DQ!QualityAssumption, QualityInv, DQ!TypeOK, DQ!vars
  <2>3. \A j \in Jobs : JudgeInv(j)' /\ OverlayInv(j)'
      BY <1>3, <2>1, <2>2, Undisturbed DEF QualityInv, DQ!vars, DQ!TypeOK
  <2> QED
      BY <2>1, <2>3 DEF QualityInv
<1> QED
    BY <1>1, <1>2, <1>3, <1>4 DEF DQ!Next

LEMMA QualityAlways == DQ!Spec => []QualityInv
BY QualityInit, QualityStep, PTL DEF DQ!Spec

\* At every point of every call the facts, the runs and what a use case holds are
\* what the code takes them for: rows, anomalies and runs of the right fields, a run
\* to be named only if it is stored.
THEOREM QualityTypeCorrect == DQ!Spec => []DQ!TypeOK
<1>1. QualityInv => DQ!TypeOK
    BY DEF QualityInv
<1> QED
    BY <1>1, QualityAlways, PTL

\* As many facts are evaluated as the payload that was read has.
LEMMA OneRowPerFact ==
    ASSUME DQ!TypeOK, NEW j \in Jobs, JudgeInv(j), job[j].pc = "storing"
    PROVE  LET p == job[j].read
           IN  /\ {row.metric : row \in job[j].rows} = {m \in Codes : p[m] # None}
               /\ Cardinality(job[j].rows) = Cardinality({m \in Codes : p[m] # None})
<1> DEFINE p == job[j].read
           rows == job[j].rows
           present == {m \in Codes : p[m] # None}
           metricOf == [row \in rows |-> row.metric]
<1>1. \A row \in rows : row.metric \in Codes /\ p[row.metric] # None
    BY DEF JudgeInv, DQ!Judging, DQ!Row
<1>2. {row.metric : row \in rows} = present
    BY <1>1 DEF JudgeInv, DQ!Unjudged
<1>3. metricOf \in Bijection(rows, present)
  <2>1. \A r, q \in rows : r.metric = q.metric => r = q
      BY DEF JudgeInv
  <2>2. metricOf \in [rows -> present]
      BY <1>2
  <2>3. \A m \in present : \E row \in rows : metricOf[row] = m
      BY <1>2
  <2> HIDE DEF rows, present
  <2> QED
      BY <2>1, <2>2, <2>3 DEF Bijection, Injection, Surjection, IsInjective
<1>4. IsFiniteSet(present)
    BY FS_Subset, SameSizes, Quality DEF DQ!QualityAssumption
<1> HIDE DEF p, rows, present, metricOf
<1>5. IsFiniteSet(rows) /\ Cardinality(rows) = Cardinality(present)
  <2>1. ExistsBijection(rows, present)
      BY <1>3 DEF ExistsBijection
  <2>2. ExistsBijection(present, rows)
      BY <2>1, Fun_ExistsBijSymmetric
  <2> QED
      BY <1>4, <2>2, FS_Bijection
<1> QED
    BY <1>2, <1>5 DEF p, rows, present

\* A run about to be stored judges every fact of one payload that its statement had
\* at or since the call, and no other.
THEOREM RunsAreOfOnePayload == DQ!Spec => []RunsJudgeOnePayload
<1>1. QualityInv => RunsJudgeOnePayload
  <2> SUFFICES ASSUME QualityInv, NEW j \in Jobs, job[j].pc = "storing"
               PROVE  /\ \E p \in job[j].had :
                           /\ {row.metric : row \in job[j].rows} = {m \in Codes : p[m] # None}
                           /\ \A row \in job[j].rows : row.nonNegative = (p[row.metric] >= 0)
                           /\ DQ!RunRoute(j).body.facts_evaluated
                                = Cardinality({m \in Codes : p[m] # None})
                      /\ job[j].found = UNION {DQ!AnomaliesOf(row) : row \in job[j].rows}
      BY SameSizes DEF RunsJudgeOnePayload, DQ!RunsJudgeOnePayload
  <2>1. JudgeInv(j) /\ DQ!TypeOK
      BY DEF QualityInv
  <2>2. DQ!RunRoute(j).body.facts_evaluated = Cardinality(job[j].rows)
      BY SameSizes DEF DQ!RunRoute, DQ!Answer, DQ!RunResult, DQ!RunOf
  <2> DEFINE p == job[j].read
  <2>3. p \in job[j].had /\ \A row \in job[j].rows : row.nonNegative = (p[row.metric] >= 0)
      BY <2>1 DEF JudgeInv
  <2>4. /\ {row.metric : row \in job[j].rows} = {m \in Codes : p[m] # None}
        /\ DQ!RunRoute(j).body.facts_evaluated = Cardinality({m \in Codes : p[m] # None})
      BY <2>1, <2>2, OneRowPerFact
  <2>5. job[j].found = UNION {DQ!AnomaliesOf(row) : row \in job[j].rows}
      BY <2>1 DEF JudgeInv
  <2> HIDE DEF p
  <2> QED
      BY <2>3, <2>4, <2>5
<1> QED
    BY <1>1, QualityAlways, PTL

\* The answer of the overlay misses nothing that was known at its call: the verdicts of
\* every run committed before it and of the run it names are shown, the severity is never
\* milder than what was reported of any of them or is of the run the anomalies are from,
\* and the run named is the newest of those, unless another row of the statement has come
\* before the row they are of.
THEOREM OverlayCovers == DQ!Spec => []OverlayCoversItsRun
<1>1. ASSUME QualityInv, NEW j \in Jobs, job[j].pc = "answered"
      PROVE  LET body    == DQ!OverlayRoute(j).body
                 header  == job[j].header
                 latest  == job[j].latest
                 current == DQ!Resolved(job[j].stmt)
             IN  /\ \A r \in job[j].earlier : r.version = current => r.id <= header.id
                 /\ header # DQ!NoRun /\ header.version = current => header.id <= latest.id
                 /\ \A r \in job[j].earlier \cup ({header} \ {DQ!NoRun}) :
                      /\ {DQ!FactQualityHTTP(row) : row \in r.rows} \subseteq body.fact_quality
                      /\ DQ!Rank[DQ!RunResult(r).max_severity] <= DQ!Rank[body.max_severity]
                 /\ latest.anomalies # {} =>
                      DQ!Rank[DQ!Worst({DQ!SeverityOf(a) : a \in latest.anomalies})]
                        <= DQ!Rank[body.max_severity]
  <2> DEFINE body   == DQ!OverlayRoute(j).body
             header == job[j].header
             latest == job[j].latest
             current == DQ!Resolved(job[j].stmt)
             rows   == job[j].rows
             kept  == job[j].found
             heard  == job[j].earlier \cup ({header} \ {DQ!NoRun})
             grades  == {row.severity : row \in rows} \cup {DQ!SeverityOf(a) : a \in kept}
  <2>1. /\ job[j] \in DQ!Reading
        /\ job[j].earlier \subseteq DQ!RunsOf(job[j].stmt)
        /\ header \in DQ!RunsOf(job[j].stmt) \cup {DQ!NoRun}
        /\ \A r \in job[j].earlier : r.version = current => r.id <= header.id
        /\ \A r \in heard : r.rows \subseteq rows
        /\ latest \in DQ!RunsOf(job[j].stmt) \cup {DQ!NoRun}
        /\ header # DQ!NoRun /\ header.version = current => header.id <= latest.id
        /\ kept \in DQ!FirstAnomalies(latest.anomalies)
      BY <1>1 DEF QualityInv, OverlayInv, Newest
  <2>2. /\ body.max_severity = DQ!Worst(grades)
        /\ body.fact_quality = {DQ!FactQualityHTTP(row) : row \in rows}
      BY DEF DQ!OverlayRoute, DQ!OverlayBody, DQ!Answer, DQ!MaxSeverity
  <2>3. /\ rows \subseteq DQ!Row /\ kept \subseteq DQ!Anomaly
        /\ grades \in SUBSET Severities
    <3>1. rows \subseteq DQ!Row /\ kept \subseteq DQ!Anomaly
        BY <2>1 DEF DQ!Reading
    <3> QED
        BY <3>1, Ranks
  <2>4. /\ heard \subseteq runs /\ latest \in runs \cup {DQ!NoRun}
        /\ runs \subseteq DQ!Run /\ RunsInv
      BY <1>1, <2>1 DEF DQ!RunsOf, QualityInv, DQ!TypeOK
  <2> HIDE DEF body, header, latest, current, rows, kept, heard, grades
  <2>5. ASSUME NEW r \in heard
        PROVE  DQ!Rank[DQ!RunResult(r).max_severity] <= DQ!Rank[body.max_severity]
    <3> DEFINE told == {row.severity : row \in r.rows}
                         \cup {DQ!SeverityOf(a) : a \in r.anomalies}
    <3>1. r \in DQ!Run /\ r.rows # {} /\ (\A row \in r.rows : Graded(row))
          /\ r.anomalies = UNION {DQ!AnomaliesOf(row) : row \in r.rows}
        BY <2>4, <2>5 DEF RunsInv
    <3>2. r.rows \subseteq DQ!Row /\ r.anomalies \subseteq DQ!Anomaly
        BY <3>1 DEF DQ!Run
    <3>3. told \in SUBSET Severities /\ told # {}
      <4>1. \A row \in r.rows : row.severity \in Severities
          BY <3>2, Ranks
      <4>2. \A a \in r.anomalies : DQ!SeverityOf(a) \in Severities
          BY <3>2, Ranks
      <4>3. \A x \in told : x \in Severities
          BY <4>1, <4>2
      <4>4. \E row \in r.rows : row.severity \in told
          BY <3>1
      <4> HIDE DEF told
      <4> QED
          BY <4>3, <4>4
    <3>4. ASSUME NEW x \in told
          PROVE  \E y \in grades : DQ!Rank[x] <= DQ!Rank[y]
      <4>1. \A row \in r.rows : row.severity \in grades /\ DQ!Rank[row.severity] \in Nat
          BY <2>1, <2>5, <3>2, Ranks DEF grades
      <4>2. CASE \E row \in r.rows : x = row.severity
          BY <4>1, <4>2
      <4>3. CASE \E a \in r.anomalies : x = DQ!SeverityOf(a)
        <5>1. PICK a \in r.anomalies : x = DQ!SeverityOf(a)
            BY <4>3
        <5>2. PICK row \in r.rows : a \in DQ!AnomaliesOf(row)
            BY <3>1, <5>1
        <5>3. DQ!Rank[x] <= DQ!Rank[row.severity]
            BY <3>1, <5>1, <5>2 DEF Graded
        <5> QED
            BY <4>1, <5>3
      <4> QED
          BY <4>2, <4>3
    <3>5. DQ!RunResult(r).max_severity = DQ!Worst(told)
        BY DEF DQ!RunResult, DQ!MaxSeverity
    <3> HIDE DEF told
    <3> QED
        BY <2>2, <2>3, <3>3, <3>4, <3>5, NoWorse
  <2>6. ASSUME latest.anomalies # {}
        PROVE  DQ!Rank[DQ!Worst({DQ!SeverityOf(a) : a \in latest.anomalies})] <= DQ!Rank[body.max_severity]
    <3> DEFINE told == {DQ!SeverityOf(a) : a \in latest.anomalies}
    <3>1. latest.anomalies \subseteq DQ!Anomaly
        BY <2>4 DEF DQ!Run, DQ!NoRun
    <3>2. told \in SUBSET Severities /\ told # {}
        BY <2>6, <3>1, Ranks
    <3>3. \A a \in latest.anomalies : \E b \in kept : DQ!Rank[DQ!SeverityOf(a)] <= DQ!Rank[DQ!SeverityOf(b)]
        BY <2>1, <2>6, <3>1, ListedAreWorst
    <3>4. \A x \in told : \E y \in grades : DQ!Rank[x] <= DQ!Rank[y]
        BY <3>3 DEF grades
    <3> HIDE DEF told
    <3>5. DQ!Rank[DQ!Worst(told)] <= DQ!Rank[DQ!Worst(grades)]
        BY <2>3, <3>2, <3>4, NoWorse
    <3> QED
        BY <2>2, <3>5 DEF told
  <2>7. \A r \in heard : {DQ!FactQualityHTTP(row) : row \in r.rows} \subseteq body.fact_quality
      BY <2>1, <2>2
  <2> QED
      BY <2>1, <2>5, <2>6, <2>7 DEF body, header, latest, current, heard
<1>2. QualityInv => OverlayCoversItsRun
    BY <1>1 DEF OverlayCoversItsRun, DQ!OverlayCoversItsRun
<1> QED
    BY <1>2, QualityAlways, PTL


-----------------------------------------------------------------------------
(* Discovery: the inductive invariant.                                     *)

Places == {"idle", "identified", "read", "writing", "ok", "conflict", "raised"}

DiscoveryTypes ==
    /\ shown \in Seq(FD!Report)
    /\ filings \subseteq FD!Report
    /\ dated \subseteq [accession : Nat, date : Nat]
    /\ known \in BOOLEAN
    /\ place \in [Callers -> Places]
    /\ ask \in [Callers -> Requests \cup {None}]
    /\ seen \in [Callers -> SUBSET FD!Report]
    /\ found \in [Callers -> SUBSET FD!Report]
    /\ fresh \in [Callers -> SUBSET FD!Report]
    /\ had \in [Callers -> SUBSET Nat]
    /\ corrected \subseteq Nat

\* An accession has one row in the document.
Distinct ==
    \A i, k \in DOMAIN shown : shown[i].accession = shown[k].accession => i = k

Alike(r, s) == r.accession = s.accession /\ r.filed = s.filed /\ r.form = s.form

\* Whatever was read of a row is what the row says, unless it was changed; the period
\* may be missing.
Published(r) ==
    \E s \in FD!Range(shown) :
        /\ s.accession = r.accession
        /\ r.accession \notin corrected => Alike(r, s)

OneOfEach(rows) == \A r, s \in rows : r.accession = s.accession => r = s

\* A filing with dates.
Readable(r) == r.filed \in Nat /\ r.period \in Nat \cup {None}

\* Why a sync may have met the unique constraint.
Excused(c) ==
    \E f \in fresh[c] :
        \/ \E g \in fresh[c] : g.accession # f.accession /\ FD!StatementDate(g) = FD!StatementDate(f)
        \/ \E v \in dated : v.accession # f.accession /\ v.date = FD!StatementDate(f)
        \/ f.accession \in corrected
        \/ FD!Stored(f.accession) /\ f.accession \notin had[c]

CallInv(c) ==
    /\ place[c] \notin {"idle", "raised"} => ask[c] \in Requests
    /\ place[c] \in {"idle", "identified", "raised"} => seen[c] = {}
    /\ place[c] \notin {"read", "writing", "conflict"} => found[c] = {}
    /\ place[c] \notin {"writing", "conflict"} => fresh[c] = {}
    /\ place[c] = "read" => ask[c].kind = "sync" /\ found[c] = seen[c]
    /\ \A r \in seen[c] : FD!Asks(ask[c], r) /\ Published(r)
    /\ \A r \in found[c] \cup fresh[c] : FD!Asks(ask[c], r) /\ Published(r) /\ Readable(r)
    /\ OneOfEach(found[c]) /\ OneOfEach(fresh[c])
    /\ place[c] \in {"writing", "conflict"} =>
         \A r \in seen[c] : FD!Stored(r.accession) \/ \E f \in fresh[c] : f.accession = r.accession
    /\ place[c] = "ok" => \A r \in seen[c] : FD!Stored(r.accession)
    /\ place[c] \in {"writing", "conflict"} /\ ask[c].kind = "sync" =>
         \A f \in fresh[c] : f.accession \in had[c] => f.accession \in corrected
    /\ place[c] = "conflict" /\ ask[c].kind = "sync" => Excused(c)

\* A filing is stored with versions, and some call that returned had asked for it.
TablesInv ==
    /\ \A f \in filings :
         /\ Published(f)
         /\ \E v \in dated : v.accession = f.accession
         /\ \E c \in Callers : place[c] = "ok" /\ FD!Asks(ask[c], f)
    /\ \A v \in dated : FD!Stored(v.accession)

DiscoveryInv == DiscoveryTypes /\ Distinct /\ TablesInv /\ \A c \in Callers : CallInv(c)

-----------------------------------------------------------------------------
(* The document.                                                           *)

\* A row added at the front.
LEMMA RowAdded ==
    ASSUME NEW r \in FD!Report, shown \in Seq(FD!Report), shown' = <<r>> \o shown
    PROVE  /\ shown' \in Seq(FD!Report)
           /\ FD!Range(shown') = {r} \cup FD!Range(shown)
           /\ DOMAIN shown' = 1..(Len(shown) + 1)
           /\ shown'[1] = r
           /\ \A i \in DOMAIN shown : shown'[i + 1] = shown[i]
<1>1. /\ DOMAIN shown = 1..Len(shown) /\ Len(shown) \in Nat
      /\ shown' \in Seq(FD!Report) /\ Len(shown') = Len(shown) + 1
    OBVIOUS
<1>2. DOMAIN shown' = 1..(Len(shown) + 1)
    BY <1>1
<1>3. \A i \in 1..(Len(shown) + 1) : shown'[i] = IF i = 1 THEN r ELSE shown[i - 1]
    BY <1>1
<1>4. shown'[1] = r /\ \A i \in DOMAIN shown : shown'[i + 1] = shown[i]
    BY <1>1, <1>3
<1>5. \A x \in FD!Range(shown') : x \in {r} \cup FD!Range(shown)
  <2> SUFFICES ASSUME NEW i \in 1..(Len(shown) + 1) PROVE shown'[i] \in {r} \cup FD!Range(shown)
      BY <1>2 DEF FD!Range
  <2>1. i = 1 \/ i - 1 \in DOMAIN shown
      BY <1>1
  <2> QED
      BY <1>3, <2>1 DEF FD!Range
<1>6. \A x \in {r} \cup FD!Range(shown) : x \in FD!Range(shown')
  <2>1. r \in FD!Range(shown')
      BY <1>1, <1>2, <1>4 DEF FD!Range
  <2>2. ASSUME NEW i \in DOMAIN shown PROVE shown[i] \in FD!Range(shown')
    <3>1. i + 1 \in DOMAIN shown'
        BY <1>1, <1>2
    <3> QED
        BY <1>4, <3>1 DEF FD!Range
  <2> QED
      BY <2>1, <2>2 DEF FD!Range
<1> QED
    BY <1>1, <1>2, <1>4, <1>5, <1>6

\* A row replaced.
LEMMA RowReplaced ==
    ASSUME NEW r \in FD!Report, shown \in Seq(FD!Report), NEW i \in DOMAIN shown,
           shown' = [shown EXCEPT ![i] = r]
    PROVE  /\ shown' \in Seq(FD!Report)
           /\ DOMAIN shown' = DOMAIN shown
           /\ \A k \in DOMAIN shown : shown'[k] = IF k = i THEN r ELSE shown[k]
OBVIOUS

\* What an answer holds: rows of the document, perhaps without their period, and one of
\* each accession.
LEMMA AnswerRows ==
    ASSUME DiscoveryTypes, Distinct, NEW rows \in FD!Answers(shown)
    PROVE  /\ rows \subseteq FD!Report
           /\ \A r \in rows : \E s \in FD!Range(shown) : Alike(r, s)
           /\ OneOfEach(rows)
<1> DEFINE n == Len(shown)
<1>1. shown \in Seq(FD!Report) /\ n \in Nat /\ DOMAIN shown = 1..n
    BY DEF DiscoveryTypes
<1>2. PICK k \in {n} \cup (0..n \cap {n - 1}), p \in {n} \cup (0..n \cap {n - 1}) :
        rows = FD!Range(FD!Rows(shown, k, p))
    BY DEF FD!Answers
<1> HIDE DEF n
<1>3. k \in Nat /\ k <= n
    BY <1>1
<1>4. rows = {FD!Rows(shown, k, p)[i] : i \in 1..k}
    BY <1>2 DEF FD!Range, FD!Rows
<1>5. ASSUME NEW i \in 1..k
      PROVE  /\ i \in DOMAIN shown
             /\ FD!Rows(shown, k, p)[i] \in FD!Report
             /\ Alike(FD!Rows(shown, k, p)[i], shown[i])
  <2>0. i \in 1..n
      BY <1>1, <1>3, SMT
  <2>1. i \in DOMAIN shown /\ shown[i] \in FD!Report
      BY <1>1, <2>0
  <2>2. \/ FD!Rows(shown, k, p)[i] = shown[i]
        \/ FD!Rows(shown, k, p)[i] = [shown[i] EXCEPT !.period = None]
      BY DEF FD!Rows
  <2> QED
      BY <2>1, <2>2 DEF FD!Report, Alike
<1>6. ASSUME NEW i \in 1..k, NEW h \in 1..k,
             FD!Rows(shown, k, p)[i].accession = FD!Rows(shown, k, p)[h].accession
      PROVE  i = h
    BY <1>5, <1>6 DEF Alike, Distinct
<1> QED
    BY <1>4, <1>5, <1>6 DEF OneOfEach, FD!Range

\* The row of an accession is one.
LEMMA OneRow ==
    ASSUME Distinct, NEW r \in FD!Range(shown), NEW s \in FD!Range(shown), r.accession = s.accession
    PROVE  r = s
BY DEF Distinct, FD!Range

\* Two readings of a row that was not changed say the same.
LEMMA SameReading ==
    ASSUME Distinct, NEW r, NEW s, Published(r), Published(s),
           r.accession = s.accession, r.accession \notin corrected
    PROVE  Alike(r, s)
BY OneRow DEF Published, Alike

-----------------------------------------------------------------------------
(* What calls find.                                                        *)

LEMMA RequestFields ==
    ASSUME NEW q \in Requests
    PROVE  /\ q.kind \in {"sync", "ingest"}
           /\ q.kind = "sync" =>
                q \in [kind : {"sync"}, matches : BOOLEAN, from : Nat, to : Nat,
                      types : SUBSET STRING, amendments : BOOLEAN]
           /\ q.kind = "ingest" => q \in [kind : {"ingest"}, matches : BOOLEAN, accession : Nat]
BY Discovery DEF FD!DiscoveryAssumption, FD!Request

\* A window that can be read holds what was asked for, with dates.
LEMMA WindowHolds ==
    ASSUME NEW q \in Requests, q.kind = "sync", NEW rows \in SUBSET FD!Report,
           ~\E r \in rows : FD!Unreadable(q, r)
    PROVE  /\ FD!FoundIn(q, rows) = {r \in rows : FD!Asks(q, r)}
           /\ \A r \in FD!FoundIn(q, rows) : Readable(r)
<1>1. \A r \in rows : /\ r.filed \in {Garbled} \cup Nat
                      /\ r.period \in {Garbled, None} \cup Nat
                      /\ r.amended \in BOOLEAN
    BY DEF FD!Report
<1>2. \A r \in rows : FD!Asks(q, r) <=> FD!Wanted(q, r) /\ FD!Within(q, r.filed)
    BY <1>1 DEF FD!Asks, FD!Wanted, FD!Within
<1>3. \A r \in FD!FoundIn(q, rows) : Readable(r)
    BY <1>1 DEF FD!FoundIn, FD!Unreadable, Readable
<1> QED
    BY <1>2, <1>3 DEF FD!FoundIn

\* So does the filing that is located.
LEMMA LocatedHolds ==
    ASSUME NEW c \in Callers, ask[c] \in Requests, ask[c].kind = "ingest",
           NEW rows \in SUBSET FD!Report, ~\E r \in rows : FD!Unreadable(FD!Window(ask[c]), r)
    PROVE  /\ FD!Located(c, rows) \subseteq rows
           /\ \A r \in FD!Located(c, rows) : FD!Asks(ask[c], r) /\ Readable(r)
           /\ \A r \in rows, f \in FD!Located(c, rows) :
                FD!Asks(ask[c], r) => f.accession = r.accession
<1>1. \A r \in rows : /\ r.filed \in {Garbled} \cup Nat
                      /\ r.period \in {Garbled, None} \cup Nat
    BY DEF FD!Report
<1>2. \A r \in FD!FoundIn(FD!Window(ask[c]), rows) : r \in rows /\ Readable(r)
    BY <1>1 DEF FD!FoundIn, FD!Unreadable, Readable
<1>3. \A r \in FD!Located(c, rows) : r.accession = ask[c].accession
    BY DEF FD!Located
<1>4. \A r : FD!Asks(ask[c], r) <=> r.accession = ask[c].accession
    BY DEF FD!Asks
<1> QED
    BY <1>2, <1>3, <1>4 DEF FD!Located

\* A row that is read is published.
LEMMA ReadRows ==
    ASSUME DiscoveryTypes, Distinct, NEW rows \in FD!Answers(shown)
    PROVE  \A r \in rows : Published(r)
BY AnswerRows DEF Published, Alike

-----------------------------------------------------------------------------
(* What a step leaves alone.                                               *)

Call0(c) == <<place[c], ask[c], seen[c], found[c], fresh[c], had[c]>>

\* A call keeps its invariant when others publish, correct and store.
LEMMA DiscoveryUndisturbed ==
    ASSUME NEW c \in Callers, CallInv(c), Call0(c)' = Call0(c),
           \A r : Published(r) => Published(r)',
           \A a : FD!Stored(a) => FD!Stored(a)',
           dated \subseteq dated', corrected \subseteq corrected'
    PROVE  CallInv(c)'
<1>1. /\ place'[c] = place[c] /\ ask'[c] = ask[c] /\ seen'[c] = seen[c]
      /\ found'[c] = found[c] /\ fresh'[c] = fresh[c] /\ had'[c] = had[c]
    BY DEF Call0
<1>2. /\ place'[c] \notin {"idle", "raised"} => ask'[c] \in Requests
      /\ place'[c] \in {"idle", "identified", "raised"} => seen'[c] = {}
      /\ place'[c] \notin {"read", "writing", "conflict"} => found'[c] = {}
      /\ place'[c] \notin {"writing", "conflict"} => fresh'[c] = {}
      /\ place'[c] = "read" => ask'[c].kind = "sync" /\ found'[c] = seen'[c]
    BY <1>1, Zenon DEF CallInv
<1>3. /\ \A r \in seen'[c] : FD!Asks(ask'[c], r) /\ Published(r)'
      /\ \A r \in found'[c] \cup fresh'[c] : FD!Asks(ask'[c], r) /\ Published(r)' /\ Readable(r)
      /\ OneOfEach(found'[c]) /\ OneOfEach(fresh'[c])
    BY <1>1, Zenon DEF CallInv
<1>4. /\ place'[c] \in {"writing", "conflict"} =>
           \A r \in seen'[c] : FD!Stored(r.accession)' \/ \E f \in fresh'[c] : f.accession = r.accession
      /\ place'[c] = "ok" => \A r \in seen'[c] : FD!Stored(r.accession)'
    BY <1>1, Zenon DEF CallInv
<1>5. place'[c] \in {"writing", "conflict"} /\ ask'[c].kind = "sync" =>
        \A f \in fresh'[c] : f.accession \in had'[c] => f.accession \in corrected'
    BY <1>1 DEF CallInv
<1>6. place'[c] = "conflict" /\ ask'[c].kind = "sync" => Excused(c)'
  <2>1. Excused(c) => Excused(c)'
    <3> SUFFICES ASSUME NEW f \in fresh[c],
                        \/ \E g \in fresh[c] : /\ g.accession # f.accession
                                               /\ FD!StatementDate(g) = FD!StatementDate(f)
                        \/ \E v \in dated : v.accession # f.accession /\ v.date = FD!StatementDate(f)
                        \/ f.accession \in corrected
                        \/ FD!Stored(f.accession) /\ f.accession \notin had[c]
                 PROVE  \/ \E g \in fresh[c] : /\ g.accession # f.accession
                                               /\ FD!StatementDate(g) = FD!StatementDate(f)
                        \/ \E v \in dated' : v.accession # f.accession /\ v.date = FD!StatementDate(f)
                        \/ f.accession \in corrected'
                        \/ FD!Stored(f.accession)' /\ f.accession \notin had[c]
        BY <1>1 DEF Excused
    <3> QED
        OBVIOUS
  <2> QED
      BY <1>1, <2>1 DEF CallInv
<1> QED
    BY <1>2, <1>3, <1>4, <1>5, <1>6 DEF CallInv

\* A step of a call that writes nothing.
LEMMA OnlyReads ==
    ASSUME DiscoveryInv, NEW c \in Callers, place[c] # "ok",
           UNCHANGED <<shown, filings, dated, corrected>>,
           \A d \in Callers \ {c} : Call0(d)' = Call0(d),
           DiscoveryTypes', CallInv(c)'
    PROVE  DiscoveryInv'
<1>1. /\ \A r : Published(r) => Published(r)'
      /\ \A a : FD!Stored(a) => FD!Stored(a)'
      /\ dated \subseteq dated' /\ corrected \subseteq corrected'
    BY DEF Published, FD!Stored
<1>2. \A d \in Callers \ {c} : CallInv(d)'
    BY <1>1, DiscoveryUndisturbed DEF DiscoveryInv
<1>3. TablesInv'
  <2>1. ASSUME NEW f \in filings', NEW d \in Callers, place[d] = "ok", FD!Asks(ask[d], f)
        PROVE  place'[d] = "ok" /\ FD!Asks(ask'[d], f)
      BY <2>1 DEF Call0
  <2> QED
      BY <1>1, <2>1 DEF DiscoveryInv, TablesInv
<1>4. Distinct'
    BY DEF DiscoveryInv, Distinct
<1> QED
    BY <1>2, <1>3, <1>4 DEF DiscoveryInv

-----------------------------------------------------------------------------
(* Every action keeps the invariant.                                       *)

LEMMA CallKeeps ==
    ASSUME DiscoveryInv, NEW c \in Callers, FD!Call(c)
    PROVE  DiscoveryInv'
<1>1. PICK q \in Requests : ask' = [ask EXCEPT ![c] = q]
    BY DEF FD!Call
<1>2. DiscoveryTypes'
    BY <1>1 DEF DiscoveryInv, DiscoveryTypes, FD!Call, FD!Goto, Places
<1>3. /\ place'[c] = "identified" /\ ask'[c] = q
      /\ seen'[c] = {} /\ found'[c] = {} /\ fresh'[c] = {}
    BY <1>1 DEF DiscoveryInv, DiscoveryTypes, CallInv, FD!Call, FD!Goto
<1>4. CallInv(c)'
    BY <1>3 DEF CallInv, OneOfEach
<1> QED
    BY <1>2, <1>4, OnlyReads DEF FD!Call, FD!Goto, Call0, DiscoveryInv, DiscoveryTypes

LEMMA RaiseKeeps ==
    ASSUME DiscoveryInv, NEW c \in Callers, place[c] # "ok", FD!Raise(c)
    PROVE  DiscoveryInv'
<1>1. DiscoveryTypes'
    BY DEF DiscoveryInv, DiscoveryTypes, FD!Raise, FD!Over, FD!Goto, Places
<1>2. /\ place'[c] = "raised" /\ seen'[c] = {} /\ found'[c] = {} /\ fresh'[c] = {}
    BY DEF DiscoveryInv, DiscoveryTypes, FD!Raise, FD!Over, FD!Goto
<1>3. CallInv(c)'
    BY <1>2 DEF CallInv, OneOfEach
<1> QED
    BY <1>1, <1>3, OnlyReads DEF FD!Raise, FD!Over, FD!Goto, Call0, DiscoveryInv, DiscoveryTypes

\* What a sync finds is what it asked for; if that is nothing, it is done.
LEMMA ReadWindowKeeps ==
    ASSUME DiscoveryInv, NEW c \in Callers, FD!ReadWindow(c)
    PROVE  DiscoveryInv'
<1>1. PICK rows \in FD!Answers(shown) :
        /\ ~\E r \in rows : FD!Unreadable(ask[c], r)
        /\ FD!Remember(c, rows)
        /\ found' = [found EXCEPT ![c] = FD!FoundIn(ask[c], rows)]
        /\ FD!Goto(c, IF FD!FoundIn(ask[c], rows) = {} THEN "ok" ELSE "read")
    BY DEF FD!ReadWindow
<1> DEFINE fs == FD!FoundIn(ask[c], rows)
<1>2. /\ rows \in SUBSET FD!Report /\ OneOfEach(rows)
      /\ \A r \in rows : Published(r)
    BY AnswerRows, ReadRows DEF DiscoveryInv
<1>3. ask[c] \in Requests /\ ask[c].kind = "sync" /\ place[c] = "identified" /\ fresh[c] = {}
    BY DEF FD!ReadWindow, DiscoveryInv, CallInv
<1>4. fs = {r \in rows : FD!Asks(ask[c], r)} /\ \A r \in fs : Readable(r)
    BY <1>1, <1>2, <1>3, WindowHolds
<1> HIDE DEF fs
<1>5. /\ place'[c] = IF fs = {} THEN "ok" ELSE "read"
      /\ ask'[c] = ask[c] /\ seen'[c] = fs /\ found'[c] = fs /\ fresh'[c] = {}
      /\ \A r : Published(r) => Published(r)'
    BY <1>1, <1>3, <1>4 DEF DiscoveryInv, DiscoveryTypes, FD!ReadWindow, FD!Remember, FD!Goto, fs, Published
<1>6. DiscoveryTypes'
    BY <1>1, <1>2, <1>4 DEF DiscoveryInv, DiscoveryTypes, FD!ReadWindow, FD!Remember, FD!Goto, fs, Places
<1>7. \A r \in fs : FD!Asks(ask[c], r) /\ Published(r)' /\ Readable(r)
    BY <1>2, <1>4, <1>5
<1>8. OneOfEach(fs)
    BY <1>2, <1>4 DEF OneOfEach
<1>9. CallInv(c)'
    BY <1>3, <1>5, <1>7, <1>8 DEF CallInv, OneOfEach
<1> QED
    BY <1>3, <1>6, <1>9, OnlyReads DEF FD!ReadWindow, FD!Remember, FD!Goto, Call0, DiscoveryInv, DiscoveryTypes

LEMMA LocateKeeps ==
    ASSUME DiscoveryInv, NEW c \in Callers, FD!Locate(c)
    PROVE  DiscoveryInv'
<1>1. PICK rows \in FD!Answers(shown) :
        /\ ~\E r \in rows : FD!Unreadable(FD!Window(ask[c]), r)
        /\ FD!Located(c, rows) # {}
        /\ FD!Remember(c, rows)
        /\ fresh' = [fresh EXCEPT ![c] = FD!Located(c, rows)]
    BY DEF FD!Locate
<1>2. /\ rows \in SUBSET FD!Report /\ OneOfEach(rows)
      /\ \A r \in rows : Published(r)
    BY AnswerRows, ReadRows DEF DiscoveryInv
<1>3. ask[c] \in Requests /\ ask[c].kind = "ingest" /\ place[c] = "identified" /\ found[c] = {}
    BY DEF FD!Locate, DiscoveryInv, CallInv
<1> DEFINE fs == FD!Located(c, rows)
           asked == {r \in rows : FD!Asks(ask[c], r)}
<1>4. /\ fs \subseteq rows
      /\ \A r \in fs : FD!Asks(ask[c], r) /\ Readable(r)
      /\ \A r \in rows, f \in fs : FD!Asks(ask[c], r) => f.accession = r.accession
    BY <1>1, <1>2, <1>3, LocatedHolds
<1> HIDE DEF fs, asked
<1>5. /\ place'[c] = "writing" /\ ask'[c] = ask[c]
      /\ seen'[c] = asked /\ found'[c] = {} /\ fresh'[c] = fs
      /\ \A r : Published(r) => Published(r)'
      /\ \A a : FD!Stored(a) => FD!Stored(a)'
    BY <1>1, <1>3 DEF DiscoveryInv, DiscoveryTypes, FD!Locate, FD!Remember, FD!Goto, fs, asked, Published, FD!Stored
<1>6. DiscoveryTypes'
    BY <1>1, <1>2, <1>4 DEF DiscoveryInv, DiscoveryTypes, FD!Locate, FD!Remember, FD!Goto, fs, Places
<1>7. \A r \in asked : FD!Asks(ask[c], r) /\ Published(r)'
    BY <1>2, <1>5 DEF asked
<1>8. /\ \A r \in fs : FD!Asks(ask[c], r) /\ Published(r)' /\ Readable(r)
      /\ OneOfEach(fs)
    BY <1>2, <1>4, <1>5 DEF OneOfEach
<1>9. \A r \in asked : \E f \in fs : f.accession = r.accession
    BY <1>1, <1>4 DEF asked, fs
<1>10. CallInv(c)'
    BY <1>3, <1>5, <1>7, <1>8, <1>9 DEF CallInv, OneOfEach
<1> QED
    BY <1>3, <1>6, <1>10, OnlyReads DEF FD!Locate, FD!Remember, FD!Goto, Call0, DiscoveryInv, DiscoveryTypes

\* A filing that is taken for new and is stored all the same has been changed.
LEMMA OverlookedIsCorrected ==
    ASSUME DiscoveryInv, NEW c \in Callers, place[c] = "read", NEW f \in FD!NewIn(c), FD!Stored(f.accession)
    PROVE  f.accession \in corrected
<1>1. PICK g \in filings : g.accession = f.accession
    BY DEF FD!Stored
<1>2. f \in found[c] /\ Published(f) /\ Published(g) /\ FD!Asks(ask[c], f) /\ ask[c].kind = "sync"
    BY DEF DiscoveryInv, CallInv, TablesInv, FD!NewIn
<1>3. SUFFICES ASSUME f.accession \notin corrected
               PROVE  FALSE
    OBVIOUS
<1>4. g.filed = f.filed /\ g.form = f.form
    BY <1>1, <1>2, <1>3, SameReading DEF DiscoveryInv, Alike
<1>5. g \in FD!Existing(ask[c])
    BY <1>2, <1>4 DEF FD!Asks, FD!Existing, FD!Within
<1> QED
    BY <1>1, <1>5 DEF FD!NewIn

LEMMA NothingNewKeeps ==
    ASSUME DiscoveryInv, NEW c \in Callers, FD!NothingNew(c)
    PROVE  DiscoveryInv'
<1>1. place[c] = "read" /\ found[c] = seen[c] /\ ask[c] \in Requests
    BY DEF FD!NothingNew, DiscoveryInv, CallInv
<1>2. DiscoveryTypes'
    BY DEF DiscoveryInv, DiscoveryTypes, FD!NothingNew, FD!Over, FD!Goto, Places
<1>3. /\ place'[c] = "ok" /\ ask'[c] = ask[c] /\ seen'[c] = seen[c] /\ found'[c] = {} /\ fresh'[c] = {}
      /\ \A r : Published(r) => Published(r)'
      /\ \A a : FD!Stored(a) => FD!Stored(a)'
    BY DEF DiscoveryInv, DiscoveryTypes, FD!NothingNew, FD!Over, FD!Goto, Published, FD!Stored
<1>4. \A r \in seen[c] : FD!Stored(r.accession)
    BY <1>1 DEF FD!NothingNew, FD!NewIn, FD!Existing, FD!Stored
<1>5. \A r \in seen[c] : FD!Asks(ask[c], r) /\ Published(r)
    BY DEF DiscoveryInv, CallInv
<1>6. CallInv(c)'
    BY <1>1, <1>3, <1>4, <1>5 DEF CallInv, OneOfEach
<1> QED
    BY <1>1, <1>2, <1>6, OnlyReads DEF FD!NothingNew, FD!Over, FD!Goto, Call0, DiscoveryInv, DiscoveryTypes

LEMMA SelectNewKeeps ==
    ASSUME DiscoveryInv, NEW c \in Callers, FD!SelectNew(c)
    PROVE  DiscoveryInv'
<1>1. place[c] = "read" /\ found[c] = seen[c] /\ ask[c] \in Requests /\ FD!NewIn(c) \subseteq found[c]
    BY DEF FD!SelectNew, DiscoveryInv, CallInv, FD!NewIn
<1>2. {f.accession : f \in filings} \subseteq Nat
    BY DEF DiscoveryInv, DiscoveryTypes, FD!Report
<1>3. DiscoveryTypes'
    BY <1>1, <1>2 DEF DiscoveryInv, DiscoveryTypes, FD!SelectNew, FD!Goto, Places
<1>4. /\ place'[c] = "writing" /\ ask'[c] = ask[c] /\ seen'[c] = seen[c] /\ found'[c] = found[c]
      /\ fresh'[c] = FD!NewIn(c) /\ had'[c] = {f.accession : f \in filings} /\ corrected' = corrected
      /\ \A r : Published(r) => Published(r)'
      /\ \A a : FD!Stored(a) => FD!Stored(a)'
    BY DEF DiscoveryInv, DiscoveryTypes, FD!SelectNew, FD!Goto, Published, FD!Stored
<1>5. \A r \in seen[c] : FD!Stored(r.accession) \/ \E f \in FD!NewIn(c) : f.accession = r.accession
    BY <1>1 DEF FD!NewIn, FD!Existing, FD!Stored
<1>6. \A f \in FD!NewIn(c) : f.accession \in had'[c] => f.accession \in corrected
    BY <1>1, <1>4, OverlookedIsCorrected DEF FD!Stored
<1>7. /\ \A r \in seen[c] : FD!Asks(ask[c], r) /\ Published(r)
      /\ \A r \in found[c] : FD!Asks(ask[c], r) /\ Published(r) /\ Readable(r)
      /\ OneOfEach(found[c]) /\ OneOfEach(FD!NewIn(c))
    BY <1>1 DEF DiscoveryInv, CallInv, OneOfEach
<1>8. CallInv(c)'
    BY <1>1, <1>4, <1>5, <1>6, <1>7 DEF CallInv, OneOfEach
<1> QED
    BY <1>1, <1>3, <1>8, OnlyReads DEF FD!SelectNew, FD!Goto, Call0, DiscoveryInv, DiscoveryTypes

\* A sync that collides: with itself, with versions of another accession, or with those
\* of a filing that was changed or that another call has stored since.
LEMMA CollisionIsExcused ==
    ASSUME DiscoveryInv, NEW c \in Callers, place[c] = "writing", ask[c].kind = "sync", FD!Collide(fresh[c])
    PROVE  Excused(c)
<1>1. CASE \E f, g \in fresh[c] : f # g /\ FD!StatementDate(f) = FD!StatementDate(g)
  <2>1. PICK f \in fresh[c] : \E g \in fresh[c] : f # g /\ FD!StatementDate(f) = FD!StatementDate(g)
      BY <1>1
  <2>2. PICK g \in fresh[c] : f # g /\ FD!StatementDate(f) = FD!StatementDate(g)
      BY <2>1
  <2>3. g.accession # f.accession
      BY <2>2 DEF DiscoveryInv, CallInv, OneOfEach
  <2> QED
      BY <2>2, <2>3 DEF Excused
<1>2. CASE \E f \in fresh[c], v \in dated : FD!StatementDate(f) = v.date
  <2>1. PICK f \in fresh[c] : \E v \in dated : FD!StatementDate(f) = v.date
      BY <1>2
  <2>2. PICK v \in dated : FD!StatementDate(f) = v.date
      BY <2>1
  <2>3. CASE v.accession # f.accession
      BY <2>2, <2>3 DEF Excused
  <2>4. CASE v.accession = f.accession
    <3>1. FD!Stored(f.accession)
        BY <2>4 DEF DiscoveryInv, TablesInv
    <3>2. f.accession \in had[c] => f.accession \in corrected
        BY DEF DiscoveryInv, CallInv
    <3> QED
        BY <3>1, <3>2 DEF Excused
  <2> QED
      BY <2>3, <2>4
<1> QED
    BY <1>1, <1>2 DEF FD!Collide

LEMMA ConflictKeeps ==
    ASSUME DiscoveryInv, NEW c \in Callers, FD!Conflict(c)
    PROVE  DiscoveryInv'
<1>1. DiscoveryTypes'
    BY DEF DiscoveryInv, DiscoveryTypes, FD!Conflict, FD!Goto, Places
<1>2. /\ place[c] = "writing" /\ place'[c] = "conflict" /\ ask'[c] = ask[c] /\ seen'[c] = seen[c]
      /\ found'[c] = found[c] /\ fresh'[c] = fresh[c] /\ had'[c] = had[c] /\ corrected' = corrected
      /\ \A r : Published(r) => Published(r)'
      /\ \A a : FD!Stored(a) => FD!Stored(a)'
    BY DEF DiscoveryInv, DiscoveryTypes, FD!Conflict, FD!Goto, Published, FD!Stored
<1>3. ask[c].kind = "sync" => Excused(c)
    BY <1>2, CollisionIsExcused DEF FD!Conflict
<1>4. Excused(c) => Excused(c)'
    BY DEF FD!Conflict, Excused, FD!Stored
<1>5. CallInv(c)'
    BY <1>2, <1>3, <1>4 DEF DiscoveryInv, CallInv
<1> QED
    BY <1>1, <1>2, <1>5, OnlyReads DEF FD!Conflict, FD!Goto, Call0, DiscoveryInv, DiscoveryTypes

\* The filings of a call that returns are stored with the dates of their versions.
LEMMA StoreKeeps ==
    ASSUME DiscoveryInv, NEW c \in Callers, FD!Store(c)
    PROVE  DiscoveryInv'
<1> DEFINE fs == fresh[c]
           new == {[accession |-> f.accession, date |-> FD!StatementDate(f)] : f \in fs}
<1>1. /\ place[c] = "writing" /\ ask[c] \in Requests
      /\ fs \subseteq FD!Report
      /\ \A f \in fs : FD!Asks(ask[c], f) /\ Published(f) /\ Readable(f)
      /\ \A r \in seen[c] : FD!Asks(ask[c], r) /\ Published(r)
      /\ \A r \in seen[c] : FD!Stored(r.accession) \/ \E f \in fs : f.accession = r.accession
    BY DEF FD!Store, DiscoveryInv, DiscoveryTypes, CallInv
<1>2. /\ filings' = {f \in filings : \A g \in fs : g.accession # f.accession} \cup fs
      /\ dated' = dated \cup new
      /\ shown' = shown /\ corrected' = corrected
    BY DEF FD!Store
<1>3. /\ place'[c] = "ok" /\ ask'[c] = ask[c] /\ seen'[c] = seen[c]
      /\ found'[c] = {} /\ fresh'[c] = {}
      /\ \A d \in Callers \ {c} : Call0(d)' = Call0(d)
    BY DEF FD!Store, FD!Over, FD!Goto, Call0, DiscoveryInv, DiscoveryTypes
<1>4. \A f \in fs : FD!StatementDate(f) \in Nat /\ f.accession \in Nat
    BY <1>1 DEF FD!StatementDate, Readable, FD!Report
<1>5. DiscoveryTypes'
  <2>1. new \subseteq [accession : Nat, date : Nat]
      BY <1>4
  <2>2. filings' \subseteq FD!Report
      BY <1>1, <1>2 DEF DiscoveryInv, DiscoveryTypes
  <2> HIDE DEF new
  <2> QED
      BY <1>2, <2>1, <2>2 DEF FD!Store, FD!Over, FD!Goto, DiscoveryInv, DiscoveryTypes, Places
<1>6. ASSUME NEW f \in fs PROVE \E v \in new : v.accession = f.accession
  <2>1. [accession |-> f.accession, date |-> FD!StatementDate(f)] \in new
      OBVIOUS
  <2> QED
      BY <2>1
<1>7. \A v \in new : \E f \in fs : v.accession = f.accession
    OBVIOUS
<1> HIDE DEF new
<1>8. \A r : Published(r) => Published(r)'
    BY <1>2 DEF Published
<1>9. \A a : FD!Stored(a) => FD!Stored(a)'
    BY <1>2 DEF FD!Stored
<1>10. \A f \in fs : FD!Stored(f.accession)'
    BY <1>2 DEF FD!Stored
<1>11. \A d \in Callers \ {c} : CallInv(d)'
    BY <1>2, <1>3, <1>8, <1>9, DiscoveryUndisturbed DEF DiscoveryInv
<1>12. CallInv(c)'
    BY <1>1, <1>3, <1>8, <1>9, <1>10 DEF CallInv, OneOfEach
<1>13. TablesInv'
  <2>1. ASSUME NEW f \in filings'
        PROVE  /\ Published(f)'
               /\ \E v \in dated' : v.accession = f.accession
               /\ \E d \in Callers : place'[d] = "ok" /\ FD!Asks(ask'[d], f)
    <3>1. CASE f \in fs
        BY <1>1, <1>2, <1>3, <1>6, <1>8, <3>1
    <3>2. CASE f \in filings
      <4>1. /\ Published(f)
            /\ \E v \in dated : v.accession = f.accession
            /\ \E d \in Callers : place[d] = "ok" /\ FD!Asks(ask[d], f)
          BY <3>2 DEF DiscoveryInv, TablesInv
      <4>2. \A d \in Callers : place[d] = "ok" => place'[d] = "ok" /\ ask'[d] = ask[d]
          BY <1>1, <1>3 DEF Call0
      <4> QED
          BY <1>2, <1>8, <4>1, <4>2
    <3> QED
        BY <1>2, <3>1, <3>2
  <2>2. \A v \in dated' : FD!Stored(v.accession)'
      BY <1>2, <1>7, <1>9, <1>10 DEF DiscoveryInv, TablesInv
  <2> QED
      BY <2>1, <2>2 DEF TablesInv
<1>14. Distinct'
    BY <1>2 DEF DiscoveryInv, Distinct
<1> QED
    BY <1>5, <1>11, <1>12, <1>13, <1>14 DEF DiscoveryInv

\* The provider's steps, for everybody.
LEMMA OnlyShown ==
    ASSUME DiscoveryInv, UNCHANGED <<filings, dated, known, FD!calls>>,
           \A r : Published(r) => Published(r)',
           corrected \subseteq corrected', DiscoveryTypes', Distinct'
    PROVE  DiscoveryInv'
<1>1. \A a : FD!Stored(a) => FD!Stored(a)'
    BY DEF FD!Stored
<1>2. \A d \in Callers : CallInv(d)'
    BY <1>1, DiscoveryUndisturbed DEF DiscoveryInv, FD!calls, Call0
<1>3. TablesInv'
    BY <1>1 DEF DiscoveryInv, TablesInv, FD!calls
<1> QED
    BY <1>2, <1>3 DEF DiscoveryInv

LEMMA PublishKeeps ==
    ASSUME DiscoveryInv, FD!Publish
    PROVE  DiscoveryInv'
<1>1. PICK r \in Reports : /\ \A i \in DOMAIN shown : shown[i].accession < r.accession
                          /\ shown' = <<r>> \o shown
    BY DEF FD!Publish
<1>2. r \in FD!Report /\ shown \in Seq(FD!Report)
    BY Discovery DEF FD!DiscoveryAssumption, DiscoveryInv, DiscoveryTypes
<1>3. /\ shown' \in Seq(FD!Report)
      /\ FD!Range(shown') = {r} \cup FD!Range(shown)
      /\ DOMAIN shown' = 1..(Len(shown) + 1)
      /\ shown'[1] = r
      /\ \A i \in DOMAIN shown : shown'[i + 1] = shown[i]
    BY <1>1, <1>2, RowAdded
<1>4. DiscoveryTypes'
    BY <1>3 DEF DiscoveryInv, DiscoveryTypes, FD!Publish, FD!calls
<1>5. Distinct'
  <2>1. DOMAIN shown = 1..Len(shown) /\ Len(shown) \in Nat
      BY <1>2
  <2>2. \A i \in DOMAIN shown : shown[i].accession \in Nat /\ r.accession \in Nat
    <3>1. \A i \in DOMAIN shown : shown[i] \in FD!Report
        BY <1>2, <2>1
    <3> QED
        BY <1>2, <3>1 DEF FD!Report
  <2>3. ASSUME NEW i \in DOMAIN shown', i # 1
        PROVE  i - 1 \in DOMAIN shown /\ shown'[i] = shown[i - 1]
    <3>1. i - 1 \in DOMAIN shown /\ (i - 1) + 1 = i
        BY <1>3, <2>1, <2>3
    <3> QED
        BY <1>3, <3>1
  <2>4. ASSUME NEW i \in DOMAIN shown', NEW k \in DOMAIN shown',
               shown'[i].accession = shown'[k].accession
        PROVE  i = k
    <3>1. CASE i = 1 /\ k # 1
        BY <1>1, <1>3, <2>2, <2>3, <2>4, <3>1
    <3>2. CASE i # 1 /\ k = 1
        BY <1>1, <1>3, <2>2, <2>3, <2>4, <3>2
    <3>3. CASE i # 1 /\ k # 1
      <4>1. i - 1 = k - 1
          BY <2>3, <2>4, <3>3 DEF DiscoveryInv, Distinct
      <4> QED
          BY <1>3, <2>1, <4>1
    <3> QED
        BY <3>1, <3>2, <3>3
  <2> QED
      BY <2>4 DEF Distinct
<1>6. \A x : Published(x) => Published(x)'
    BY <1>3 DEF FD!Publish, Published
<1> QED
    BY <1>4, <1>5, <1>6, OnlyShown DEF FD!Publish

LEMMA CorrectKeeps ==
    ASSUME DiscoveryInv, FD!Correct
    PROVE  DiscoveryInv'
<1>1. PICK i \in DOMAIN shown : \E r \in Reports :
        /\ shown[i].accession = r.accession
        /\ shown' = [shown EXCEPT ![i] = r]
        /\ corrected' = corrected \cup {r.accession}
    BY DEF FD!Correct
<1>2. PICK r \in Reports :
        /\ shown[i].accession = r.accession
        /\ shown' = [shown EXCEPT ![i] = r]
        /\ corrected' = corrected \cup {r.accession}
    BY <1>1
<1>3. r \in FD!Report /\ r.accession \in Nat /\ shown \in Seq(FD!Report)
    BY Discovery DEF FD!DiscoveryAssumption, FD!Report, DiscoveryInv, DiscoveryTypes
<1>4. /\ shown' \in Seq(FD!Report)
      /\ DOMAIN shown' = DOMAIN shown
      /\ \A k \in DOMAIN shown : shown'[k] = IF k = i THEN r ELSE shown[k]
    BY <1>2, <1>3, RowReplaced
<1>5. DiscoveryTypes'
    BY <1>2, <1>3, <1>4 DEF DiscoveryInv, DiscoveryTypes, FD!Correct, FD!calls
<1>6. Distinct'
    BY <1>2, <1>4 DEF DiscoveryInv, Distinct
<1>7. ASSUME NEW x, Published(x)
      PROVE  Published(x)'
  <2>1. PICK k \in DOMAIN shown : /\ shown[k].accession = x.accession
                                  /\ x.accession \notin corrected => Alike(x, shown[k])
      BY <1>7 DEF Published, FD!Range
  <2>2. shown'[k].accession = x.accession
      BY <1>2, <1>4, <2>1
  <2>3. x.accession \notin corrected' => Alike(x, shown'[k])
      BY <1>2, <1>4, <2>1
  <2> QED
      BY <1>4, <2>2, <2>3 DEF Published, FD!Range
<1> QED
    BY <1>2, <1>5, <1>6, <1>7, OnlyShown DEF FD!Correct

-----------------------------------------------------------------------------
(* The theorems.                                                           *)

LEMMA DiscoveryInit == FD!Init => DiscoveryInv
<1> SUFFICES ASSUME FD!Init
             PROVE  DiscoveryInv
    OBVIOUS
<1>1. DiscoveryTypes
    BY DEF FD!Init, DiscoveryTypes, Places
<1>2. Distinct /\ TablesInv
    BY DEF FD!Init, Distinct, TablesInv
<1>3. \A c \in Callers : CallInv(c)
    BY DEF FD!Init, CallInv, OneOfEach
<1> QED
    BY <1>1, <1>2, <1>3 DEF DiscoveryInv

LEMMA DiscoveryStep == DiscoveryInv /\ [FD!Next]_FD!vars => DiscoveryInv'
<1> SUFFICES ASSUME DiscoveryInv, [FD!Next]_FD!vars
             PROVE  DiscoveryInv'
    OBVIOUS
<1>1. CASE FD!Publish
    BY <1>1, PublishKeeps
<1>2. CASE FD!Correct
    BY <1>2, CorrectKeeps
<1>3. ASSUME NEW c \in Callers,
             \/ FD!Call(c) \/ FD!Refuse(c)
             \/ FD!ReadWindow(c) \/ FD!Locate(c) \/ FD!NotFound(c) \/ FD!CannotRead(c)
             \/ FD!NothingNew(c) \/ FD!SelectNew(c) \/ FD!Store(c) \/ FD!Conflict(c)
             \/ FD!UnknownCompany(c) \/ FD!Fail(c)
      PROVE  DiscoveryInv'
  <2>1. CASE FD!Refuse(c) \/ FD!NotFound(c) \/ FD!CannotRead(c) \/ FD!UnknownCompany(c) \/ FD!Fail(c)
      BY <2>1, RaiseKeeps DEF FD!Refuse, FD!NotFound, FD!CannotRead, FD!UnknownCompany, FD!Fail
  <2>2. CASE FD!Call(c)
      BY <2>2, CallKeeps
  <2>3. CASE FD!ReadWindow(c)
      BY <2>3, ReadWindowKeeps
  <2>4. CASE FD!Locate(c)
      BY <2>4, LocateKeeps
  <2>5. CASE FD!NothingNew(c)
      BY <2>5, NothingNewKeeps
  <2>6. CASE FD!SelectNew(c)
      BY <2>6, SelectNewKeeps
  <2>7. CASE FD!Store(c)
      BY <2>7, StoreKeeps
  <2>8. CASE FD!Conflict(c)
      BY <2>8, ConflictKeeps
  <2> QED
      BY <1>3, <2>1, <2>2, <2>3, <2>4, <2>5, <2>6, <2>7, <2>8
<1>4. CASE UNCHANGED FD!vars
  <2>1. DiscoveryTypes' /\ Distinct'
      BY <1>4 DEF DiscoveryInv, DiscoveryTypes, Distinct, FD!vars, FD!calls
  <2>2. \A r : Published(r) => Published(r)'
      BY <1>4 DEF Published, FD!vars
  <2> QED
      BY <1>4, <2>1, <2>2, OnlyShown DEF FD!vars
<1> QED
    BY <1>1, <1>2, <1>3, <1>4 DEF FD!Next

LEMMA DiscoveryAlways == FD!Spec => []DiscoveryInv
BY DiscoveryInit, DiscoveryStep, PTL DEF FD!Spec

\* Every variable keeps its type; no date that cannot be read gets into the tables.
THEOREM DiscoveryTypeCorrect == FD!Spec => []DiscoveryTypes
<1>1. DiscoveryInv => DiscoveryTypes
    BY DEF DiscoveryInv
<1> QED
    BY DiscoveryAlways, <1>1, PTL

\* The two halves of a window are the window.
LEMMA WindowsAdd ==
    ASSUME NEW q \in Requests, q.kind = "sync", NEW day \in q.from..q.to,
           NEW rows \in SUBSET FD!Report
    PROVE  LET first == [q EXCEPT !.to = day]
               rest  == [q EXCEPT !.from = day + 1]
               Reads(w) == ~\E r \in rows : FD!Unreadable(w, r)
           IN  /\ Reads(q) <=> Reads(first) /\ (day < q.to => Reads(rest))
               /\ Reads(q) =>
                    /\ FD!FoundIn(q, rows) = FD!FoundIn(first, rows) \cup FD!FoundIn(rest, rows)
                    /\ FD!FoundIn(first, rows) \cap FD!FoundIn(rest, rows) = {}
<1> DEFINE first == [q EXCEPT !.to = day]
           rest  == [q EXCEPT !.from = day + 1]
           Reads(w) == ~\E r \in rows : FD!Unreadable(w, r)
<1>1. q \in [kind : {"sync"}, matches : BOOLEAN, from : Nat, to : Nat,
            types : SUBSET STRING, amendments : BOOLEAN]
    BY RequestFields
<1>2. /\ q.from \in Nat /\ q.to \in Nat /\ day \in Nat /\ q.from <= day /\ day <= q.to
      /\ first.from = q.from /\ first.to = day
      /\ rest.from = day + 1 /\ rest.to = q.to
      /\ first.types = q.types /\ first.amendments = q.amendments
      /\ rest.types = q.types /\ rest.amendments = q.amendments
    BY <1>1
<1> HIDE DEF first, rest
<1>3. ASSUME NEW r \in rows
      PROVE  /\ FD!Wanted(first, r) <=> FD!Wanted(q, r)
             /\ FD!Wanted(rest, r) <=> FD!Wanted(q, r)
             /\ FD!Within(q, r.filed) <=> FD!Within(first, r.filed) \/ FD!Within(rest, r.filed)
             /\ ~(FD!Within(first, r.filed) /\ FD!Within(rest, r.filed))
             /\ day = q.to => ~FD!Within(rest, r.filed)
    BY <1>2 DEF FD!Wanted, FD!Within
<1>4. ASSUME NEW r \in rows
      PROVE  /\ FD!Unreadable(first, r) => FD!Unreadable(q, r)
             /\ FD!Unreadable(rest, r) => FD!Unreadable(q, r)
             /\ FD!Unreadable(q, r) => FD!Unreadable(first, r) \/ (day < q.to /\ FD!Unreadable(rest, r))
    BY <1>2, <1>3 DEF FD!Unreadable
<1>5. Reads(q) <=> Reads(first) /\ (day < q.to => Reads(rest))
    BY <1>4
<1>6. /\ FD!FoundIn(q, rows) = FD!FoundIn(first, rows) \cup FD!FoundIn(rest, rows)
      /\ FD!FoundIn(first, rows) \cap FD!FoundIn(rest, rows) = {}
    BY <1>3 DEF FD!FoundIn
<1> HIDE DEF Reads
<1>7. /\ Reads(q) <=> Reads(first) /\ (day < q.to => Reads(rest))
      /\ Reads(q) =>
           /\ FD!FoundIn(q, rows) = FD!FoundIn(first, rows) \cup FD!FoundIn(rest, rows)
           /\ FD!FoundIn(first, rows) \cap FD!FoundIn(rest, rows) = {}
    BY <1>5, <1>6
<1> QED
    BY <1>7, Zenon DEF first, rest, Reads

\* A call that returned has all it read and asked for in the tables, and a sync finds it
\* there when it is repeated, unless the provider has changed the row; nothing is stored
\* that was not asked for; and a sync fails for a reason.
THEOREM SyncsCoverIt == FD!Spec => []SyncsCoverTheirWindow
<1>1. ASSUME DiscoveryInv
      PROVE  SyncsCoverTheirWindow
  <2>1. ASSUME NEW c \in Callers, place[c] = "ok", NEW r \in seen[c]
        PROVE  FD!Stored(r.accession) /\ \E v \in dated : v.accession = r.accession
      BY <1>1, <2>1 DEF DiscoveryInv, CallInv, TablesInv, FD!Stored
  <2>2. ASSUME NEW c \in Callers, place[c] = "ok", ask[c].kind = "sync", NEW r \in seen[c],
               r.accession \notin corrected
        PROVE  \E f \in FD!Existing(ask[c]) : f.accession = r.accession
    <3>1. PICK f \in filings : f.accession = r.accession
        BY <2>1, <2>2 DEF FD!Stored
    <3>2. Published(f) /\ Published(r) /\ FD!Asks(ask[c], r)
        BY <1>1 DEF DiscoveryInv, TablesInv, CallInv
    <3>3. f.filed = r.filed /\ f.form = r.form
        BY <1>1, <2>2, <3>1, <3>2, SameReading DEF DiscoveryInv, Alike
    <3> QED
        BY <2>2, <3>1, <3>2, <3>3 DEF FD!Asks, FD!Existing, FD!Within
  <2>3. \A f \in filings : \E c \in Callers : place[c] = "ok" /\ FD!Asks(ask[c], f)
      BY <1>1 DEF DiscoveryInv, TablesInv
  <2>4. \A c \in Callers : place[c] = "conflict" /\ ask[c].kind = "sync" => Excused(c)
      BY <1>1 DEF DiscoveryInv, CallInv
  <2>5. FD!Range(shown) \in SUBSET FD!Report
      BY <1>1 DEF DiscoveryInv, DiscoveryTypes, FD!Range
  <2> QED
      BY <2>1, <2>2, <2>3, <2>4, <2>5, WindowsAdd
      DEF SyncsCoverTheirWindow, FD!SyncsCoverTheirWindow, Excused
<1> QED
    BY <1>1, DiscoveryAlways, PTL

-----------------------------------------------------------------------------
(* Two judges of one statement.                                            *)

\* What the judges find, with or without the statement before.
Found(compare, differs) ==
    LET anomalies == FQ!AnomaliesOf(now, past)
        issues    == FQ!Issues(FQ!Core(now), compare, FQ!Before(past), differs)
    IN  [anomalies |-> anomalies,
         quality   |-> {FQ!FactQuality(f, anomalies) : f \in now},
         compared  |-> compare,
         issues    |-> issues,
         safe      |-> FQ!ModelingSafe(issues)]

\* No fact of the past is listed twice, and what was found is what would be found now.
JudgesInv ==
    /\ type \in DOMAIN RequiredOf
    /\ now \in SUBSET FQ!NowFact /\ IsFiniteSet(now) /\ Cardinality(now) <= MaxNow
    /\ past \in Seq(FQ!PastFact) /\ Len(past) <= MaxPast
    /\ \A i, j \in 1..Len(past) : i # j => past[i] # past[j]
    /\ judged = None \/ \E compare, differs \in BOOLEAN : judged = Found(compare, differs)

LEMMA JudgesSizes ==
    ASSUME NEW S
    PROVE  FQ!Cardinality(S) = Cardinality(S)
BY DEF FQ!Cardinality, Cardinality

\* What is found depends on nothing else.
LEMMA FoundAgain ==
    ASSUME type' = type, now' = now, past' = past, NEW compare, NEW differs
    PROVE  Found(compare, differs)' = Found(compare, differs)
<1>1. FQ!AnomaliesOf(now, past)' = FQ!AnomaliesOf(now, past)
    BY DEF FQ!AnomaliesOf, FQ!Missing, FQ!FactAnomalies, FQ!About, FQ!HistoryOf, FQ!LastOf,
           FQ!Outgrows, FQ!Earlier
<1> QED
    BY <1>1 DEF Found, FQ!FactQuality, FQ!Issues, FQ!Core, FQ!Before, FQ!ModelingSafe,
        FQ!MissingCore, FQ!BadSigns, FQ!OtherCurrency, FQ!Swings, FQ!Distance, FQ!Issue, FQ!Score,
        FQ!Earlier, FQ!ToSet

LEMMA JudgesInit == FQ!Init => JudgesInv
<1> SUFFICES ASSUME FQ!Init PROVE JudgesInv
    OBVIOUS
<1>1. now = {} /\ past = <<>> /\ judged = None /\ type \in DOMAIN RequiredOf
    BY DEF FQ!Init
<1>2. IsFiniteSet({}) /\ Cardinality({}) = 0
    BY FS_EmptySet
<1>3. MaxNow \in Nat /\ MaxPast \in Nat
    BY Judges DEF FQ!FactRulesAssumption
<1> QED
    BY <1>1, <1>2, <1>3 DEF JudgesInv

LEMMA JudgesStep == JudgesInv /\ [FQ!Next]_FQ!case => JudgesInv'
<1> SUFFICES ASSUME JudgesInv, [FQ!Next]_FQ!case PROVE JudgesInv'
    OBVIOUS
<1>1. CASE FQ!AddFact
  <2>1. PICK f \in FQ!NowFact : now' = now \cup {f}
      BY <1>1 DEF FQ!AddFact
  <2>2. /\ judged = None /\ judged' = None /\ Cardinality(now) < MaxNow
        /\ type' = type /\ past' = past
      BY <1>1, JudgesSizes DEF FQ!AddFact
  <2>3. IsFiniteSet(now) /\ Cardinality(now) \in Nat
      BY FS_CardinalityType DEF JudgesInv
  <2>4. IsFiniteSet(now \cup {f}) /\ Cardinality(now \cup {f}) \in {Cardinality(now), Cardinality(now) + 1}
      BY <2>3, FS_AddElement
  <2>5. MaxNow \in Nat
      BY Judges DEF FQ!FactRulesAssumption
  <2> QED
      BY <2>1, <2>2, <2>3, <2>4, <2>5 DEF JudgesInv
<1>2. CASE FQ!AddPast
  <2>1. PICK f \in FQ!PastFact :
            /\ \A g \in FQ!ToSet(past) : g.metric # f.metric \/ g.place # f.place
            /\ past' = Append(past, f)
      BY <1>2 DEF FQ!AddPast
  <2>2. /\ judged = None /\ judged' = None /\ Len(past) < MaxPast
        /\ type' = type /\ now' = now
      BY <1>2 DEF FQ!AddPast
  <2>3. past \in Seq(FQ!PastFact) /\ Len(past) \in Nat /\ MaxPast \in Nat
      BY Judges DEF FQ!FactRulesAssumption, JudgesInv
  <2>4. /\ past' \in Seq(FQ!PastFact) /\ Len(past') = Len(past) + 1
        /\ \A i \in 1..Len(past) : past'[i] = past[i]
        /\ past'[Len(past) + 1] = f
      BY <2>1, <2>3
  <2>5. \A i \in 1..Len(past) : past[i] # f
      BY <2>1, <2>3 DEF FQ!ToSet
  <2>6. ASSUME NEW i \in 1..Len(past'), NEW j \in 1..Len(past'), i # j PROVE past'[i] # past'[j]
    <3>1. CASE i \in 1..Len(past) /\ j \in 1..Len(past)
        BY <2>4, <2>6, <3>1 DEF JudgesInv
    <3>2. CASE i = Len(past) + 1 /\ j \in 1..Len(past)
        BY <2>4, <2>5, <3>2
    <3>3. CASE j = Len(past) + 1 /\ i \in 1..Len(past)
        BY <2>4, <2>5, <3>3
    <3> QED
        BY <2>3, <2>4, <2>6, <3>1, <3>2, <3>3
  <2> QED
      BY <2>2, <2>3, <2>4, <2>6 DEF JudgesInv
<1>3. CASE FQ!Evaluate
  <2>1. type' = type /\ now' = now /\ past' = past
      BY <1>3 DEF FQ!Evaluate
  <2>2. \E compare, differs \in BOOLEAN : judged' = Found(compare, differs)
      BY <1>3 DEF FQ!Evaluate, Found
  <2>3. \A compare, differs : Found(compare, differs)' = Found(compare, differs)
      BY <2>1, FoundAgain
  <2> QED
      BY <2>1, <2>2, <2>3 DEF JudgesInv
<1>4. CASE FQ!Return \/ UNCHANGED FQ!case
  <2>1. /\ type' = type /\ now' = now /\ past' = past
        /\ judged' = None \/ judged' = judged
      BY <1>4 DEF FQ!Return, FQ!case
  <2>2. \A compare, differs : Found(compare, differs)' = Found(compare, differs)
      BY <2>1, FoundAgain
  <2> QED
      BY <2>1, <2>2 DEF JudgesInv
<1> QED
    BY <1>1, <1>2, <1>3, <1>4 DEF FQ!Next

LEMMA JudgesAlways == FQ!Spec => []JudgesInv
<1>1. FQ!Init => JudgesInv
    BY JudgesInit
<1>2. JudgesInv /\ [FQ!Next]_FQ!case => JudgesInv'
    BY JudgesStep
<1> QED
    BY <1>1, <1>2, PTL DEF FQ!Spec

\* The statement and its history stay of their types, and as small as the bounds say.
THEOREM JudgesTypeCorrect == FQ!Spec => []FQ!TypeOK
<1>1. ASSUME JudgesInv PROVE FQ!TypeOK
  <2>1. past \in [1..Len(past) -> FQ!PastFact] /\ Len(past) \in 0..MaxPast
    <3>1. MaxPast \in Nat /\ Len(past) \in Nat
        BY <1>1, Judges DEF FQ!FactRulesAssumption, JudgesInv
    <3> QED
        BY <1>1, <3>1 DEF JudgesInv
  <2>2. past \in FQ!BoundedSeq(FQ!PastFact, MaxPast)
      BY <2>1 DEF FQ!BoundedSeq, FQ!SeqOf
  <2> QED
      BY <1>1, <2>2, JudgesSizes DEF JudgesInv, FQ!TypeOK
<1> QED
    BY <1>1, JudgesAlways, PTL

\* A function that tells things apart keeps their number.
LEMMA AsManyImages ==
    ASSUME NEW S, IsFiniteSet(S), NEW f, f = [x \in S |-> f[x]],
           \A x, y \in S : x # y => f[x] # f[y]
    PROVE  Cardinality({f[x] : x \in S}) = Cardinality(S)
<1> DEFINE T == {f[x] : x \in S}
<1>1. f \in Bijection(S, T)
    BY DEF Bijection, Injection, Surjection, IsInjective
<1> HIDE DEF T
<1>2. Cardinality(T) = Cardinality(S)
    BY <1>1, FS_Bijection DEF ExistsBijection
<1> QED
    BY <1>2 DEF T

\* The facts of a metric, and what the index has for them.
OfMetric(S, m) == {f \in S : f.metric = m}

Entries(m, list) == {list[i] : i \in FQ!HistoryOf(m, list)}

\* A list with each fact once has as many entries of a metric as there are facts.
LEMMA AsManyOfMetric ==
    ASSUME NEW S, NEW list \in Seq(S), \A i, j \in 1..Len(list) : i # j => list[i] # list[j],
           NEW m
    PROVE  /\ Cardinality(FQ!HistoryOf(m, list)) = Cardinality(OfMetric(ToSet(list), m))
           /\ Entries(m, list) = OfMetric(ToSet(list), m)
<1> DEFINE H == FQ!HistoryOf(m, list)
           g == [i \in H |-> list[i]]
<1>1. H \subseteq 1..Len(list) /\ Len(list) \in Nat
    BY DEF FQ!HistoryOf
<1>2. {list[i] : i \in H} = OfMetric(ToSet(list), m)
    BY DEF FQ!HistoryOf, ToSet, OfMetric
<1>3. IsFiniteSet(H)
  <2>1. IsFiniteSet(1..Len(list))
      BY <1>1, FS_Interval
  <2> HIDE DEF H
  <2> QED
      BY <1>1, <2>1, FS_Subset
<1>4. {g[i] : i \in H} = {list[i] : i \in H}
    BY Zenon
<1>5. \A x, y \in H : x # y => g[x] # g[y]
    BY <1>1
<1> HIDE DEF H
<1>6. g = [i \in H |-> g[i]]
    OBVIOUS
<1> HIDE DEF g
<1>7. Cardinality({g[i] : i \in H}) = Cardinality(H)
    BY <1>3, <1>5, <1>6, AsManyImages
<1> QED
    BY <1>2, <1>4, <1>7 DEF H, Entries

\* The order in which the past is listed changes no anomaly.
LEMMA OrderOfPast ==
    ASSUME JudgesInv, NEW list \in SetToSeqs(ToSet(past))
    PROVE  FQ!AnomaliesOf(now, list) = FQ!AnomaliesOf(now, past)
<1>1. IsFiniteSet(ToSet(past))
  <2> DEFINE g == [i \in 1..Len(past) |-> past[i]]
  <2>1. past \in Seq(FQ!PastFact) /\ Len(past) \in Nat
      BY DEF JudgesInv
  <2>2. g \in Surjection(1..Len(past), ToSet(past))
      BY <2>1 DEF Surjection, ToSet
  <2> HIDE DEF g
  <2> QED
      BY <2>1, <2>2, FS_Interval, FS_Surjection
<1>2. /\ list \in Seq(ToSet(past)) /\ ToSet(list) = ToSet(past)
      /\ \A i, j \in 1..Len(list) : i # j => list[i] # list[j]
    BY <1>1, ListsAreWhole
<1>3. ASSUME NEW m
      PROVE  /\ FQ!Cardinality(FQ!HistoryOf(m, list)) = FQ!Cardinality(FQ!HistoryOf(m, past))
             /\ FQ!LastOf(m, list) = FQ!LastOf(m, past)
  <2>1. /\ Cardinality(FQ!HistoryOf(m, list)) = Cardinality(OfMetric(ToSet(past), m))
        /\ Entries(m, list) = OfMetric(ToSet(past), m)
      BY <1>2, AsManyOfMetric
  <2>2. /\ Cardinality(FQ!HistoryOf(m, past)) = Cardinality(OfMetric(ToSet(past), m))
        /\ Entries(m, past) = OfMetric(ToSet(past), m)
      BY AsManyOfMetric DEF JudgesInv
  <2>3. FQ!LastOf(m, list) = FQ!LastOf(m, past)
      BY <2>1, <2>2 DEF FQ!LastOf, Entries
  <2> QED
      BY <2>1, <2>2, <2>3, JudgesSizes
<1>4. \A f : FQ!FactAnomalies(f, list) = FQ!FactAnomalies(f, past)
    BY <1>3 DEF FQ!FactAnomalies
<1> QED
    BY <1>4 DEF FQ!AnomaliesOf

\* An anomaly is of a key metric no fact has, or of a fact of the statement.
LEMMA AnomaliesAre ==
    ASSUME NEW a \in FQ!AnomaliesOf(now, past)
    PROVE  \/ /\ a.dimension = None /\ a.rule = "MISSING_KEY_METRIC"
              /\ a.metric \in KeyMetrics \ {f.metric : f \in now}
           \/ \E f \in now :
                /\ a \in FQ!FactAnomalies(f, past)
                /\ a.metric = f.metric /\ a.dimension = f.dimension
                /\ \/ a.rule = "NEGATIVE_VALUE"
                   \/ /\ a.rule = "HISTORY_OUTLIER_HIGH"
                      /\ FQ!Outgrows(f.value, FQ!LastOf(f.metric, past).value)
<1>1. CASE a \in FQ!Missing(now)
    BY <1>1 DEF FQ!Missing
<1>2. CASE \E f \in now : a \in FQ!FactAnomalies(f, past)
  <2>1. PICK f \in now : a \in FQ!FactAnomalies(f, past)
      BY <1>2
  <2>2. a.metric = f.metric /\ a.dimension = f.dimension
      BY <2>1 DEF FQ!FactAnomalies, FQ!About
  <2>3. \/ a.rule = "NEGATIVE_VALUE"
        \/ /\ a.rule = "HISTORY_OUTLIER_HIGH"
           /\ FQ!Outgrows(f.value, FQ!LastOf(f.metric, past).value)
      BY <2>1 DEF FQ!FactAnomalies, FQ!About
  <2> QED
      BY <2>1, <2>2, <2>3
<1> QED
    BY <1>1, <1>2 DEF FQ!AnomaliesOf

\* What outgrew a value by thrice changed by twice that value or more.
LEMMA OutgrownSwings ==
    ASSUME NEW x \in Int, NEW y \in Int, FQ!Outgrows(x, y)
    PROVE  y # 0 /\ FQ!Distance(x, y) >= 2 * FQ!Distance(y, 0)
<1>1. Multiplier \in Nat /\ Multiplier >= 3
    BY Judges DEF FQ!ConfigsMatch
<1>2. CASE y > 0 /\ x > Multiplier * y
  <2>1. Multiplier * y >= 3 * y
      BY <1>1, <1>2
  <2>2. Multiplier * y \in Int
      BY <1>1
  <2>3. x > 3 * y
      BY <1>2, <2>1, <2>2
  <2> QED
      BY <1>2, <2>3 DEF FQ!Distance
<1>3. CASE y < 0 /\ x < Multiplier * y
  <2>1. Multiplier * y <= 3 * y
      BY <1>1, <1>3
  <2>2. Multiplier * y \in Int
      BY <1>1
  <2>3. x < 3 * y
      BY <1>3, <2>1, <2>2
  <2> QED
      BY <1>3, <2>3 DEF FQ!Distance
<1> QED
    BY <1>2, <1>3 DEF FQ!Outgrows

\* The judges do not contradict each other, and what they say does not depend on the
\* order of the history (FactDQEngine.evaluate, evaluate_statement_quality).
THEOREM JudgesNeverContradict == FQ!Spec => []JudgesAgree
<1> SUFFICES ASSUME JudgesInv, judged # None PROVE
        /\ \A list \in SetToSeqs(ToSet(past)) : FQ!AnomaliesOf(now, list) = judged.anomalies
        /\ \A row \in judged.quality :
             row.has_known_issue <=>
                 \E a \in judged.anomalies : a.metric = row.metric /\ a.dimension = row.dimension
        /\ \A a \in judged.anomalies : a.dimension = None \/
             \E row \in judged.quality : row.metric = a.metric /\ row.dimension = a.dimension
                                         /\ "false" \in {row.is_non_negative, row.is_consistent_with_history}
        /\ type = "INCOME_STATEMENT" =>
             /\ (\E a \in judged.anomalies : a.rule = "MISSING_KEY_METRIC") => ~judged.safe
             /\ \A a \in judged.anomalies :
                  /\ judged.compared /\ a.rule = "HISTORY_OUTLIER_HIGH"
                  /\ a.dimension = 1 /\ a.metric \in Volatile
                  /\ \E b \in FQ!Before(past) : b.metric = a.metric /\ b.value = FQ!LastOf(a.metric, past).value
                  => \E i \in judged.issues : i.code = "EXTREME_VOLATILITY" /\ a.metric \in i.about
  <2>1. JudgesInv => JudgesAgree
      BY DEF JudgesAgree, FQ!JudgesAgree, FQ!SetToSeqs, FQ!ToSet, SetToSeqs, ToSet, FQ!Cardinality, Cardinality
  <2> QED
      BY <2>1, JudgesAlways, PTL
<1> DEFINE anomalies == FQ!AnomaliesOf(now, past)
<1>1. PICK compare \in BOOLEAN, differs \in BOOLEAN : judged = Found(compare, differs)
    BY DEF JudgesInv
<1>2. /\ judged.anomalies = anomalies
      /\ judged.quality = {FQ!FactQuality(f, anomalies) : f \in now}
      /\ judged.compared = compare
      /\ judged.issues = FQ!Issues(FQ!Core(now), compare, FQ!Before(past), differs)
      /\ judged.safe = FQ!ModelingSafe(judged.issues)
    BY <1>1 DEF Found
<1>3. \A list \in SetToSeqs(ToSet(past)) : FQ!AnomaliesOf(now, list) = judged.anomalies
    BY <1>2, OrderOfPast
<1>4. ASSUME NEW row \in judged.quality
      PROVE  row.has_known_issue <=>
                 \E a \in judged.anomalies : a.metric = row.metric /\ a.dimension = row.dimension
  <2>1. PICK f \in now : row = FQ!FactQuality(f, anomalies)
      BY <1>2
  <2> HIDE DEF anomalies
  <2> QED
      BY <1>2, <2>1 DEF FQ!FactQuality
<1>5. ASSUME NEW a \in judged.anomalies, a.dimension # None
      PROVE  \E row \in judged.quality :
                /\ row.metric = a.metric /\ row.dimension = a.dimension
                /\ "false" \in {row.is_non_negative, row.is_consistent_with_history}
  <2>1. PICK f \in now : /\ a.metric = f.metric /\ a.dimension = f.dimension
                         /\ a.rule = "NEGATIVE_VALUE" \/ a.rule = "HISTORY_OUTLIER_HIGH"
      BY <1>2, <1>5, AnomaliesAre
  <2> HIDE DEF anomalies
  <2>2. FQ!FactQuality(f, anomalies) \in judged.quality
      BY <1>2
  <2>3. /\ FQ!FactQuality(f, anomalies).metric = f.metric
        /\ FQ!FactQuality(f, anomalies).dimension = f.dimension
        /\ "false" \in {FQ!FactQuality(f, anomalies).is_non_negative,
                        FQ!FactQuality(f, anomalies).is_consistent_with_history}
      BY <1>2, <2>1 DEF FQ!FactQuality
  <2> QED
      BY <2>1, <2>2, <2>3
<1>6. ASSUME type = "INCOME_STATEMENT", NEW a \in judged.anomalies, a.rule = "MISSING_KEY_METRIC"
      PROVE  ~judged.safe
  <2>1. a.metric \in KeyMetrics /\ a.metric \notin {f.metric : f \in now}
      BY <1>2, <1>6, AnomaliesAre
  <2>2. a.metric \in RequiredOf[type]
      BY <1>6, <2>1, Judges DEF FQ!ConfigsMatch, JudgesInv
  <2>3. a.metric \notin {f.metric : f \in FQ!Core(now)}
      BY <2>1 DEF FQ!Core
  <2>4. FQ!Issue("MISSING_CORE_METRICS", "ERROR", {}) \in FQ!MissingCore(FQ!Core(now))
      BY <2>2, <2>3 DEF FQ!MissingCore
  <2>5. \E i \in judged.issues : i.severity = "ERROR"
      BY <1>2, <2>4 DEF FQ!Issues, FQ!Issue
  <2> QED
      BY <1>2, <2>5 DEF FQ!ModelingSafe
<1>7. ASSUME NEW a \in judged.anomalies, judged.compared, a.rule = "HISTORY_OUTLIER_HIGH",
             a.dimension = 1, a.metric \in Volatile,
             NEW b \in FQ!Before(past), b.metric = a.metric, b.value = FQ!LastOf(a.metric, past).value
      PROVE  \E i \in judged.issues : i.code = "EXTREME_VOLATILITY" /\ a.metric \in i.about
  <2>1. PICK f \in now : /\ a.metric = f.metric /\ f.dimension = 1
                         /\ FQ!Outgrows(f.value, b.value)
      BY <1>2, <1>7, AnomaliesAre
  <2>2. f \in FQ!Core(now)
      BY <2>1 DEF FQ!Core
  <2>3. f.value \in Int /\ b.value \in Int
    <3>1. Figures \subseteq Int
        BY Judges DEF FQ!FactRulesAssumption
    <3>2. f.value \in Figures
        BY DEF JudgesInv, FQ!NowFact
    <3>3. \E g \in FQ!ToSet(past) : b.value = g.value
        BY <1>7 DEF FQ!Before
    <3>4. \A g \in FQ!ToSet(past) : g.value \in Figures
      <4>1. past \in [1..Len(past) -> FQ!PastFact]
          BY DEF JudgesInv
      <4>2. FQ!ToSet(past) \subseteq FQ!PastFact
          BY <4>1 DEF FQ!ToSet
      <4> QED
          BY <4>2 DEF FQ!PastFact
    <3> QED
        BY <3>1, <3>2, <3>3, <3>4
  <2>4. b.value # 0 /\ FQ!Distance(f.value, b.value) >= 2 * FQ!Distance(b.value, 0)
      BY <2>1, <2>3, OutgrownSwings
  <2>5. FQ!Issue("EXTREME_VOLATILITY", "WARNING", {f.metric}) \in FQ!Swings(FQ!Core(now), FQ!Before(past))
      BY <1>7, <2>1, <2>2, <2>4 DEF FQ!Swings
  <2>6. FQ!Swings(FQ!Core(now), FQ!Before(past)) \subseteq judged.issues
      BY <1>2, <1>7 DEF FQ!Issues
  <2> QED
      BY <2>1, <2>5, <2>6 DEF FQ!Issue
<1> QED
    BY <1>3, <1>4, <1>5, <1>6, <1>7

-----------------------------------------------------------------------------
(* Sums.                                                                   *)

\* Sums W of what v says, over every subset of S.
Sums(W, v, S) ==
    /\ W \in [SUBSET S -> Int]
    /\ W[{}] = 0
    /\ \A s \in SUBSET S : \A x \in s : W[s] = v[x] + W[s \ {x}]

\* The same, over the subsets of at most n elements.
SmallSums(W, v, S, n) ==
    /\ W \in [{s \in SUBSET S : Cardinality(s) <= n} -> Int]
    /\ W[{}] = 0
    /\ \A s \in SUBSET S : Cardinality(s) <= n => \A x \in s : W[s] = v[x] + W[s \ {x}]

LEMMA SmallerSubset ==
    ASSUME NEW S, IsFiniteSet(S), NEW s \in SUBSET S, NEW x \in s
    PROVE  /\ IsFiniteSet(s) /\ Cardinality(s) \in Nat
           /\ s \ {x} \in SUBSET S /\ Cardinality(s \ {x}) = Cardinality(s) - 1
<1>1. IsFiniteSet(s)
    BY FS_Subset
<1> QED
    BY <1>1, FS_CardinalityType, FS_RemoveElement

\* Sums can be continued to sets of one element more, in whatever order they are taken.
LEMMA SumsContinue ==
    ASSUME NEW S, IsFiniteSet(S), NEW v \in [S -> Int], NEW n \in Nat,
           NEW W, SmallSums(W, v, S, n)
    PROVE  \E V : SmallSums(V, v, S, n + 1)
<1> DEFINE Some(s) == CHOOSE x \in s : TRUE
           D(k) == {s \in SUBSET S : Cardinality(s) <= k}
           V == [s \in D(n + 1) |-> IF Cardinality(s) <= n THEN W[s]
                                    ELSE v[Some(s)] + W[s \ {Some(s)}]]
<1>1. \A s \in SUBSET S : IsFiniteSet(s) /\ Cardinality(s) \in Nat
  <2>1. \A s \in SUBSET S : IsFiniteSet(s)
      BY FS_Subset
  <2> QED
      BY <2>1, FS_CardinalityType
<1>2. ASSUME NEW s \in SUBSET S, NEW x \in s
      PROVE  s \ {x} \in SUBSET S /\ Cardinality(s \ {x}) = Cardinality(s) - 1
    BY SmallerSubset
<1>3. W \in [D(n) -> Int] /\ W[{}] = 0
    BY DEF SmallSums
<1>4. \A s \in SUBSET S : Cardinality(s) <= n => \A x \in s : W[s] = v[x] + W[s \ {x}]
    BY DEF SmallSums
<1>5. \A s \in SUBSET S : Cardinality(s) <= n => V[s] = W[s] /\ W[s] \in Int
    BY <1>1, <1>3
<1>6. \A s \in SUBSET S : Cardinality(s) = n + 1 => s # {} /\ Some(s) \in s
  <2>1. Cardinality({}) = 0
      BY FS_EmptySet
  <2> QED
      BY <2>1
<1>7. ASSUME NEW s \in SUBSET S, Cardinality(s) = n + 1, NEW x \in s
      PROVE  V[s] = v[x] + W[s \ {x}] /\ V[s] \in Int
  <2> DEFINE y == Some(s)
  <2>1. y \in s /\ V[s] = v[y] + W[s \ {y}]
      BY <1>6, <1>7
  <2> HIDE DEF y, V, Some
  <2>2. /\ s \ {x} \in SUBSET S /\ Cardinality(s \ {x}) = n
        /\ s \ {y} \in SUBSET S /\ Cardinality(s \ {y}) = n
      BY <1>2, <1>7, <2>1
  <2>3. W[s \ {x}] \in Int /\ W[s \ {y}] \in Int /\ v[x] \in Int /\ v[y] \in Int
      BY <1>5, <2>1, <2>2
  <2>4. CASE x # y
    <3>1. x \in s \ {y} /\ y \in s \ {x}
        BY <2>1, <2>4
    <3>2. W[s \ {y}] = v[x] + W[(s \ {y}) \ {x}] /\ W[s \ {x}] = v[y] + W[(s \ {x}) \ {y}]
        BY <1>4, <2>2, <3>1
    <3>3. (s \ {y}) \ {x} = (s \ {x}) \ {y}
        OBVIOUS
    <3>4. (s \ {y}) \ {x} \in SUBSET S /\ Cardinality((s \ {y}) \ {x}) = n - 1
        BY <1>2, <2>2, <3>1
    <3>5. W[(s \ {y}) \ {x}] \in Int
        BY <1>5, <3>4
    <3> QED
        BY <2>1, <2>3, <3>2, <3>3, <3>5
  <2>5. CASE x = y
      BY <2>1, <2>3, <2>5
  <2> QED
      BY <2>4, <2>5
<1>8. V \in [D(n + 1) -> Int]
  <2>1. ASSUME NEW s \in D(n + 1) PROVE V[s] \in Int
    <3>1. CASE Cardinality(s) <= n
        BY <1>5, <3>1
    <3>2. CASE Cardinality(s) = n + 1
        BY <1>6, <1>7, <3>2
    <3> QED
        BY <1>1, <3>1, <3>2
  <2> QED
      BY <2>1
<1>9. V[{}] = 0
  <2>1. Cardinality({}) = 0
      BY FS_EmptySet
  <2> QED
      BY <1>3, <1>5, <2>1
<1> HIDE DEF V
<1>10. ASSUME NEW s \in SUBSET S, Cardinality(s) <= n + 1, NEW x \in s
       PROVE  V[s] = v[x] + V[s \ {x}]
  <2>1. V[s \ {x}] = W[s \ {x}]
      BY <1>1, <1>2, <1>5, <1>10
  <2>2. CASE Cardinality(s) <= n
      BY <1>4, <1>5, <2>1, <2>2
  <2>3. CASE Cardinality(s) = n + 1
      BY <1>7, <2>1, <2>3
  <2> QED
      BY <1>1, <1>10, <2>2, <2>3
<1>11. SmallSums(V, v, S, n + 1)
    BY <1>8, <1>9, <1>10 DEF SmallSums
<1> QED
    BY <1>11

LEMMA SumsExist ==
    ASSUME NEW S, IsFiniteSet(S), NEW v \in [S -> Int]
    PROVE  \E W : Sums(W, v, S)
<1> DEFINE Bad == {n \in Nat : ~\E W : SmallSums(W, v, S, n)}
<1>1. ASSUME Bad # {} PROVE FALSE
  <2>1. PICK n \in Bad : \A m \in Bad : n <= m
    <3>1. Bad \in SUBSET Nat
        OBVIOUS
    <3> HIDE DEF Bad
    <3> QED
        BY <1>1, <3>1, LeastNumber
  <2>2. CASE n = 0
    <3> DEFINE V == [s \in {s \in SUBSET S : Cardinality(s) <= 0} |-> 0]
    <3>1. \A s \in SUBSET S : Cardinality(s) <= 0 => s = {}
      <4>1. \A s \in SUBSET S : IsFiniteSet(s)
          BY FS_Subset
      <4> QED
          BY <4>1, FS_CardinalityType, FS_EmptySet
    <3>2. Cardinality({}) = 0
        BY FS_EmptySet
    <3>3. SmallSums(V, v, S, 0)
        BY <3>1, <3>2 DEF SmallSums
    <3> QED
        BY <2>2, <3>3
  <2>3. CASE n # 0
    <3>1. n - 1 \in Nat /\ n - 1 \notin Bad
        BY <2>1, <2>3
    <3>2. PICK W : SmallSums(W, v, S, n - 1)
        BY <3>1
    <3>3. \E V : SmallSums(V, v, S, (n - 1) + 1)
        BY <3>1, <3>2, SumsContinue
    <3> QED
        BY <2>1, <3>3
  <2> QED
      BY <2>2, <2>3
<1>2. Cardinality(S) \in Nat
    BY FS_CardinalityType
<1>3. PICK W : SmallSums(W, v, S, Cardinality(S))
    BY <1>1, <1>2
<1>4. \A s \in SUBSET S : Cardinality(s) <= Cardinality(S)
    BY FS_Subset
<1>5. {s \in SUBSET S : Cardinality(s) <= Cardinality(S)} = SUBSET S
    BY <1>4
<1>6. Sums(W, v, S)
    BY <1>3, <1>4, <1>5 DEF SmallSums, Sums
<1> QED
    BY <1>6

\* What follows from smaller sets to larger ones holds of the whole.
LEMMA SumIsDetermined ==
    ASSUME NEW S, IsFiniteSet(S), NEW f, NEW W, f[{}] = W[{}],
           \A s \in SUBSET S : s # {} => \E b \in s : f[s \ {b}] = W[s \ {b}] => f[s] = W[s]
    PROVE  f[S] = W[S]
<1> DEFINE Bad == {s \in SUBSET S : f[s] # W[s]}
           Sizes == {Cardinality(s) : s \in Bad}
<1>1. ASSUME Bad # {} PROVE FALSE
  <2>1. \A s \in Bad : IsFiniteSet(s) /\ Cardinality(s) \in Nat
    <3>1. \A s \in Bad : IsFiniteSet(s)
        BY FS_Subset
    <3> QED
        BY <3>1, FS_CardinalityType
  <2>2. PICK n \in Sizes : \A m \in Sizes : n <= m
    <3>1. Sizes \in SUBSET Nat /\ Sizes # {}
        BY <1>1, <2>1
    <3> HIDE DEF Sizes
    <3> QED
        BY <3>1, LeastNumber
  <2>3. PICK s \in Bad : n = Cardinality(s)
      BY <2>2
  <2>4. PICK b \in s : f[s \ {b}] = W[s \ {b}] => f[s] = W[s]
      BY <2>3
  <2>5. s \ {b} \in Bad
      BY <2>3, <2>4
  <2>6. Cardinality(s) <= Cardinality(s \ {b})
      BY <2>2, <2>3, <2>5
  <2>7. Cardinality(s \ {b}) = Cardinality(s) - 1
      BY <2>1, <2>3, <2>4, FS_RemoveElement
  <2> QED
      BY <2>1, <2>3, <2>6, <2>7
<1> QED
    BY <1>1

\* The library's sum of a function's values is theirs.
LEMMA SumIsTheirs ==
    ASSUME NEW v, IsFiniteSet(DOMAIN v), NEW W, Sums(W, v, DOMAIN v)
    PROVE  RE!SumFunction(v) = W[DOMAIN v]
<1> DEFINE Some(s) == CHOOSE x \in s : TRUE
           Is(f) == f = [s \in SUBSET DOMAIN v |-> IF s = {} THEN 0
                           ELSE v[Some(s)] + f[s \ {Some(s)}]]
<1>1. RE!SumFunction(v) = (CHOOSE f : Is(f))[DOMAIN v]
    BY DEF RE!SumFunction, RE!SumFunctionOnSet, RE!FoldFunctionOnSet, RE!MapThenFoldSet
<1>2. \A s \in SUBSET DOMAIN v : s # {} => Some(s) \in s
    OBVIOUS
<1>3. Is(W)
  <2>1. ASSUME NEW s \in SUBSET DOMAIN v
        PROVE  W[s] = IF s = {} THEN 0 ELSE v[Some(s)] + W[s \ {Some(s)}]
      BY <1>2, <2>1 DEF Sums
  <2> HIDE DEF Some
  <2> QED
      BY <2>1 DEF Sums
<1>4. PICK f : Is(f) /\ RE!SumFunction(v) = f[DOMAIN v]
  <2> HIDE DEF Is
  <2> QED
      BY <1>1, <1>3
<1> HIDE DEF Some
<1>5. f[{}] = W[{}]
    BY <1>4 DEF Sums
<1>6. ASSUME NEW s \in SUBSET DOMAIN v, s # {}
      PROVE  \E b \in s : f[s \ {b}] = W[s \ {b}] => f[s] = W[s]
  <2>1. Some(s) \in s
      BY <1>2, <1>6
  <2>2. f[s] = v[Some(s)] + f[s \ {Some(s)}]
      BY <1>4, <1>6
  <2>3. W[s] = v[Some(s)] + W[s \ {Some(s)}]
      BY <2>1 DEF Sums
  <2> QED
      BY <2>1, <2>2, <2>3
<1>7. f[DOMAIN v] = W[DOMAIN v]
  <2> HIDE DEF Is
  <2> QED
      BY <1>5, <1>6, SumIsDetermined
<1> QED
    BY <1>4, <1>7

LEMMA SumIsNumber ==
    ASSUME NEW S, IsFiniteSet(S), NEW v \in [S -> Int]
    PROVE  RE!SumFunction(v) \in Int
<1>1. DOMAIN v = S
    OBVIOUS
<1>2. PICK W : Sums(W, v, S)
    BY SumsExist
<1>3. RE!SumFunction(v) = W[S]
    BY <1>1, <1>2, SumIsTheirs
<1> QED
    BY <1>2, <1>3 DEF Sums

LEMMA SumOfOne ==
    ASSUME NEW x, NEW v \in [{x} -> Int]
    PROVE  RE!SumFunction(v) = v[x]
<1>1. DOMAIN v = {x} /\ IsFiniteSet({x})
    BY FS_Singleton
<1>2. PICK W : Sums(W, v, {x})
    BY <1>1, SumsExist
<1>3. RE!SumFunction(v) = W[{x}]
    BY <1>1, <1>2, SumIsTheirs
<1>4. W[{x}] = v[x] + W[{x} \ {x}] /\ W[{}] = 0
    BY <1>2 DEF Sums
<1>5. {x} \ {x} = {}
    OBVIOUS
<1> QED
    BY <1>3, <1>4, <1>5

\* Things that are told apart by an image of theirs have the sum of their images.
LEMMA SumOfImages ==
    ASSUME NEW S, IsFiniteSet(S), NEW T, NEW v \in [S -> Int], NEW w \in [T -> Int],
           NEW g \in [T -> S],
           \A x, y \in T : x # y => g[x] # g[y],
           \A x \in S : \E y \in T : g[y] = x,
           \A y \in T : w[y] = v[g[y]]
    PROVE  RE!SumFunction(w) = RE!SumFunction(v)
<1> DEFINE Of(s) == {g[y] : y \in s}
<1>1. DOMAIN v = S /\ DOMAIN w = T
    OBVIOUS
<1>2. IsFiniteSet(T)
  <2>1. g \in Injection(T, S)
      BY DEF Injection, IsInjective
  <2> QED
      BY <2>1, FS_Injection
<1>3. PICK W : Sums(W, v, S)
    BY SumsExist
<1> DEFINE V == [s \in SUBSET T |-> W[Of(s)]]
<1>4. Of({}) = {} /\ Of(T) = S
    OBVIOUS
<1>5. \A s \in SUBSET T : Of(s) \in SUBSET S
    OBVIOUS
<1>6. ASSUME NEW s \in SUBSET T, NEW y \in s
      PROVE  W[Of(s)] = w[y] + W[Of(s \ {y})]
  <2>1. Of(s \ {y}) = Of(s) \ {g[y]}
      OBVIOUS
  <2>2. g[y] \in Of(s)
      OBVIOUS
  <2>3. w[y] = v[g[y]] /\ Of(s) \in SUBSET S
      BY <1>5, <1>6
  <2> HIDE DEF Of
  <2>4. W[Of(s)] = v[g[y]] + W[Of(s) \ {g[y]}]
      BY <1>3, <2>2, <2>3 DEF Sums
  <2> QED
      BY <2>1, <2>3, <2>4
<1>7. Sums(V, w, T)
  <2> HIDE DEF Of
  <2>1. \A s \in SUBSET T : W[Of(s)] \in Int
      BY <1>3, <1>5 DEF Sums
  <2>2. V \in [SUBSET T -> Int]
      BY <2>1
  <2>3. V[{}] = 0
      BY <1>3, <1>4 DEF Sums
  <2>4. ASSUME NEW s \in SUBSET T, NEW y \in s PROVE V[s] = w[y] + V[s \ {y}]
    <3>1. s \ {y} \in SUBSET T /\ W[Of(s)] = w[y] + W[Of(s \ {y})]
        BY <1>6, <2>4
    <3> QED
        BY <2>4, <3>1
  <2> HIDE DEF V
  <2> QED
      BY <2>2, <2>3, <2>4 DEF Sums
<1>8. V[T] = W[S]
    BY <1>4
<1> HIDE DEF V
<1>9. RE!SumFunction(w) = V[T] /\ RE!SumFunction(v) = W[S]
    BY <1>1, <1>2, <1>3, <1>7, SumIsTheirs
<1> QED
    BY <1>8, <1>9

-----------------------------------------------------------------------------
(* Reconciliation.                                                         *)

Sheet == [id : RE!Identities, core : [Booked -> Amounts \cup {None}]]

Entry == [of : RE!Identities, metric : Booked, slice : DOMAIN Slices, value : Amounts]

\* No statement is listed twice, a statement has one fact of a metric and slice, and the
\* results are those of the statements and facts as they are.
BooksInv ==
    /\ deep \in BOOLEAN
    /\ sheets \in Seq(Sheet) /\ Len(sheets) <= MaxListed
    /\ \A i, j \in 1..Len(sheets) : i # j => sheets[i].id # sheets[j].id
    /\ ledger \in SUBSET Entry /\ IsFiniteSet(ledger)
    /\ ledger # {} => deep
    /\ \A f, g \in ledger : (f.of = g.of /\ f.metric = g.metric /\ f.slice = g.slice) => f = g
    /\ results = None \/ results = RE!Evaluate(sheets)

\* Results depend on nothing else.
LEMMA EvaluatedAgain ==
    ASSUME sheets' = sheets, ledger' = ledger, deep' = deep
    PROVE  RE!Evaluate(sheets)' = RE!Evaluate(sheets)
BY DEF RE!Evaluate, RE!ResultsOf, RE!IdentityResults, RE!Bucket, RE!Representative, RE!Min,
       RE!SumOf, RE!Reported, RE!SumFunction, RE!SumFunctionOnSet, RE!FoldFunctionOnSet,
       RE!MapThenFoldSet, RE!Warning, RE!Judged, RE!Result, RE!RollforwardResults, RE!ToSet,
       RE!FxResults, RE!CalendarResults, RE!SegmentResults, RE!Parents, RE!Children, RE!Has,
       RE!Total

LEMMA BooksInit == RE!Init => BooksInv
<1> SUFFICES ASSUME RE!Init PROVE BooksInv
    OBVIOUS
<1>1. deep \in BOOLEAN /\ sheets = <<>> /\ ledger = {} /\ results = None
    BY DEF RE!Init
<1>2. IsFiniteSet({})
    BY FS_EmptySet
<1>3. MaxListed \in Nat
    BY Reconciliation DEF RE!RulesAssumption
<1> QED
    BY <1>1, <1>2, <1>3 DEF BooksInv

LEMMA BooksStep == BooksInv /\ [RE!Next]_RE!sheet => BooksInv'
<1> SUFFICES ASSUME BooksInv, [RE!Next]_RE!sheet PROVE BooksInv'
    OBVIOUS
<1>0. MaxListed \in Nat \ {0}
    BY Reconciliation DEF RE!RulesAssumption
<1>1. CASE RE!ListStatement
  <2>1. PICK id \in RE!Identities, core \in [Booked -> Amounts \cup {None}] :
            /\ \A s \in RE!ToSet(sheets) : s.id # id
            /\ sheets' = Append(sheets, [id |-> id, core |-> core])
      BY <1>1 DEF RE!ListStatement, RE!NoMetrics
  <2>2. /\ results' = None /\ deep' = deep /\ ledger' = ledger
        /\ Len(sheets) < IF deep THEN 1 ELSE MaxListed
      BY <1>1 DEF RE!ListStatement
  <2>3. sheets \in Seq(Sheet) /\ Len(sheets) \in Nat /\ [id |-> id, core |-> core] \in Sheet
      BY DEF BooksInv, Sheet
  <2>4. /\ sheets' \in Seq(Sheet) /\ Len(sheets') = Len(sheets) + 1
        /\ \A i \in 1..Len(sheets) : sheets'[i] = sheets[i]
        /\ sheets'[Len(sheets) + 1] = [id |-> id, core |-> core]
      BY <2>1, <2>3
  <2>5. \A i \in 1..Len(sheets) : sheets[i].id # id
      BY <2>1, <2>3 DEF RE!ToSet
  <2>6. ASSUME NEW i \in 1..Len(sheets'), NEW j \in 1..Len(sheets'), i # j
        PROVE  sheets'[i].id # sheets'[j].id
    <3>1. CASE i \in 1..Len(sheets) /\ j \in 1..Len(sheets)
        BY <2>4, <2>6, <3>1 DEF BooksInv
    <3>2. CASE i = Len(sheets) + 1 /\ j \in 1..Len(sheets)
        BY <2>4, <2>5, <3>2
    <3>3. CASE j = Len(sheets) + 1 /\ i \in 1..Len(sheets)
        BY <2>4, <2>5, <3>3
    <3> QED
        BY <2>3, <2>4, <2>6, <3>1, <3>2, <3>3
  <2>7. Len(sheets') <= MaxListed
      BY <1>0, <2>2, <2>3, <2>4
  <2> QED
      BY <2>2, <2>4, <2>6, <2>7 DEF BooksInv
<1>2. CASE RE!AddFact
  <2>1. PICK v \in Versions, m \in RE!SegmentMetrics, i \in DOMAIN Slices, x \in Amounts :
            LET id == [sheets[1].id EXCEPT !.version = v]
            IN  /\ \A f \in ledger : <<f.of, f.metric, f.slice>> # <<id, m, i>>
                /\ ledger' = ledger \cup {[of |-> id, metric |-> m, slice |-> i, value |-> x]}
      BY <1>2 DEF RE!AddFact
  <2>2. results' = None /\ deep /\ deep' = deep /\ sheets' = sheets /\ sheets # <<>>
      BY <1>2 DEF RE!AddFact
  <2> DEFINE id == [sheets[1].id EXCEPT !.version = v]
             e == [of |-> id, metric |-> m, slice |-> i, value |-> x]
  <2>3. sheets[1] \in Sheet
      BY <2>2 DEF BooksInv
  <2>4. id \in RE!Identities
      BY <2>3 DEF Sheet, RE!Identities
  <2>5. m \in Booked
      BY Reconciliation DEF RE!RulesAssumption, RE!SegmentMetrics
  <2>6. e \in Entry
      BY <2>4, <2>5 DEF Entry
  <2>7. \A f \in ledger : ~(f.of = e.of /\ f.metric = e.metric /\ f.slice = e.slice)
      BY <2>1
  <2>8. ledger' = ledger \cup {e}
      BY <2>1
  <2> HIDE DEF e
  <2>9. IsFiniteSet(ledger')
      BY <2>8, FS_AddElement DEF BooksInv
  <2> QED
      BY <2>2, <2>6, <2>7, <2>8, <2>9 DEF BooksInv
<1>3. CASE RE!Run
  <2>1. deep' = deep /\ sheets' = sheets /\ ledger' = ledger /\ results' = RE!Evaluate(sheets)
      BY <1>3 DEF RE!Run
  <2>2. RE!Evaluate(sheets)' = RE!Evaluate(sheets)
      BY <2>1, EvaluatedAgain
  <2> QED
      BY <2>1, <2>2 DEF BooksInv
<1>4. CASE UNCHANGED RE!sheet
  <2>1. deep' = deep /\ sheets' = sheets /\ ledger' = ledger /\ results' = results
      BY <1>4 DEF RE!sheet
  <2>2. RE!Evaluate(sheets)' = RE!Evaluate(sheets)
      BY <2>1, EvaluatedAgain
  <2> QED
      BY <2>1, <2>2 DEF BooksInv
<1> QED
    BY <1>1, <1>2, <1>3, <1>4 DEF RE!Next

LEMMA BooksAlways == RE!Spec => []BooksInv
<1>1. RE!Init => BooksInv
    BY BooksInit
<1>2. BooksInv /\ [RE!Next]_RE!sheet => BooksInv'
    BY BooksStep
<1> QED
    BY <1>1, <1>2, PTL DEF RE!Spec

\* The statements and facts that are reconciled stay of their types.  (ReconciliationEngine)
THEOREM BooksTypeCorrect == RE!Spec => []RE!TypeOK
<1>1. ASSUME BooksInv PROVE RE!TypeOK
  <2>1. \A s \in RE!ToSet(sheets) : s \in Sheet
    <3>1. sheets \in Seq(Sheet)
        BY <1>1 DEF BooksInv
    <3> QED
        BY <3>1 DEF RE!ToSet
  <2>2. \A s \in RE!ToSet(sheets) : s.id \in RE!Identities /\ s.core \in [Booked -> Amounts \cup {None}]
      BY <2>1 DEF Sheet
  <2>3. ledger \in SUBSET Entry
      BY <1>1 DEF BooksInv
  <2>4. \A f \in ledger : /\ f.of \in RE!Identities /\ f.metric \in Booked
                          /\ f.slice \in DOMAIN Slices /\ f.value \in Amounts
      BY <2>3 DEF Entry
  <2>5. deep \in BOOLEAN /\ Len(sheets) <= MaxListed
      BY <1>1 DEF BooksInv
  <2> QED
      BY <2>2, <2>4, <2>5 DEF RE!TypeOK
<1> QED
    BY <1>1, BooksAlways, PTL

\* Of finitely many positions one is the last.
LEMMA LastPosition ==
    ASSUME NEW n \in Nat, NEW P \in SUBSET (1..n), P # {}
    PROVE  \E i \in P : \A k \in P : k <= i
<1> DEFINE Back == {n - i : i \in P}
<1>1. Back \in SUBSET Nat /\ Back # {}
  <2>1. \A i \in P : n - i \in Nat
      OBVIOUS
  <2>2. Back \in SUBSET Nat
      BY <2>1
  <2> QED
      BY <2>2
<1> HIDE DEF Back
<1>2. PICK d \in Back : \A e \in Back : d <= e
    BY <1>1, LeastNumber
<1> USE DEF Back
<1>3. PICK i \in P : d = n - i
    BY <1>2
<1>4. \A k \in P : n - i <= n - k
    BY <1>2, <1>3
<1> QED
    BY <1>4

LEMMA OfTheBucket ==
    ASSUME NEW list \in Seq(Sheet), NEW y, NEW s \in RE!Bucket(list, y)
    PROVE  s \in Sheet /\ s \in RE!ToSet(list) /\ s.id.year = y
BY DEF RE!Bucket, RE!ToSet

\* Every type of a year is in its bucket, the representative's too.
LEMMA RepresentativeIsIn ==
    ASSUME NEW list \in Seq(Sheet), NEW y, \E i \in 1..Len(list) : list[i].id.year = y
    PROVE  RE!Representative(list, y) \in RE!Bucket(list, y)
<1> DEFINE Of == {i \in DOMAIN list : list[i].id.year = y}
           first == RE!Min(Of)
           P == {i \in 1..Len(list) : list[i].id.year = y /\ list[i].id.type = list[first].id.type}
<1>1. Len(list) \in Nat /\ DOMAIN list = 1..Len(list)
    OBVIOUS
<1>2. first \in Of
  <2>1. Of \in SUBSET Nat /\ Of # {}
      BY <1>1
  <2>2. \E m \in Of : \A n \in Of : m <= n
    <3> HIDE DEF Of
    <3> QED
        BY <2>1, LeastNumber
  <2> QED
      BY <2>2 DEF RE!Min
<1>3. RE!Representative(list, y) =
          CHOOSE s \in RE!Bucket(list, y) : s.id.type = list[first].id.type
    BY DEF RE!Representative
<1> HIDE DEF first
<1>4. first \in P
    BY <1>1, <1>2
<1>5. PICK i \in P : \A k \in P : k <= i
  <2>1. P \in SUBSET (1..Len(list)) /\ P # {}
      BY <1>4
  <2> HIDE DEF P
  <2> QED
      BY <1>1, <2>1, LastPosition
<1>6. list[i] \in RE!Bucket(list, y) /\ list[i].id.type = list[first].id.type
    BY <1>1, <1>5 DEF RE!Bucket
<1> QED
    BY <1>3, <1>6

\* With one version of a type and year the bucket is every statement of the year.
OneVersion(S) == \A s, t \in S : (s.id.type = t.id.type /\ s.id.year = t.id.year) => s = t

LEMMA WholeBucket ==
    ASSUME NEW list \in Seq(Sheet), \A i, j \in 1..Len(list) : i # j => list[i] # list[j],
           OneVersion(RE!ToSet(list)), NEW y
    PROVE  RE!Bucket(list, y) = {s \in RE!ToSet(list) : s.id.year = y}
<1>1. DOMAIN list = 1..Len(list) /\ Len(list) \in Nat
    OBVIOUS
<1>2. ASSUME NEW i \in 1..Len(list), list[i].id.year = y
      PROVE  list[i] \in RE!Bucket(list, y)
  <2>1. ASSUME NEW k \in 1..Len(list), list[k].id.year = y, list[k].id.type = list[i].id.type
        PROVE  k = i
    <3>1. list[k] = list[i]
        BY <1>1, <1>2, <2>1 DEF OneVersion, RE!ToSet
    <3> QED
        BY <3>1
  <2> QED
      BY <1>1, <1>2, <2>1 DEF RE!Bucket
<1> QED
    BY <1>1, <1>2 DEF RE!Bucket, RE!ToSet

LEMMA OneElement ==
    ASSUME NEW S, IsFiniteSet(S), RE!Cardinality(S) = 1
    PROVE  \E x : S = {x}
<1>1. Cardinality(S) = 1
    BY DEF RE!Cardinality, Cardinality
<1> QED
    BY <1>1, FS_Singleton

LEMMA ListedAreFinite ==
    ASSUME NEW list \in Seq(Sheet)
    PROVE  IsFiniteSet(RE!ToSet(list))
<1> DEFINE n == Len(list)
           T == RE!ToSet(list)
<1>1. n \in Nat /\ list \in [1..n -> T]
    BY DEF RE!ToSet
<1>2. \A x \in T : \E i \in 1..n : list[i] = x
    BY DEF RE!ToSet
<1>3. IsFiniteSet(1..n)
    BY <1>1, FS_Interval
<1> HIDE DEF n, T
<1>4. list \in Surjection(1..n, T)
    BY <1>1, <1>2 DEF Surjection
<1> QED
    BY <1>3, <1>4, FS_Surjection DEF T

\* The statements of a bucket that report a metric, and what one of them reports.
Tellers(bucket, m) == {s \in bucket : s.core[m] # None}

Told(bucket, m) == (CHOOSE s \in Tellers(bucket, m) : TRUE).core[m]

\* The engine sums cells of a table, and when every metric is reported once, that is the
\* sum of what is reported of the metrics.
LEMMA CellsAreMetrics ==
    ASSUME NEW metrics \in SUBSET Booked, metrics # {},
           NEW bucket \in SUBSET Sheet, IsFiniteSet(bucket),
           \A m \in metrics : RE!Cardinality(Tellers(bucket, m)) = 1
    PROVE  /\ RE!SumOf(metrics, bucket) = RE!SumFunction([m \in metrics |-> Told(bucket, m)])
           /\ RE!SumOf(metrics, bucket) \in Int
<1> DEFINE C == RE!Reported(metrics, bucket)
           v == [m \in metrics |-> Told(bucket, m)]
           w == [p \in C |-> p[2].core[p[1]]]
           g == [p \in C |-> p[1]]
<1>1. IsFiniteSet(metrics) /\ Amounts \subseteq Int
  <2>1. RE!IsFiniteSet(Booked) /\ Amounts \subseteq Int
      BY Reconciliation DEF RE!RulesAssumption
  <2>2. IsFiniteSet(Booked)
      BY <2>1 DEF RE!IsFiniteSet, IsFiniteSet
  <2> QED
      BY <2>1, <2>2, FS_Subset
<1>2. ASSUME NEW m \in metrics
      PROVE  \E s \in bucket : /\ Tellers(bucket, m) = {s}
                               /\ s.core[m] = Told(bucket, m)
                               /\ s.core[m] \in Int
  <2>1. IsFiniteSet(Tellers(bucket, m))
      BY FS_Subset DEF Tellers
  <2>2. RE!Cardinality(Tellers(bucket, m)) = 1
      BY <1>2
  <2>3. PICK s : Tellers(bucket, m) = {s}
      BY <2>1, <2>2, OneElement
  <2>4. (CHOOSE t \in {s} : TRUE) = s
      OBVIOUS
  <2>5. s \in bucket /\ s.core[m] # None
      BY <2>3 DEF Tellers
  <2>6. s.core[m] \in Int
      BY <1>1, <1>2, <2>5 DEF Sheet
  <2> QED
      BY <2>3, <2>4, <2>5, <2>6 DEF Told
<1>3. ASSUME NEW p \in C
      PROVE  /\ p[1] \in metrics /\ p[2] \in Tellers(bucket, p[1]) /\ p = <<p[1], p[2]>>
             /\ p[2].core[p[1]] = Told(bucket, p[1]) /\ Told(bucket, p[1]) \in Int
  <2>1. p \in metrics \X bucket /\ p[2].core[p[1]] # None
      BY DEF RE!Reported
  <2>2. p[1] \in metrics /\ p[2] \in Tellers(bucket, p[1]) /\ p = <<p[1], p[2]>>
      BY <2>1 DEF Tellers
  <2> QED
      BY <1>2, <2>2
<1>4. \A m \in metrics : \E p \in C : p[1] = m
  <2>1. ASSUME NEW m \in metrics PROVE \E p \in C : p[1] = m
    <3>1. PICK s \in bucket : s \in Tellers(bucket, m)
        BY <1>2, <2>1
    <3>2. <<m, s>> \in C
        BY <2>1, <3>1 DEF RE!Reported, Tellers
    <3> QED
        BY <3>2
  <2> QED
      BY <2>1
<1>5. \A p, q \in C : p # q => p[1] # q[1]
  <2>1. ASSUME NEW p \in C, NEW q \in C, p[1] = q[1] PROVE p = q
    <3>1. PICK s : Tellers(bucket, p[1]) = {s}
        BY <1>2, <1>3
    <3>2. p[2] = s /\ q[2] = s
        BY <1>3, <2>1, <3>1
    <3> QED
        BY <1>3, <2>1, <3>2
  <2> QED
      BY <2>1
<1>6. RE!SumOf(metrics, bucket) = IF C = {} THEN None ELSE RE!SumFunction(w)
    BY DEF RE!SumOf
<1>7. C # {}
    BY <1>4
<1> HIDE DEF C
<1>8. v \in [metrics -> Int]
  <2>1. \A m \in metrics : Told(bucket, m) \in Int
      BY <1>2
  <2> QED
      BY <2>1
<1>9. w \in [C -> Int] /\ \A p \in C : w[p] = Told(bucket, p[1])
    BY <1>3
<1>10. g \in [C -> metrics] /\ \A p \in C : g[p] = p[1]
    BY <1>3
<1>11. \A p \in C : w[p] = v[g[p]]
    BY <1>3, <1>9, <1>10
<1> HIDE DEF v, w, g
<1>12. \A p, q \in C : p # q => g[p] # g[q]
    BY <1>5, <1>10
<1>13. \A m \in metrics : \E p \in C : g[p] = m
    BY <1>4, <1>10
<1>14. RE!SumFunction(w) = RE!SumFunction(v)
    BY <1>1, <1>8, <1>9, <1>10, <1>11, <1>12, <1>13, SumOfImages
<1>15. RE!SumFunction(v) \in Int
    BY <1>1, <1>8, SumIsNumber
<1> QED
    BY <1>6, <1>7, <1>14, <1>15 DEF v

\* A result names its rule, and identity rules look at a year at a time.
IdentityAt(r, list, y) ==
    LET bucket   == RE!Bucket(list, y)
        id       == RE!Representative(list, y).id
        expected == RE!SumOf(r.lhs, bucket)
        actual   == RE!SumOf(r.rhs, bucket)
    IN  IF None \in {expected, actual} THEN RE!Warning(id, r, expected, actual)
        ELSE RE!Judged(id, r, expected, actual)

Concerns(r, list, y) == \E s \in RE!Bucket(list, y) : r.types = {} \/ s.id.type \in r.types

LEMMA RepresentativeYear ==
    ASSUME NEW r, NEW list \in Seq(Sheet), NEW y, Concerns(r, list, y)
    PROVE  RE!Representative(list, y).id.year = y
<1>1. \E i \in 1..Len(list) : list[i].id.year = y
    BY DEF Concerns, RE!Bucket
<1>2. RE!Representative(list, y) \in RE!Bucket(list, y)
    BY <1>1, RepresentativeIsIn
<1> QED
    BY <1>2, OfTheBucket

LEMMA IdentityYears ==
    ASSUME NEW r, NEW list, r.category = "IDENTITY"
    PROVE  RE!ResultsOf(r, list) = {IdentityAt(r, list, y) : y \in {y \in Years : Concerns(r, list, y)}}
BY DEF RE!ResultsOf, RE!IdentityResults, IdentityAt, Concerns

LEMMA IdentityNames ==
    ASSUME NEW r, NEW list, NEW y
    PROVE  /\ IdentityAt(r, list, y).id = RE!Representative(list, y).id
           /\ IdentityAt(r, list, y).rule = r.id
BY DEF IdentityAt, RE!Warning, RE!Judged, RE!Result

LEMMA ResultNamesRule ==
    ASSUME NEW r \in Rulebook, NEW list, NEW x \in RE!ResultsOf(r, list)
    PROVE  x.rule = r.id
<1>0. r.category \in {"IDENTITY", "ROLLFORWARD", "FX", "CALENDAR", "SEGMENT"}
    BY Reconciliation DEF RE!RulesAssumption
<1>1. CASE r.category = "IDENTITY"
    BY <1>1, IdentityYears, IdentityNames
<1>2. CASE r.category = "ROLLFORWARD"
  <2>1. x \in RE!RollforwardResults(r, list)
      BY <1>2 DEF RE!ResultsOf
  <2>2. PICK s \in RE!ToSet(list) :
            \/ x = RE!Warning(s.id, r, None, None)
            \/ x = RE!Judged(s.id, r, s.core[r.opening] + RE!SumOf(r.flows, {s}), s.core[r.closing])
      BY <2>1 DEF RE!RollforwardResults
  <2> QED
      BY <2>2 DEF RE!Warning, RE!Judged, RE!Result
<1>3. CASE r.category = "FX"
  <2>1. x \in RE!FxResults(r, list)
      BY <1>3 DEF RE!ResultsOf
  <2> QED
      BY <2>1 DEF RE!FxResults, RE!Warning, RE!Result
<1>4. CASE r.category = "CALENDAR"
  <2>1. x \in RE!CalendarResults(r, list)
      BY <1>4 DEF RE!ResultsOf
  <2> QED
      BY <2>1 DEF RE!CalendarResults, RE!Result
<1>5. CASE r.category = "SEGMENT"
  <2>1. x \in RE!SegmentResults(r, list)
      BY <1>5 DEF RE!ResultsOf
  <2> QED
      BY <2>1 DEF RE!SegmentResults, RE!Warning, RE!Judged, RE!Result
<1> QED
    BY <1>0, <1>1, <1>2, <1>3, <1>4, <1>5

\* Rules are told apart by their ids, so that a rule passes by a result of its own.
LEMMA PassedByItself ==
    ASSUME BooksInv, results # None, NEW r \in Rulebook, r.enabled, NEW id,
           sheets # <<>>
    PROVE  RE!Passed(r, id)
               <=> \E x \in RE!ResultsOf(r, sheets) : x.id = id /\ x.status = "PASS"
<1>1. results = UNION {RE!ResultsOf(q, sheets) : q \in {q \in Rulebook : sheets # <<>> /\ q.enabled}}
    BY DEF BooksInv, RE!Evaluate
<1>2. \A q \in Rulebook : q.id = r.id => q = r
    BY Reconciliation DEF RE!RulesAssumption
<1>3. ASSUME NEW q \in Rulebook, NEW x \in RE!ResultsOf(q, sheets), x.rule = r.id
      PROVE  q = r
    BY <1>2, <1>3, ResultNamesRule
<1>4. RE!ResultsOf(r, sheets) \subseteq results
    BY <1>1
<1>5. \A x \in results : x.rule = r.id => x \in RE!ResultsOf(r, sheets)
    BY <1>1, <1>3
<1> QED
    BY <1>4, <1>5, ResultNamesRule DEF RE!Passed

LEMMA IdentitiesAlwaysTie ==
    ASSUME BooksInv, results # None
    PROVE  RE!IdentitiesTie
<1> SUFFICES ASSUME NEW r \in RE!RulesOf("IDENTITY"), NEW y \in {s.id.year : s \in RE!ToSet(sheets)},
                    {} \notin {r.lhs, r.rhs},
                    \A m \in r.lhs \cup r.rhs : RE!Cardinality(RE!Reporters(y, m)) = 1,
                    Concerns(r, sheets, y)
             PROVE  RE!Passed(r, RE!Representative(sheets, y).id)
                        <=> RE!Side(y, r.rhs) - RE!Side(y, r.lhs) \in -Tolerance..Tolerance
    BY DEF RE!IdentitiesTie, Concerns
<1> DEFINE bucket == RE!Bucket(sheets, y)
           id == RE!Representative(sheets, y).id
<1>1. r \in Rulebook /\ r.category = "IDENTITY" /\ r.enabled
    BY DEF RE!RulesOf
<1>2. sheets \in Seq(Sheet) /\ DOMAIN sheets = 1..Len(sheets)
    BY DEF BooksInv
<1>3. \A s \in bucket : s \in Sheet /\ s \in RE!ToSet(sheets) /\ s.id.year = y
    BY <1>2, OfTheBucket
<1>4. bucket \in SUBSET Sheet /\ IsFiniteSet(bucket)
  <2>1. bucket \in SUBSET RE!ToSet(sheets)
      BY <1>3
  <2> HIDE DEF bucket
  <2> QED
      BY <1>2, <1>3, <2>1, ListedAreFinite, FS_Subset
<1>5. y \in Years
    BY <1>3 DEF Concerns, Sheet, RE!Identities
<1>6. ASSUME NEW metrics \in {r.lhs, r.rhs}
      PROVE  RE!SumOf(metrics, bucket) = RE!Side(y, metrics) /\ RE!Side(y, metrics) \in Int
  <2>1. metrics \in SUBSET Booked /\ metrics # {}
      BY <1>1, Reconciliation DEF RE!RulesAssumption
  <2>2. \A m \in metrics : RE!Reporters(y, m) = Tellers(bucket, m) /\ RE!Amount(y, m) = Told(bucket, m)
      BY DEF RE!Reporters, RE!Amount, Tellers, Told
  <2>3. \A m \in metrics : RE!Cardinality(Tellers(bucket, m)) = 1
      BY <2>2
  <2>4. RE!Side(y, metrics) = RE!SumFunction([m \in metrics |-> Told(bucket, m)])
    <3>1. [m \in metrics |-> RE!Amount(y, m)] = [m \in metrics |-> Told(bucket, m)]
        BY <2>2
    <3> QED
        BY <3>1 DEF RE!Side
  <2> HIDE DEF bucket
  <2> QED
      BY <1>4, <2>1, <2>3, <2>4, CellsAreMetrics
<1>7. IdentityAt(r, sheets, y) = RE!Judged(id, r, RE!Side(y, r.lhs), RE!Side(y, r.rhs))
  <2>1. None \notin Int
      BY Reconciliation DEF RE!RulesAssumption
  <2> QED
      BY <1>6, <2>1 DEF IdentityAt
<1>8. IdentityAt(r, sheets, y).status = "PASS"
          <=> RE!Side(y, r.rhs) - RE!Side(y, r.lhs) \in -Tolerance..Tolerance
    BY <1>7 DEF RE!Judged, RE!Result
<1>9. \A z : Concerns(r, sheets, z) => RE!Representative(sheets, z).id.year = z
    BY <1>2, RepresentativeYear
<1>10. sheets # <<>>
    BY <1>2 DEF RE!ToSet
<1> HIDE DEF bucket
<1>11. \A x \in RE!ResultsOf(r, sheets) : x.id = id => x = IdentityAt(r, sheets, y)
  <2>1. ASSUME NEW z \in Years, Concerns(r, sheets, z), IdentityAt(r, sheets, z).id = id
        PROVE  z = y
      BY <1>9, <2>1, IdentityNames
  <2> HIDE DEF id
  <2> QED
      BY <1>1, <2>1, IdentityYears
<1>12. IdentityAt(r, sheets, y) \in RE!ResultsOf(r, sheets) /\ IdentityAt(r, sheets, y).id = id
    BY <1>1, <1>5, IdentityYears, IdentityNames
<1>13. RE!Passed(r, id) <=> \E x \in RE!ResultsOf(r, sheets) : x.id = id /\ x.status = "PASS"
  <2> HIDE DEF id
  <2> QED
      BY <1>1, <1>10, PassedByItself
<1> QED
    BY <1>8, <1>11, <1>12, <1>13

\* A total has one row at most, and segments and total are told apart by their dimension.
LEMMA SegmentsAlwaysTie ==
    ASSUME BooksInv, results # None
    PROVE  RE!SegmentsTie
<1> DEFINE Own(r, id) == {f \in ledger : f.of = id /\ f.metric = r.parent}
           Cut(r, id) == {f \in Own(r, id) : Slices[f.slice] = {r.dimension}}
           Whole(r, id) == {f \in Own(r, id) : Slices[f.slice] = {}}
<1> SUFFICES ASSUME NEW r \in RE!RulesOf("SEGMENT"), NEW id \in {s.id : s \in RE!ToSet(sheets)},
                    Own(r, id) = Cut(r, id) \cup Whole(r, id), r.parent = r.child
             PROVE  RE!Passed(r, id)
                        <=> /\ Whole(r, id) # {}
                            /\ Cut(r, id) # {}
                            /\ RE!Total(Whole(r, id)) - RE!Total(Cut(r, id)) \in -Tolerance..Tolerance
    BY DEF RE!SegmentsTie
<1> DEFINE whole == Whole(r, id)
           cut == Cut(r, id)
<1>1. r \in Rulebook /\ r.category = "SEGMENT" /\ r.enabled
    BY DEF RE!RulesOf
<1>2. RE!Parents(r, id) = whole
    BY DEF RE!Parents, RE!Has
<1>3. RE!Children(r, id) = cut
    BY DEF RE!Children, RE!Has
<1>4. ledger \in SUBSET Entry /\ IsFiniteSet(ledger)
    BY DEF BooksInv
<1>5. Amounts \subseteq Int /\ Tolerance \in Nat
    BY Reconciliation DEF RE!RulesAssumption
<1>6. \A f \in ledger : f.slice \in DOMAIN Slices /\ f.value \in Int /\ f.of \in RE!Identities
    BY <1>4, <1>5 DEF Entry
<1>7. \A f, g \in whole : f = g
  <2>1. \A f, g \in whole : f.slice = g.slice
      BY <1>6, Reconciliation DEF RE!RulesAssumption
  <2> QED
      BY <2>1 DEF BooksInv
<1>8. whole \in SUBSET ledger /\ cut \in SUBSET ledger
    OBVIOUS
<1>9. sheets # <<>>
    BY DEF BooksInv, RE!ToSet
<1>10. id \in {s.id : s \in RE!ToSet(sheets)}
    OBVIOUS
<1>11. RE!Passed(r, id) <=> \E x \in RE!ResultsOf(r, sheets) : x.id = id /\ x.status = "PASS"
    BY <1>1, <1>9, PassedByItself
<1> DEFINE At(i) ==
             LET parent == CHOOSE f \in RE!Parents(r, i) : \A g \in RE!Parents(r, i) : g.slice <= f.slice
             IN  IF RE!Parents(r, i) = {} \/ RE!Children(r, i) = {} THEN RE!Warning(i, r, None, None)
                 ELSE RE!Judged(i, r, parent.value, RE!Total(RE!Children(r, i)))
<1>12. RE!ResultsOf(r, sheets) = {At(i) : i \in {s.id : s \in {s \in RE!ToSet(sheets) : deep}}}
    BY <1>1 DEF RE!ResultsOf, RE!SegmentResults
<1>13. \A i : At(i).id = i
    BY DEF RE!Warning, RE!Judged, RE!Result
<1>14. RE!Passed(r, id) <=> deep /\ At(id).status = "PASS"
  <2> HIDE DEF At
  <2> QED
      BY <1>10, <1>11, <1>12, <1>13
<1>15. whole # {} => deep
    BY <1>8 DEF BooksInv
<1> HIDE DEF Own, Cut, Whole, whole, cut
<1>16. CASE whole = {} \/ cut = {}
  <2>1. At(id).status = "WARNING"
      BY <1>2, <1>3, <1>16 DEF RE!Warning, RE!Result
  <2> QED
      BY <1>14, <1>16, <2>1 DEF whole, cut
<1>17. CASE whole # {} /\ cut # {}
  <2>1. PICK p : whole = {p}
    <3>1. PICK p \in whole : TRUE
        BY <1>17
    <3>2. whole = {p}
        BY <1>7, <3>1
    <3> QED
        BY <3>2
  <2>2. p \in ledger /\ p.value \in Int
      BY <1>6, <1>8, <2>1
  <2>3. RE!Total(whole) = p.value
    <3>1. [f \in {p} |-> f.value] \in [{p} -> Int] /\ [f \in {p} |-> f.value][p] = p.value
        BY <2>2
    <3>2. RE!SumFunction([f \in {p} |-> f.value]) = p.value
        BY <3>1, SumOfOne
    <3> QED
        BY <2>1, <3>2 DEF RE!Total
  <2>4. RE!Total(cut) \in Int
    <3>1. IsFiniteSet(cut)
        BY <1>4, <1>8, FS_Subset
    <3>2. [f \in cut |-> f.value] \in [cut -> Int]
        BY <1>6, <1>8
    <3> QED
        BY <3>1, <3>2, SumIsNumber DEF RE!Total
  <2>5. (CHOOSE f \in {p} : \A g \in {p} : g.slice <= f.slice) = p
    <3>1. p.slice <= p.slice
      <4>1. p.slice \in DOMAIN Slices /\ DOMAIN Slices \subseteq Nat
          BY <1>6, <2>2, Reconciliation DEF RE!RulesAssumption
      <4> QED
          BY <4>1
    <3> QED
        BY <3>1
  <2>6. At(id) = RE!Judged(id, r, p.value, RE!Total(cut))
      BY <1>2, <1>3, <1>17, <2>1, <2>5
  <2>7. At(id).status = "PASS" <=> RE!Total(cut) - p.value \in -Tolerance..Tolerance
      BY <2>6 DEF RE!Judged, RE!Result
  <2>8. RE!Total(cut) - p.value \in -Tolerance..Tolerance
            <=> RE!Total(whole) - RE!Total(cut) \in -Tolerance..Tolerance
      BY <1>5, <2>2, <2>3, <2>4
  <2> QED
      BY <1>14, <1>15, <1>17, <2>7, <2>8 DEF whole, cut
<1> QED
    BY <1>16, <1>17

\* A list without repetitions and with one version of each type and year.
Plain(list) ==
    /\ list \in Seq(Sheet)
    /\ \A i, j \in 1..Len(list) : i # j => list[i] # list[j]
    /\ OneVersion(RE!ToSet(list))

VerdictOf(x) == [year |-> x.id.year, rule |-> x.rule, status |-> x.status, delta |-> x.delta]

\* The statements of a year, and not their order, decide.
LEMMA SameVerdict ==
    ASSUME NEW a, NEW b, Plain(a), Plain(b), RE!ToSet(a) = RE!ToSet(b),
           NEW r \in Rulebook, NEW x \in RE!ResultsOf(r, a)
    PROVE  \E z \in RE!ResultsOf(r, b) : VerdictOf(z) = VerdictOf(x)
<1>0. r.category \in {"IDENTITY", "ROLLFORWARD", "FX", "CALENDAR", "SEGMENT"}
    BY Reconciliation DEF RE!RulesAssumption
<1>1. CASE r.category = "IDENTITY"
  <2>1. PICK y \in Years : Concerns(r, a, y) /\ x = IdentityAt(r, a, y)
      BY <1>1, IdentityYears
  <2>2. RE!Bucket(a, y) = RE!Bucket(b, y)
      BY WholeBucket DEF Plain
  <2>3. Concerns(r, b, y)
      BY <2>1, <2>2 DEF Concerns
  <2>4. RE!Representative(a, y).id.year = y /\ RE!Representative(b, y).id.year = y
      BY <2>1, <2>3, RepresentativeYear DEF Plain
  <2>5. VerdictOf(IdentityAt(r, b, y)) = VerdictOf(IdentityAt(r, a, y))
      BY <2>2, <2>4 DEF VerdictOf, IdentityAt, RE!Judged, RE!Warning, RE!Result
  <2> QED
      BY <1>1, <2>1, <2>3, <2>5, IdentityYears
<1>2. CASE r.category # "IDENTITY"
  <2>1. RE!ResultsOf(r, a) = RE!ResultsOf(r, b)
      BY <1>0, <1>2 DEF RE!ResultsOf, RE!RollforwardResults, RE!FxResults, RE!CalendarResults,
          RE!SegmentResults
  <2> QED
      BY <2>1
<1> QED
    BY <1>1, <1>2

LEMMA VerdictsContinue ==
    ASSUME NEW a, NEW b, Plain(a), Plain(b), RE!ToSet(a) = RE!ToSet(b)
    PROVE  RE!Verdicts(a) \subseteq RE!Verdicts(b)
<1> DEFINE Enabled == {r \in Rulebook : r.enabled}
<1>1. a # <<>> => b # <<>>
    BY DEF Plain, RE!ToSet
<1>2. ASSUME NEW x \in RE!Evaluate(a) PROVE \E z \in RE!Evaluate(b) : VerdictOf(z) = VerdictOf(x)
  <2>1. PICK r \in Rulebook : a # <<>> /\ r.enabled /\ x \in RE!ResultsOf(r, a)
      BY <1>2 DEF RE!Evaluate
  <2>2. PICK z \in RE!ResultsOf(r, b) : VerdictOf(z) = VerdictOf(x)
      BY <2>1, SameVerdict
  <2>3. z \in RE!Evaluate(b)
      BY <1>1, <2>1, <2>2 DEF RE!Evaluate
  <2> QED
      BY <2>2, <2>3
<1>3. \A list : RE!Verdicts(list) = {VerdictOf(x) : x \in RE!Evaluate(list)}
    BY DEF RE!Verdicts, VerdictOf
<1> QED
    BY <1>2, <1>3

LEMMA OrderOfSheets ==
    ASSUME BooksInv
    PROVE  RE!VerdictsIgnoreOrder
<1> DEFINE S == RE!ToSet(sheets)
           n == RE!Cardinality(S)
<1> SUFFICES ASSUME OneVersion(S), NEW other \in RE!SetToSeqs(S)
             PROVE  RE!Verdicts(other) = RE!Verdicts(sheets)
    BY DEF RE!VerdictsIgnoreOrder, OneVersion
<1>1. sheets \in Seq(Sheet)
    BY DEF BooksInv
<1>2. Plain(sheets)
    BY <1>1 DEF Plain, BooksInv
<1>3. IsFiniteSet(S) /\ S \in SUBSET Sheet
    BY <1>1, ListedAreFinite DEF RE!ToSet
<1>4. n = Cardinality(S)
    BY DEF RE!Cardinality, Cardinality
<1>5. n \in Nat
    BY <1>3, <1>4, FS_CardinalityType
<1>6. other \in [1..n -> S] /\ \A i, j \in 1..n : i # j => other[i] # other[j]
    BY DEF RE!SetToSeqs
<1> HIDE DEF n, S
<1>7. other \in Seq(Sheet) /\ Len(other) = n
    BY <1>3, <1>5, <1>6
<1>8. RE!ToSet(other) = S
  <2>1. other \in Injection(1..n, S)
      BY <1>6 DEF Injection, IsInjective
  <2>2. Cardinality(1..n) = n
      BY <1>5, FS_Interval
  <2>3. other \in Surjection(1..n, S)
      BY <1>3, <1>4, <2>1, <2>2, FS_Injection
  <2> QED
      BY <1>6, <2>3 DEF Surjection, RE!ToSet
<1>9. Plain(other)
    BY <1>6, <1>7, <1>8 DEF Plain
<1> QED
    BY <1>2, <1>8, <1>9, VerdictsContinue DEF S

\* A verdict is the truth about complete books, whoever reports a metric and in whatever
\* order the statements are listed.  (ReconciliationEngine.run)
THEOREM BooksAlwaysTie == RE!Spec => []BooksTie
<1>1. ASSUME BooksInv PROVE BooksTie
    BY <1>1, IdentitiesAlwaysTie, SegmentsAlwaysTie, OrderOfSheets DEF BooksTie, RE!BooksTie
<1> QED
    BY <1>1, BooksAlways, PTL
=============================================================================
