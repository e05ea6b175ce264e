----------------------------- MODULE Restatements -----------------------------
(***************************************************************************)
(* What the restatement queries make of a listing of the versions of one   *)
(* type and fiscal year: get_restatement_delta_between_versions,           *)
(* compute_restatement_delta, get_restatement_ledger and                   *)
(* get_restatement_timeline.  They share one delta except the ledger,      *)
(* which has an implementation of its own.                                 *)
(***************************************************************************)
EXTENDS StatementVersions

CONSTANTS MediumFrom, HighFrom  \* thresholds of _classify_timeline

ASSUME MaterialityAssumption == 0 < MediumFrom /\ MediumFrom < HighFrom

\* The versions of a listing that have a payload, in its order.
NormalizedAt(list) == {i \in DOMAIN list : Normalized(list[i])}

NormalizedOf(list) ==
    [n \in 1..Cardinality(NormalizedAt(list)) |->
        list[CHOOSE i \in NormalizedAt(list) :
                Cardinality({k \in NormalizedAt(list) : k < i}) = n - 1]]

Magnitude(n) == IF n < 0 THEN -n ELSE n

-----------------------------------------------------------------------------
(* domain/entities/edgar_restatement_delta.py                              *)

\* _ensure_payload_identity_match: what two versions of a listing can differ in.
SameStatement(from, to) == from.date = to.date

DeltaOfNew(from, to) ==  \* mutant: a metric that appears counts from zero
    [m \in {n \in Metrics : Has(to, n) /\ (Has(from, n) => to.payload[n] # from.payload[n])} |->
        to.payload[m] - (IF Has(from, m) THEN from.payload[m] ELSE 0)]

\* compute_restatement_delta: the metrics both versions have and that changed.
Delta(from, to) ==
    [m \in {n \in Metrics : Has(from, n) /\ Has(to, n) /\ to.payload[n] # from.payload[n]} |->
        to.payload[m] - from.payload[m]]

-----------------------------------------------------------------------------
(* The delta between two versions.                                         *)

PositionOf(list, seq) == Min({i \in 1..Len(list) : list[i].seq = seq})

\* _resolve_version_indices on the normalized versions; either bound may be None.
Indices(list, from, to) ==
    CASE from # None /\ to # None -> <<PositionOf(list, from), PositionOf(list, to)>>
      [] from = None /\ to # None -> <<PositionOf(list, to) - 1, PositionOf(list, to)>>
      [] from # None /\ to = None -> <<PositionOf(list, from), PositionOf(list, from) + 1>>
      [] OTHER                    -> <<Len(list) - 1, Len(list)>>

\* get_restatement_delta_between_versions answers; otherwise it raises.
BetweenAnswers(list, from, to) ==
    LET versions == NormalizedOf(list)
        seqs     == {v.seq : v \in ToSet(versions)}
    IN  /\ Len(versions) >= 2
        /\ {from, to} \subseteq seqs \cup {None}
        /\ LET at == Indices(versions, from, to)
           IN  /\ 1 <= at[1] /\ at[1] < at[2] /\ at[2] <= Len(versions)
               /\ SameStatement(versions[at[1]], versions[at[2]])

Between(list, from, to) ==
    LET versions == NormalizedOf(list)
        at       == Indices(versions, from, to)
    IN  Delta(versions[at[1]], versions[at[2]])

\* compute_restatement_delta's index of the listing by version_sequence keeps the
\* last of several.
BySequence(list, seq) == list[Max({i \in 1..Len(list) : list[i].seq = seq})]

ComputeAnswers(list, from, to) ==
    /\ from < to
    /\ {from, to} \subseteq {v.seq : v \in ToSet(list)}
    /\ Normalized(BySequence(list, from)) /\ Normalized(BySequence(list, to))
    /\ SameStatement(BySequence(list, from), BySequence(list, to))

Compute(list, from, to) == Delta(BySequence(list, from), BySequence(list, to))

-----------------------------------------------------------------------------
(* get_restatement_ledger: every hop, every metric either version has; the *)
(* two versions need not be of the same statement date.                    *)

LedgerAnswers(list) == Len(NormalizedOf(list)) >= 2

Entry(from, to) ==
    LET compared == {m \in Metrics : Has(from, m) \/ Has(to, m)}
        diffs    == [m \in compared |->
                        IF Has(from, m) /\ Has(to, m) THEN to.payload[m] - from.payload[m] ELSE None]
    IN  [from |-> from.seq, to |-> to.seq, diffs |-> diffs,
         compared |-> Cardinality(compared),
         changed  |-> Cardinality({m \in compared : diffs[m] \notin {None, 0}})]

Ledger(list) ==
    LET versions == NormalizedOf(list)
    IN  [i \in 1..(Len(versions) - 1) |-> Entry(versions[i], versions[i + 1])]

-----------------------------------------------------------------------------
(* get_restatement_timeline: the domain's ledger, then the timeline.       *)

Hops(list) ==
    LET versions == NormalizedOf(list)
    IN  [i \in 1..(Len(versions) - 1) |-> Delta(versions[i], versions[i + 1])]

TimelineAnswers(list) ==
    LET versions == NormalizedOf(list)
    IN  /\ Len(versions) >= 2
        /\ \A i \in 1..(Len(versions) - 1) : SameStatement(versions[i], versions[i + 1])

Severity(magnitude) ==
    CASE magnitude <= 0           -> "NONE"
      [] magnitude \in 1..(MediumFrom - 1) -> "LOW"
      [] magnitude \in MediumFrom..(HighFrom - 1) -> "MEDIUM"
      [] OTHER                    -> "HIGH"

\* build_restatement_metric_timeline.
Timeline(list) ==
    LET hops     == Hops(list)
        restated == UNION {DOMAIN hops[i] : i \in 1..Len(hops)}
        at(m)    == {i \in 1..Len(hops) : m \in DOMAIN hops[i]}
        most     == [m \in restated |-> Max({Magnitude(hops[i][m]) : i \in at(m)})]
    IN  [hops      |-> Len(hops),
         byMetric  |-> [m \in restated |-> {<<i, Magnitude(hops[i][m])>> : i \in at(m)}],
         frequency |-> [m \in restated |-> Cardinality(at(m))],
         most      |-> most,
         severity  |-> Severity(Max({0} \cup {most[m] : m \in restated}))]

-----------------------------------------------------------------------------

\* What a metric moves from version i to version k, by the diffs of the ledger.
Moved(ledger, m, i, k) ==
    LET moved[j \in i..k] == IF j = i THEN 0 ELSE moved[j - 1] + ledger[j - 1].diffs[m]
    IN  moved[k]

\* The views of one listing tell the same story.  Where the timeline answers, each
\* hop has just the changes its ledger entry counts, with their sizes.  A metric
\* that all versions have moves between any two of them by the sum of the ledger's
\* diffs, which is what the delta between the two and compute_restatement_delta
\* say (the latter raises where another date's version, not yet normalized, shares a
\* version_sequence), and never further than its frequency times its largest change.  A delta
\* asked for by one bound or by none is the hop that ends or begins there.
ViewsAgree(list) ==
    LET versions == NormalizedOf(list)
        ledger   == Ledger(list)
        timeline == Timeline(list)
        hops     == Hops(list)
        n        == Len(versions)
        Steady   == {m \in Metrics : \A i \in 1..n : Has(versions[i], m)}
        Agree(m, i, k, delta) ==
            IF Moved(ledger, m, i, k) = 0 THEN m \notin DOMAIN delta
            ELSE m \in DOMAIN delta /\ delta[m] = Moved(ledger, m, i, k)
    IN  TimelineAnswers(list) =>
          /\ timeline.hops = Len(ledger)
          /\ \A h \in 1..timeline.hops :
               LET changes == {m \in DOMAIN timeline.byMetric : \E x \in timeline.byMetric[m] : x[1] = h}
               IN  /\ ledger[h].changed = Cardinality(changes)
                   /\ \A m \in changes : <<h, Magnitude(ledger[h].diffs[m])>> \in timeline.byMetric[m]
          /\ \A i, k \in 1..n : i < k =>
               LET between == Between(list, versions[i].seq, versions[k].seq)
               IN  /\ BetweenAnswers(list, versions[i].seq, versions[k].seq)
                   /\ ComputeAnswers(list, versions[i].seq, versions[k].seq) =>
                        between = Compute(list, versions[i].seq, versions[k].seq)
                   /\ \A m \in Steady : Agree(m, i, k, between)
          /\ \A m \in Steady \cap DOMAIN timeline.most :
               Magnitude(Moved(ledger, m, 1, n)) <= timeline.frequency[m] * timeline.most[m]
          /\ Between(list, None, None) = hops[n - 1]
          /\ \A i \in 1..(n - 1) :
               /\ Between(list, versions[i].seq, None) = hops[i]
               /\ Between(list, None, versions[i + 1].seq) = hops[i]
=============================================================================
