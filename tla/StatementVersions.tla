-------------------------- MODULE StatementVersions --------------------------
(***************************************************************************)
(* sec.statement_versions as the queries see it: the versions of one       *)
(* company, written by ingest (without a payload) and by                   *)
(* update_normalized_payload.  Ingest calls every fiscal period FY, takes  *)
(* the fiscal year from the statement date and the version_sequence from   *)
(* the position of the type in its request: a type and a year may have     *)
(* versions of several dates, with the same version_sequence.              *)
(***************************************************************************)
EXTENDS Integers, FiniteSets, Sequences, SequencesExt, FiniteSetsExt

CONSTANTS
    Types,       \* statement types that are filed
    Dates,       \* statement dates, numbers in order
    YearOf,      \* the year of a date, its fiscal_year
    Positions,   \* version_sequence
    Metrics,     \* canonical metrics
    PayloadsOf,  \* normalized payloads of each type: core_metrics
    None         \* SQL NULL, or no bound

\* In the order of _statement_types_for_reconciliation.
Income   == 1
Balance  == 2
CashFlow == 3

ASSUME VersionsAssumption ==
    /\ Types \subseteq {Income, Balance, CashFlow}
    /\ Dates \subseteq Nat /\ IsFiniteSet(Dates)
    /\ YearOf \in [Dates -> Nat \ {0}]
    /\ \A d, e \in Dates : d < e => YearOf[d] <= YearOf[e]
    /\ Positions \subseteq Nat \ {0} /\ IsFiniteSet(Positions)
    /\ IsFiniteSet(Metrics)
    /\ DOMAIN PayloadsOf = Types
    /\ \A type \in Types : \A p \in PayloadsOf[type] :
         DOMAIN p \subseteq Metrics /\ p \in [DOMAIN p -> Int]
    /\ None \notin Int

Payloads == UNION {PayloadsOf[type] : type \in Types}

Version == [type : Types, date : Dates, seq : Positions, payload : Payloads \cup {None}]

Normalized(v) == v.payload # None

Has(v, m) == m \in DOMAIN v.payload

Year(v) == YearOf[v.date]

\* list_statement_versions_for_company for a type and a year: by version_sequence,
\* and among equals in the order of random ids.
Listings(versions, type, year) ==
    LET rows == {v \in versions : v.type = type /\ Year(v) = year}
    IN  {list \in SetToSeqs(rows) : \A i, k \in 1..Len(list) : i < k => list[i].seq <= list[k].seq}
=============================================================================
