----------------------- MODULE MCNormalizedStatements -----------------------
(* How filings are found, how a statement is normalized, how the facts of normalized
   statements are judged, and how normalized statements are reconciled: five parts
   that share no table here, one of which is explored at a time.

   Discovery: two calls while a document is filled with a 10-K and its amendment of
   the same period, a 10-Q whose period is wrong, and a form that is not listed; the
   10-K is filed a day later after a correction, and the column of periods may be
   short.  Calls end, and the document is full: the part may stop.

   Normalization: revenue by either of two concepts, net income by a third; a
   fourth concept is in no registry.  Two rules of thirteen kinds: every scope,
   every reason not to match, both ways to suppress, equal and different
   priorities.

   Data quality: two jobs, two metrics, one statement, which has a row at the start
   and gets another, of a later date and a lower id; the history goes across both.
   -1 is negative, from -1 to 6 is a spike.  One of two anomalies is cut off.

   The two judges no use case calls: two facts of a statement against two of the
   past, at two dates of versions, in two dimensions; 11 outgrows 1, from -1 it
   does not.  Of a balance sheet's required metrics one is left. *)
EXTENDS NormalizedStatements, TLC

MCRegistry == <<[metric |-> "REVENUE", concepts |-> <<2, 1>>],
                [metric |-> "NET_INCOME", concepts |-> <<3>>]>>

Fact(id, concept, unit, at) ==
    [id |-> id, concept |-> concept, unit |-> unit, at |-> at,
     usable |-> TRUE, number |-> TRUE]

MCDocuments ==
    {<<Fact(2, 1, "USD", 1), Fact(1, 1, "USD", 1), Fact(3, 3, "USD", 1)>>,
     <<Fact(1, 2, "USD", 1), Fact(2, 2, "EUR", 2), Fact(3, 2, "USD", 2), Fact(4, 4, "USD", 1)>>,
     <<Fact(1, 1, "USD", 1), Fact(2, 1, "USD", 1)>>,
     <<Fact(1, 1, "EUR", 1), Fact(1, 1, "EUR", 1), [Fact(2, 2, "USD", 1) EXCEPT !.usable = FALSE]>>,
     <<[Fact(1, 3, "USD", 1) EXCEPT !.number = FALSE]>>,
     <<[Fact(1, 3, "USD", 1) EXCEPT !.usable = FALSE]>>}

Global == [scope |-> "GLOBAL", concept |-> 1, taxonomy |-> "gaap", cik |-> None, industry |-> None,
           analyst |-> None, dims |-> {}, target |-> "NET_INCOME", suppress |-> FALSE, priority |-> 0]
Company == [Global EXCEPT !.scope = "COMPANY", !.cik = "c", !.target = None]

MCContents ==
    {Global,
     [Global EXCEPT !.taxonomy = None, !.target = "REVENUE", !.suppress = TRUE, !.priority = 1],
     [Global EXCEPT !.concept = 3, !.target = "REVENUE"],
     [Global EXCEPT !.concept = 4],
     [Global EXCEPT !.taxonomy = "ifrs"],
     [Global EXCEPT !.cik = "c"],
     [Global EXCEPT !.dims = {<<"axis", "member">>}],
     Company,
     [Company EXCEPT !.cik = "d"],
     [Company EXCEPT !.concept = 3],
     [Company EXCEPT !.target = "REVENUE", !.priority = 1],
     [Global EXCEPT !.scope = "INDUSTRY", !.industry = "i", !.target = "REVENUE"],
     [Global EXCEPT !.scope = "ANALYST", !.analyst = "a", !.target = "REVENUE"]}

MCIds == {1, 2}

MCContexts ==
    {[taxonomy |-> "gaap", dims |-> {<<"axis", "member">>}, cik |-> "c",
      industry |-> "i", analyst |-> "a"],
     [taxonomy |-> "ifrs", dims |-> {}, cik |-> "d", industry |-> None, analyst |-> "b"]}

MCBases == {"REVENUE", None}

MCIdentity == <<1, 1>>
MCByDate   == <<2, 1>>
MCValues   == {-1, 6}
MCPayloads == {<<-1, None>>, <<6, -1>>}

VARIABLE part

MCRules ==
    {[id |-> 1, category |-> "IDENTITY", enabled |-> TRUE, severity |-> "HIGH",
      types |-> {"BS"}, lhs |-> {1}, rhs |-> {2, 3}],
     [id |-> 2, category |-> "IDENTITY", enabled |-> TRUE, severity |-> "LOW",
      types |-> {}, lhs |-> {1, 2}, rhs |-> {3}],
     [id |-> 3, category |-> "ROLLFORWARD", enabled |-> TRUE, severity |-> "MEDIUM",
      period |-> None, opening |-> 1, flows |-> {2}, closing |-> 3],
     [id |-> 4, category |-> "FX", enabled |-> FALSE, severity |-> "HIGH"],
     [id |-> 5, category |-> "CALENDAR", enabled |-> TRUE, severity |-> "LOW", months |-> {12, 9}],
     [id |-> 6, category |-> "SEGMENT", enabled |-> TRUE, severity |-> "HIGH",
      parent |-> 1, child |-> 1, dimension |-> "segment"],
     [id |-> 7, category |-> "FX", enabled |-> TRUE, severity |-> "HIGH"]}

MCMonthOf == <<12, 11>>
MCSlices  == <<{}, {"region"}, {"region", "segment"}, {"segment"}, {"segment"}>>
MCAmounts == {2, 4}

MCFigures    == {-1, 1, 11}
MCRanking    == {<<1, 1, 1>>, <<1, 2, 1>>, <<1, 2, 2>>}
MCRequiredOf == [INCOME_STATEMENT |-> {"REVENUE", "NET_INCOME"},
                 BALANCE_SHEET    |-> {"TOTAL_ASSETS"}]

Shown(accession, form, amended, filed, period) ==
    [accession |-> accession, form |-> form, amended |-> amended, filed |-> filed,
     period |-> period]

MCReports == {Shown(1, "10-K", FALSE, 2, 1), Shown(1, "10-K", FALSE, 3, 1),
              Shown(2, "10-K", TRUE, 3, 1),
              Shown(3, "10-Q", FALSE, 2, 3),
              Shown(4, Unlisted, FALSE, 1, None)}

Window(from, to, types, amendments) ==
    [kind |-> "sync", matches |-> TRUE, from |-> from, to |-> to, types |-> types,
     amendments |-> amendments]

MCRequests == {Window(1, 3, {"10-K"}, TRUE), Window(2, 2, {}, FALSE),
               [kind |-> "ingest", matches |-> TRUE, accession |-> 1],
               [kind |-> "ingest", matches |-> FALSE, accession |-> 1]}

discovery == <<shown, filings, dated, known, place, ask, seen, found, fresh, had, corrected>>

case == <<type, now, past, judged>>

books == <<deep, sheets, ledger, results>>

quality == <<stored, facts, runs, stamped, replaced, job>>

Rules == part = "normalization" /\ UNCHANGED <<part, quality, books, case, discovery>>
Judge == part = "quality" /\ UNCHANGED <<part, vars, books, case, discovery>>
Books == part = "books" /\ UNCHANGED <<part, vars, quality, case, discovery>>
Case  == part = "judges" /\ UNCHANGED <<part, vars, quality, books, discovery>>
Discovers == part = "discovery" /\ UNCHANGED <<part, vars, quality, books, case>>

PartsInit ==
    /\ part \in {"normalization", "quality", "books", "judges", "discovery"}
    /\ Init
    /\ part # "normalization" => table = [id \in Ids |-> None]
    /\ DQ!Init
    /\ stored = IF part = "quality" THEN {2} ELSE {}
    /\ RE!Init
    /\ part # "books" => deep
    /\ FQ!Init
    /\ part # "judges" => type = "BALANCE_SHEET"
    /\ FD!Init
    /\ part # "discovery" => known

PartsNext ==
    \/ Rules /\ EditRule
    \/ Rules /\ Call
    \/ Rules /\ ReadRules
    \/ Rules /\ Normalize
    \/ Rules /\ Fail
    \/ Rules /\ ApplyOverrides
    \/ \E s \in Statements : Judge /\ DQ!ReplaceFacts(s)
    \/ Judge /\ DQ!StoreVersion
    \/ \E j \in Jobs :
         \/ Judge /\ DQ!StartRun(j)
         \/ Judge /\ DQ!Judge(j)
         \/ Judge /\ DQ!Stamp(j)
         \/ Judge /\ DQ!Resolve(j)
         \/ Judge /\ DQ!StoreRun(j)
         \/ Judge /\ DQ!StartOverlay(j)
         \/ Judge /\ DQ!ReadRun(j)
         \/ Judge /\ DQ!ReadQuality(j)
         \/ Judge /\ DQ!ReadLatest(j)
         \/ Judge /\ DQ!ReadAnomalies(j)
         \/ Judge /\ DQ!Answered(j)
         \/ Judge /\ DQ!Fail(j)
    \/ Books /\ RE!ListStatement
    \/ Books /\ RE!AddFact
    \/ Books /\ RE!Run
    \/ Case /\ FQ!AddFact
    \/ Case /\ FQ!AddPast
    \/ Case /\ FQ!Evaluate
    \/ Case /\ FQ!Return
    \/ Discovers /\ FD!Publish
    \/ Discovers /\ FD!Correct
    \/ \E c \in Callers :
         \/ Discovers /\ FD!Call(c)
         \/ Discovers /\ FD!Refuse(c)
         \/ Discovers /\ FD!ReadWindow(c)
         \/ Discovers /\ FD!Locate(c)
         \/ Discovers /\ FD!NotFound(c)
         \/ Discovers /\ FD!CannotRead(c)
         \/ Discovers /\ FD!NothingNew(c)
         \/ Discovers /\ FD!SelectNew(c)
         \/ Discovers /\ FD!Store(c)
         \/ Discovers /\ FD!Conflict(c)
         \/ Discovers /\ FD!UnknownCompany(c)
         \/ Discovers /\ FD!Fail(c)

PartsSpec == PartsInit /\ [][PartsNext]_<<part, vars, quality, books, case, discovery>>

Symmetry == Permutations(Jobs)
=============================================================================
