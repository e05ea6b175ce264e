---------------------------- MODULE FilingDiscovery ----------------------------
(***************************************************************************)
(* What sync_recent_filings and ingest_edgar_filing see of a company's     *)
(* filings: HttpEdgarIngestionGateway reads the columns of the provider's  *)
(* submissions document, which changes, and the use cases compare with     *)
(* what is stored, which changes too.                                      *)
(*                                                                         *)
(* A call awaits the identity, the document, the stored accessions and the *)
(* writes one after the other.  The writes and the commit are one step     *)
(* here: a transaction that meets a key another holds waits for it and     *)
(* then conflicts (StatementPipeline has it statement by statement).  All  *)
(* calls ask for the same statement types, so that the versions of a       *)
(* filing take the key of its statement date; and what was found is a set, *)
(* since no caller limits the number of the newest.                        *)
(***************************************************************************)
EXTENDS Naturals, FiniteSets, Sequences, SequencesExt

CONSTANTS
    Reports,   \* bound: rows the provider may show, see Report
    Requests,  \* bound: what calls ask for, see Request
    Callers,   \* bound: one for each call
    Today,     \* bound: filings of a later day are not looked for by an ingest
    Unlisted,  \* a form that is not in FilingType
    Garbled,   \* a text that is not a date
    None

Report == [accession : Nat, form : {Unlisted} \cup STRING, amended : BOOLEAN,
           filed : {Garbled} \cup Nat, period : {Garbled, None} \cup Nat]

\* matches: the company is asked for with the CIK as the document writes it.
Request ==
    [kind : {"sync"}, matches : BOOLEAN, from : Nat, to : Nat,
     types : SUBSET STRING, amendments : BOOLEAN]
      \cup [kind : {"ingest"}, matches : BOOLEAN, accession : Nat]

DiscoveryAssumption ==
    /\ Reports \subseteq Report
    /\ Requests \subseteq Request
    /\ Today \in Nat
    /\ None \notin Requests

VARIABLES
    shown,     \* the recent section of the submissions document, newest first
    filings,   \* sec.filings
    dated,     \* [accession, date] of the stored statement versions
    known,     \* the company is in ref.companies
    at,        \* where a call is
    ask,       \* its request
    found,     \* the filings it found in the document
    fresh,     \* those it takes for new
    seen,      \* history: the rows it asked for, of those it read
    had,       \* history: the accessions stored when it looked
    corrected  \* history: accessions whose row was changed

calls == <<at, ask, seen, found, fresh, had>>
vars  == <<shown, filings, dated, known, calls, corrected>>

Init ==
    /\ shown = <<>>
    /\ filings = {}
    /\ dated = {}
    /\ known \in BOOLEAN
    /\ at = [c \in Callers |-> "idle"]
    /\ ask = [c \in Callers |-> None]
    /\ seen = [c \in Callers |-> {}]
    /\ found = [c \in Callers |-> {}]
    /\ fresh = [c \in Callers |-> {}]
    /\ had = [c \in Callers |-> {}]
    /\ corrected = {}

Goto(c, place) == at' = [at EXCEPT ![c] = place]

\* Of a call that returns nothing is left but what it was about, of one that raises
\* (EdgarMappingError, EdgarIngestionError, not found) not even that.
Over(c, how) ==
    /\ Goto(c, how)
    /\ found' = [found EXCEPT ![c] = {}]
    /\ fresh' = [fresh EXCEPT ![c] = {}]
    /\ had' = [had EXCEPT ![c] = {}]

Raise(c) ==
    /\ Over(c, "raised")
    /\ ask' = [ask EXCEPT ![c] = None]
    /\ seen' = [seen EXCEPT ![c] = {}]
    /\ UNCHANGED <<shown, filings, dated, known, corrected>>

Stored(accession) == \E f \in filings : f.accession = accession

-----------------------------------------------------------------------------
(* The provider.  Bound: rows are published in the order of accessions, and *)
(* changed once.                                                            *)

Publish ==
    /\ \E r \in Reports :
         /\ \A i \in DOMAIN shown : shown[i].accession < r.accession
         /\ shown' = <<r>> \o shown
    /\ UNCHANGED <<filings, dated, known, calls, corrected>>

Correct ==
    /\ \E i \in DOMAIN shown, r \in Reports :
         /\ shown[i].accession = r.accession
         /\ shown[i] # r
         /\ r.accession \notin corrected
         /\ shown' = [shown EXCEPT ![i] = r]
         /\ corrected' = corrected \cup {r.accession}
    /\ UNCHANGED <<filings, dated, known, calls>>

-----------------------------------------------------------------------------
(* HttpEdgarIngestionGateway.                                              *)

\* Rows of which accession, date and form are there; the column of periods may be shorter.
Rows(document, whole, periods) ==
    [i \in 1..whole |-> IF i <= periods THEN document[i]
                                        ELSE [document[i] EXCEPT !.period = None]]

\* The answers: columns of full length, or one that lacks its last entry.
Answers(document) ==
    LET n == Len(document)
    IN  {Range(Rows(document, k, p)) : k, p \in {n} \cup (0..n \cap {n - 1})}

\* Ingest looks for its accession in everything since 1994.
Window(q) ==
    IF q.kind = "sync" THEN q
    ELSE [from |-> 0, to |-> Today, types |-> {}, amendments |-> TRUE]

Wanted(w, r) ==
    /\ w.types = {} \/ r.form \in w.types
    /\ w.amendments \/ ~r.amended

Within(w, day) == day \in w.from..w.to

\* EdgarMappingError: a form of any row, the date of a row of the types wanted, another
\* date of a row of the window, or a period that ends after the filing.
Unreadable(w, r) ==
    \/ r.form = Unlisted
    \/ /\ Wanted(w, r)
       /\ \/ r.filed = Garbled
          \/ /\ Within(w, r.filed)
             /\ r.period = Garbled \/ (r.period \in Nat /\ r.period > r.filed)

FoundIn(w, rows) == {r \in rows : Wanted(w, r) /\ Within(w, r.filed)}

\* fetch_statement_versions_for_filing.
StatementDate(f) == IF f.period # None THEN f.period ELSE f.filed

-----------------------------------------------------------------------------
(* The use cases.                                                          *)

\* The request, with fetch_company_identity, whose answer does not change.
Call(c) ==
    /\ at[c] = "idle"
    /\ \E q \in Requests :
         /\ q.matches
         /\ Window(q).from <= Window(q).to
         /\ ask' = [ask EXCEPT ![c] = q]
    /\ Goto(c, "identified")
    /\ UNCHANGED <<shown, filings, dated, known, seen, found, fresh, had, corrected>>

Refuse(c) ==
    /\ at[c] = "idle"
    /\ \E q \in Requests : ~q.matches \/ Window(q).from > Window(q).to
    /\ Raise(c)

Asks(q, r) ==
    IF q.kind = "ingest" THEN r.accession = q.accession
    ELSE /\ r.filed \in q.from..q.to
         /\ q.types = {} \/ r.form \in q.types
         /\ r.amended => q.amendments

Remember(c, rows) == seen' = [seen EXCEPT ![c] = {r \in rows : Asks(ask[c], r)}]

\* fetch_filings_for_company for a sync; nothing found ends it.
ReadWindow(c) ==
    /\ at[c] = "identified"
    /\ ask[c].kind = "sync"
    /\ \E rows \in Answers(shown) :
         LET fs == FoundIn(ask[c], rows)
         IN  /\ ~\E r \in rows : Unreadable(ask[c], r)
             /\ Remember(c, rows)
             /\ found' = [found EXCEPT ![c] = fs]
             /\ Goto(c, IF fs = {} THEN "ok" ELSE "read")
    /\ UNCHANGED <<shown, filings, dated, known, ask, fresh, had, corrected>>

\* _locate_filing: the accession among all filings; whether it is stored is not asked.
Located(c, rows) ==
    {f \in FoundIn(Window(ask[c]), rows) : f.accession = ask[c].accession}

Locate(c) ==
    /\ at[c] = "identified"
    /\ ask[c].kind = "ingest"
    /\ \E rows \in Answers(shown) :
         /\ ~\E r \in rows : Unreadable(Window(ask[c]), r)
         /\ Located(c, rows) # {}
         /\ Remember(c, rows)
         /\ fresh' = [fresh EXCEPT ![c] = Located(c, rows)]
    /\ Goto(c, "writing")
    /\ UNCHANGED <<shown, filings, dated, known, ask, found, had, corrected>>

NotFound(c) ==
    /\ at[c] = "identified"
    /\ ask[c].kind = "ingest"
    /\ \E rows \in Answers(shown) :
         /\ ~\E r \in rows : Unreadable(Window(ask[c]), r)
         /\ Located(c, rows) = {}
    /\ Raise(c)

\* One row that cannot be mapped ends a call for any filing.
CannotRead(c) ==
    /\ at[c] = "identified"
    /\ \E rows \in Answers(shown) : \E r \in rows : Unreadable(Window(ask[c]), r)
    /\ Raise(c)

ExistingByPeriod(w) ==  \* mutant: the window of the statement dates
    {f \in filings : Within(w, StatementDate(f)) /\ (w.types = {} \/ f.form \in w.types)}

\* list_filings_for_company: stored filings of the window, amendments or not.
Existing(w) ==
    {f \in filings : Within(w, f.filed) /\ (w.types = {} \/ f.form \in w.types)}

NewIn(c) == {f \in found[c] : \A g \in Existing(ask[c]) : g.accession # f.accession}

NothingNew(c) ==
    /\ at[c] = "read"
    /\ NewIn(c) = {}
    /\ Over(c, "ok")
    /\ UNCHANGED <<shown, filings, dated, known, ask, seen, corrected>>

SelectNew(c) ==
    /\ at[c] = "read"
    /\ NewIn(c) # {}
    /\ fresh' = [fresh EXCEPT ![c] = NewIn(c)]
    /\ had' = [had EXCEPT ![c] = {f.accession : f \in filings}]
    /\ Goto(c, "writing")
    /\ UNCHANGED <<shown, filings, dated, known, ask, seen, found, corrected>>

\* uq_statement_versions_identity, for the versions of the filings to write.
Collide(fs) ==
    \/ \E f, g \in fs : f # g /\ StatementDate(f) = StatementDate(g)
    \/ \E f \in fs, v \in dated : StatementDate(f) = v.date

\* upsert_filings, upsert_statement_versions, commit.
Store(c) ==
    /\ at[c] = "writing"
    /\ known
    /\ ~Collide(fresh[c])
    /\ filings' = {f \in filings : \A g \in fresh[c] : g.accession # f.accession} \cup fresh[c]
    /\ dated' = dated \cup {[accession |-> f.accession, date |-> StatementDate(f)] : f \in fresh[c]}
    /\ Over(c, "ok")
    /\ UNCHANGED <<shown, known, ask, seen, corrected>>

Conflict(c) ==
    /\ at[c] = "writing"
    /\ known
    /\ Collide(fresh[c])
    /\ Goto(c, "conflict")
    /\ UNCHANGED <<shown, filings, dated, known, ask, seen, found, fresh, had, corrected>>

\* The filings are rolled back with the versions that have no company.
UnknownCompany(c) ==
    /\ at[c] = "writing"
    /\ ~known
    /\ Raise(c)

\* The client raises, the document has another shape, or the database fails.
Fail(c) ==
    /\ at[c] \in {"identified", "read", "writing"}
    /\ Raise(c)

Next ==
    \/ Publish \/ Correct
    \/ \E c \in Callers :
         \/ Call(c) \/ Refuse(c)
         \/ ReadWindow(c) \/ Locate(c) \/ NotFound(c) \/ CannotRead(c)
         \/ NothingNew(c) \/ SelectNew(c) \/ Store(c) \/ Conflict(c) \/ UnknownCompany(c) \/ Fail(c)

Spec == Init /\ [][Next]_vars

-----------------------------------------------------------------------------
\* A call that returned has all it asked for in the tables: every row it read of its
\* window and types is a filing with statement versions, and a sync that is repeated
\* finds it there, unless the provider has changed the row.  No filing is stored that
\* no call asked for.  A sync meets the unique constraint only if two filings have, or
\* had when one of them was stored, one statement date, a row was changed, or another call
\* stored one of its filings after it had looked.  And the days of a window can be synced apart: what is found in its two
\* halves is what is found in the whole, and if one cannot be read the other cannot.
\* (fetch_filings_for_company, list_filings_for_company, the execute of both use cases)
SyncsCoverTheirWindow ==
    /\ \A c \in Callers : at[c] = "ok" =>
         \A r \in seen[c] :
            /\ Stored(r.accession)
            /\ \E v \in dated : v.accession = r.accession
    /\ \A c \in Callers : at[c] = "ok" /\ ask[c].kind = "sync" =>
         \A r \in seen[c] :
            r.accession \notin corrected =>
                \E f \in Existing(ask[c]) : f.accession = r.accession
    /\ \A f \in filings : \E c \in Callers : at[c] = "ok" /\ Asks(ask[c], f)
    /\ \A c \in Callers : at[c] = "conflict" /\ ask[c].kind = "sync" =>
         \E f \in fresh[c] :
            \/ \E g \in fresh[c] :
                 g.accession # f.accession /\ StatementDate(g) = StatementDate(f)
            \/ \E v \in dated : v.accession # f.accession /\ v.date = StatementDate(f)
            \/ f.accession \in corrected
            \/ Stored(f.accession) /\ f.accession \notin had[c]
    /\ \A q \in Requests : q.kind = "sync" =>
         \A day \in q.from..q.to :
            LET rows  == Range(shown)
                first == [q EXCEPT !.to = day]
                rest  == [q EXCEPT !.from = day + 1]
                Reads(w) == ~\E r \in rows : Unreadable(w, r)
            IN  /\ Reads(q) <=> Reads(first) /\ (day < q.to => Reads(rest))
                /\ Reads(q) =>
                     /\ FoundIn(q, rows) = FoundIn(first, rows) \cup FoundIn(rest, rows)
                     /\ FoundIn(first, rows) \cap FoundIn(rest, rows) = {}
=============================================================================
