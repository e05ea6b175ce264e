------------------------- MODULE MCStatementPipeline -------------------------
(* One company with a 10-K and its 10-K/A for the same date, a 10-Q of the same year
   and its 10-Q/A, the last to be filed.  Two statement types, two payloads, and at
   most three calls at once.                                                      *)
EXTENDS StatementPipeline

MCFilings == {"k", "ka", "q", "qa"}
MCTypes   == {"bs", "is"}
MCDates   == {"mar", "dec"}
MCDateOf  == [f \in MCFilings |-> IF f \in {"q", "qa"} THEN "mar" ELSE "dec"]
MCYearOf  == [d \in MCDates |-> 2024]
MCFiled   == ("q" :> 1) @@ ("k" :> 2) @@ ("ka" :> 3) @@ ("qa" :> 4)

Both == <<"bs", "is">>

\* Writers that collide on a filing, on a date, and within one batch; a sync of the
\* amendments, which takes the dates the other way round; and what is downstream of
\* the 10-K's balance sheet, with the payload of the day and the one of a later day.
MCRequests ==
    {[kind |-> "ingest", filing |-> "k", types |-> Both],
     [kind |-> "ingest", filing |-> "ka", types |-> <<"is", "bs">>],
     [kind |-> "sync", filings |-> <<"k", "q">>, types |-> Both],
     [kind |-> "sync", filings |-> <<"qa", "ka", "k">>, types |-> Both],
     [kind |-> "normalize", filing |-> "k", type |-> "bs", year |-> 2024, seq |-> 1, payload |-> "old"],
     [kind |-> "process", filing |-> "k", only |-> {"bs"}],
     [kind |-> "update", filing |-> "k", type |-> "bs", seq |-> 1, payload |-> "old"],
     [kind |-> "update", filing |-> "k", type |-> "bs", seq |-> 1, payload |-> "new"],
     [kind |-> "persist", type |-> "bs", year |-> 2024, seq |-> 1]}

\* One filing, fetched and normalized.
TenKRequests ==
    {[kind |-> "ingest", filing |-> "k", types |-> Both],
     [kind |-> "normalize", filing |-> "k", type |-> "bs", year |-> 2024, seq |-> 1, payload |-> "old"]}

Symmetry == Permutations(Jobs)
=============================================================================
