---------------------------- MODULE MarketIngest ----------------------------
(***************************************************************************)
(* Intraday bars of one symbol: the use cases that fetch them, stage the   *)
(* raw payload, upsert them and replay staged payloads, with the tables    *)
(* staging.ingest_runs, staging.raw_payloads and md_intraday_bars.         *)
(*                                                                         *)
(* A job is one call of a use case, in one database transaction at READ    *)
(* COMMITTED on a session of its own.  Jobs interleave at every await.  An *)
(* upsert takes the row locks of its bars one by one, in the order of its  *)
(* list, and waits for a bar another transaction has written; the database *)
(* aborts one of the transactions that wait for each other in a circle.    *)
(*                                                                         *)
(* A window is the set of bar timestamps it spans.  A bar is told apart by *)
(* its revision: the provider corrects bars while and after they form.     *)
(***************************************************************************)
EXTENDS Naturals, FiniteSets

CONSTANTS
    Jobs,       \* use cases that may be under way at once
    Times,      \* bar timestamps, numbers
    Windows,    \* windows a request may name; Times itself is no window at all
    Staged,     \* the window of an ingest before the first call, or {} for none
    MaxRev,     \* bound: revisions of each bar
    MaxCalls    \* bound: calls of a use case in all

ASSUME MarketAssumption ==
    /\ IsFiniteSet(Jobs) /\ Jobs # {}
    /\ Times \subseteq Nat \ {0} /\ IsFiniteSet(Times)
    /\ Windows \subseteq SUBSET Times
    /\ Staged \in Windows \cup {{}}
    /\ MaxRev \in [Times -> Nat \ {0}]
    /\ MaxCalls \in Nat \ {0}

\* Bars by timestamp; 0 where there is none.
Revisions == UNION {0..MaxRev[t] : t \in Times}
Bars == [Times -> Revisions]
NoBars == [t \in Times |-> 0]

Payload == [window : Windows, at : Nat, data : Bars]
Row     == [at : Nat, ts : Times, rev : Revisions]
Run     == [key : Windows, id : Nat, result : {"SUCCESS", "ERROR"}]

VARIABLES
    provider,  \* environment: the provider's bars
    bars,      \* committed md_intraday_bars
    payloads,  \* committed raw_payloads; at orders received_at
    runs,      \* committed ingest_runs; id orders started_at
    kind,      \* ingest or replay
    window,    \* the requested window
    pc,        \* where the use case is
    run,       \* ingest: the id of its run
    fetched,   \* ingest: the provider's answer
    received,  \* ingest: received_at of its payload, 0 before it is saved
    left,      \* rows still to be upserted
    mine,      \* bars upserted and not yet committed
    outcome,   \* how the last call of the job ended
    calls,     \* calls made so far
    begun,     \* runs begun so far; the clock of started_at
    saved,     \* payloads saved so far; the clock of received_at
    alone      \* history: no other use case ran since the job's call

tables  == <<bars, payloads, runs>>
work    == <<run, fetched, received, left, mine>>
request == <<kind, window, alone>>
vars    == <<provider, tables, request, pc, work, outcome, calls, begun, saved>>

TypeOK ==
    /\ provider \in Bars
    /\ bars \in Bars
    /\ payloads \subseteq Payload
    /\ runs \subseteq Run
    /\ kind \in [Jobs -> {"none", "ingest", "replay"}]
    /\ window \in [Jobs -> Windows \cup {Times}]
    /\ pc \in [Jobs -> {"idle", "start", "fetching", "saving", "upserting"}]
    /\ run \in [Jobs -> Nat]
    /\ fetched \in [Jobs -> Bars]
    /\ received \in [Jobs -> Nat]
    /\ left \in [Jobs -> SUBSET Row]
    /\ mine \in [Jobs -> Bars]
    /\ outcome \in [Jobs -> {"none", "ok", "failed"}]
    /\ calls \in 0..MaxCalls
    /\ begun \in Nat /\ saved \in Nat
    /\ alone \in [Jobs -> BOOLEAN]

Init ==
    /\ provider = [t \in Times |-> IF t \in Staged THEN 1 ELSE 0]
    /\ bars = provider
    /\ payloads = IF Staged = {} THEN {} ELSE {[window |-> Staged, at |-> 1, data |-> provider]}
    /\ runs = IF Staged = {} THEN {} ELSE {[key |-> Staged, id |-> 1, result |-> "SUCCESS"]}
    /\ kind = [j \in Jobs |-> "none"]
    /\ window = [j \in Jobs |-> Times]
    /\ pc = [j \in Jobs |-> "idle"]
    /\ run = [j \in Jobs |-> 0]
    /\ fetched = [j \in Jobs |-> NoBars]
    /\ received = [j \in Jobs |-> 0]
    /\ left = [j \in Jobs |-> {}]
    /\ mine = [j \in Jobs |-> NoBars]
    /\ outcome = [j \in Jobs |-> "none"]
    /\ calls = IF Staged = {} THEN 0 ELSE 1
    /\ begun = calls
    /\ saved = calls
    /\ alone = [j \in Jobs |-> FALSE]

Set(f, j, value) == [f EXCEPT ![j] = value]

EndStaysOpen(j, how) ==  \* mutant: the session is left open after an error
    /\ pc' = Set(pc, j, "idle")
    /\ outcome' = Set(outcome, j, how)
    /\ IF how = "ok"
         THEN /\ left' = Set(left, j, {})
              /\ mine' = Set(mine, j, NoBars)
         ELSE UNCHANGED <<left, mine>>
    /\ UNCHANGED <<request, run, fetched, received>>

\* The use case returns or raises; its session is closed.  What was asked is
\* remembered of a replay that is done.
End(j, how) ==
    /\ pc' = Set(pc, j, "idle")
    /\ outcome' = Set(outcome, j, how)
    /\ IF kind[j] = "replay" /\ how = "ok"
         THEN UNCHANGED request
         ELSE /\ kind' = Set(kind, j, "none")
              /\ window' = Set(window, j, Times)
              /\ alone' = Set(alone, j, FALSE)
    /\ run' = Set(run, j, 0)
    /\ fetched' = Set(fetched, j, NoBars)
    /\ received' = Set(received, j, 0)
    /\ left' = Set(left, j, {})
    /\ mine' = Set(mine, j, NoBars)

\* The rows of a payload.  A timestamp occurs once (the upsert keeps the last of several).
Rows(p) == {[at |-> p.at, ts |-> t, rev |-> p.data[t]] : t \in {t \in Times : p.data[t] # 0}}

PrecedesReversed(row, other) ==  \* mutant: the payloads are read in descending order
    \/ row.at > other.at
    \/ row.at = other.at /\ row.ts > other.ts

\* Payloads in the order they were received, the rows of each newest first, as the
\* provider lists them.
Precedes(row, other) ==
    \/ row.at < other.at
    \/ row.at = other.at /\ row.ts > other.ts

\* The row that comes next.
Upcoming(j) == {row \in left[j] : \A other \in left[j] \ {row} : Precedes(row, other)}

-----------------------------------------------------------------------------
(* ingest_marketstack_intraday.                                            *)

RunsOf(w) == {r \in runs : r.key = w}

NewRun(j) ==
    /\ begun' = begun + 1
    /\ run' = Set(run, j, begun')

StartRunAlwaysNew(j) ==  \* mutant: an existing run is not looked up
    /\ pc[j] = "start"
    /\ kind[j] = "ingest"
    /\ NewRun(j)
    /\ pc' = Set(pc, j, "fetching")
    /\ UNCHANGED <<provider, tables, request, fetched, received, left, mine, outcome, calls, saved>>

\* start_run: the latest run of the key, or a new one in this transaction.
StartRun(j) ==
    /\ pc[j] = "start"
    /\ kind[j] = "ingest"
    /\ \/ RunsOf(window[j]) = {} /\ NewRun(j)
       \/ \E r \in RunsOf(window[j]) :
            /\ \A q \in RunsOf(window[j]) : q.id <= r.id
            /\ run' = Set(run, j, r.id)
            /\ UNCHANGED begun
    /\ pc' = Set(pc, j, "fetching")
    /\ UNCHANGED <<provider, tables, request, fetched, received, left, mine, outcome, calls, saved>>

\* fetch_intraday_bars: the one page it asks for, the bars of the window.
ProviderAnswers(j) ==
    /\ pc[j] = "fetching"
    /\ fetched' = Set(fetched, j, [t \in Times |-> IF t \in window[j] THEN provider[t] ELSE 0])
    /\ pc' = Set(pc, j, "saving")
    /\ UNCHANGED <<provider, tables, request, run, received, left, mine, outcome, calls, begun, saved>>

\* save_raw_payload, in the transaction, and the rows to upsert.
SavePayload(j) ==
    /\ pc[j] = "saving"
    /\ saved' = saved + 1
    /\ received' = Set(received, j, saved')
    /\ left' = Set(left, j, Rows([at |-> saved', data |-> fetched[j]]))
    /\ pc' = Set(pc, j, "upserting")
    /\ UNCHANGED <<provider, tables, request, run, fetched, mine, outcome, calls, begun>>

\* The gateway or a statement raises: finish_run marks the run ERROR in the
\* transaction that is then rolled back.
IngestError(j) ==
    /\ pc[j] \in {"fetching", "saving", "upserting"}
    /\ kind[j] = "ingest"
    /\ End(j, "failed")
    /\ UNCHANGED <<provider, tables, calls, begun, saved>>

-----------------------------------------------------------------------------
(* upsert_intraday_bars, for both use cases.                               *)

\* Another transaction has written the bar.
Locked(j, t) == \E k \in Jobs \ {j} : mine[k][t] # 0

UpsertBarOnce(j) ==  \* mutant: ON CONFLICT DO NOTHING for a bar the transaction has written
    /\ pc[j] = "upserting"
    /\ \E row \in Upcoming(j) :
         /\ ~Locked(j, row.ts)
         /\ mine' = Set(mine, j, [mine[j] EXCEPT ![row.ts] = IF @ = 0 THEN row.rev ELSE @])
         /\ left' = Set(left, j, left[j] \ {row})
    /\ UNCHANGED <<provider, tables, request, pc, run, fetched, received, outcome, calls, begun, saved>>

\* INSERT ... ON CONFLICT DO UPDATE, one row of it: the row's lock and new values.
UpsertBar(j) ==
    /\ pc[j] = "upserting"
    /\ \E row \in Upcoming(j) :
         /\ ~Locked(j, row.ts)
         /\ mine' = Set(mine, j, [mine[j] EXCEPT ![row.ts] = row.rev])
         /\ left' = Set(left, j, left[j] \ {row})
    /\ UNCHANGED <<provider, tables, request, pc, run, fetched, received, outcome, calls, begun, saved>>

Written(j) == [t \in Times |-> IF mine[j][t] # 0 THEN mine[j][t] ELSE bars[t]]

CommitIngestNoPayload(j) ==  \* mutant: the payload is not added to the session
    /\ pc[j] = "upserting"
    /\ kind[j] = "ingest"
    /\ left[j] = {}
    /\ bars' = Written(j)
    /\ payloads' = payloads
    /\ runs' = {r \in runs : r.id # run[j]}
                 \cup {[key |-> window[j], id |-> run[j], result |-> "SUCCESS"]}
    /\ End(j, "ok")
    /\ UNCHANGED <<provider, calls, begun, saved>>

\* finish_run and the commit: payload, bars and run at once.
CommitIngest(j) ==
    /\ pc[j] = "upserting"
    /\ kind[j] = "ingest"
    /\ left[j] = {}
    /\ bars' = Written(j)
    /\ payloads' = payloads \cup
                     {[window |-> window[j], at |-> received[j], data |-> fetched[j]]}
    /\ runs' = {r \in runs : r.id # run[j]}
                 \cup {[key |-> window[j], id |-> run[j], result |-> "SUCCESS"]}
    /\ End(j, "ok")
    /\ UNCHANGED <<provider, calls, begun, saved>>

-----------------------------------------------------------------------------
(* replay_staging_to_md.                                                   *)

\* window_from >= and window_to <= the requested ones.
Selected(j) == {p \in payloads : p.window \subseteq window[j]}

\* The payloads are read once, then upserted one statement each.
ReadPayloads(j) ==
    /\ pc[j] = "start"
    /\ kind[j] = "replay"
    /\ left' = Set(left, j, UNION {Rows(p) : p \in Selected(j)})
    /\ pc' = Set(pc, j, "upserting")
    /\ UNCHANGED <<provider, tables, request, run, fetched, received, mine, outcome, calls, begun, saved>>

CommitReplay(j) ==
    /\ pc[j] = "upserting"
    /\ kind[j] = "replay"
    /\ left[j] = {}
    /\ bars' = Written(j)
    /\ End(j, "ok")
    /\ UNCHANGED <<provider, payloads, runs, calls, begun, saved>>

-----------------------------------------------------------------------------

\* Transactions that wait for each other, every one for the next.
InCycle(j) ==
    \E S \in SUBSET Jobs :
        /\ j \in S
        /\ \A k \in S : \E row \in Upcoming(k), h \in S \ {k} : mine[h][row.ts] # 0

\* The database resolves a deadlock: the statement of one job fails, finish_run
\* fails on the aborted transaction, and closing the session rolls it back.
Abort(j) ==
    /\ InCycle(j)
    /\ End(j, "failed")
    /\ UNCHANGED <<provider, tables, calls, begun, saved>>

\* The task is cancelled, the connection is lost or the process dies.
Crash(j) ==
    /\ pc[j] # "idle"
    /\ End(j, "failed")
    /\ UNCHANGED <<provider, tables, calls, begun, saved>>

Call(j) ==
    /\ pc[j] = "idle"
    /\ calls < MaxCalls
    /\ calls' = calls + 1
    /\ pc' = Set(pc, j, "start")
    /\ outcome' = Set(outcome, j, "none")
    /\ \/ /\ kind' = Set(kind, j, "ingest")
          /\ \E w \in Windows : window' = Set(window, j, w)
       \/ /\ kind' = Set(kind, j, "replay")
          /\ \E w \in Windows \cup {Times} : window' = Set(window, j, w)
    /\ alone' = [k \in Jobs |-> k = j /\ \A h \in Jobs : pc[h] = "idle"]
    /\ UNCHANGED <<provider, tables, work, begun, saved>>

\* The provider publishes or corrects a bar.
Revise ==
    /\ \E t \in Times : provider[t] < MaxRev[t] /\ provider' = [provider EXCEPT ![t] = @ + 1]
    /\ UNCHANGED <<tables, request, pc, work, outcome, calls, begun, saved>>

Step(j) ==
    \/ StartRun(j) \/ ProviderAnswers(j) \/ SavePayload(j) \/ UpsertBar(j) \/ CommitIngest(j)
    \/ ReadPayloads(j) \/ CommitReplay(j) \/ Abort(j)

Next == (\E j \in Jobs : Step(j) \/ IngestError(j) \/ Crash(j) \/ Call(j)) \/ Revise

Spec == Init /\ [][Next]_vars

\* The provider's answer or the client's timeout comes, statements are executed and
\* the database breaks deadlocks.
FairSpec == Spec /\ \A j \in Jobs : WF_vars(Step(j))

-----------------------------------------------------------------------------
(* Properties.                                                             *)

\* "Persists the raw provider payload into staging for replay": a stored bar can
\* be traced to a stored payload, and a stored run says SUCCESS of a window whose
\* payload is stored, whatever was rolled back in between.  Nothing makes (source,
\* endpoint, key) unique, so that concurrent first ingests of a window may each
\* insert a run; once one is committed the others are found, and there are never more
\* of them than use cases under way at once.
StagingComplete ==
    /\ \A t \in Times : bars[t] # 0 => \E p \in payloads : p.data[t] = bars[t]
    /\ \A r \in runs : r.result = "SUCCESS" /\ \E p \in payloads : p.window = r.key
    /\ \A w \in Windows : Cardinality(RunsOf(w)) <= Cardinality(Jobs)

\* "Deterministic replay": a replay of everything that ran by itself leaves exactly
\* the bars of the payloads, of the last received one where they overlap.
LastReceived(t) ==
    LET holding == {p \in payloads : p.data[t] # 0}
    IN  IF holding = {} THEN 0
        ELSE (CHOOSE p \in holding : \A q \in holding : q.at <= p.at).data[t]

ReplayReproduces ==
    \A j \in Jobs :
        (kind[j] = "replay" /\ window[j] = Times /\ outcome[j] = "ok" /\ alone[j]) =>
            \A t \in Times : bars[t] = LastReceived(t)

\* Every way a stored bar goes back to an older revision: the job overlapped another
\* one, or a replay's window left out a payload of the bar, or payloads were received
\* in another order than the provider made them.
Inverted(t) ==
    \E p, q \in payloads : p.at < q.at /\ p.data[t] > q.data[t] /\ q.data[t] # 0

BarsGoBackOnlyThen ==
    [][\A t \in Times : bars'[t] < bars[t] =>
          \E j \in Jobs :
              /\ pc[j] = "upserting" /\ pc'[j] = "idle"
              /\ \/ ~alone[j]
                 \/ kind[j] = "replay" /\ \E p \in payloads : p.data[t] # 0 /\ p \notin Selected(j)
                 \/ Inverted(t)]_vars

\* Every use case ends, even when a replay and an ingest of overlapping windows lock
\* the same bars in opposite orders.
JobsEnd == \A j \in Jobs : pc[j] # "idle" ~> pc[j] = "idle"
=============================================================================
