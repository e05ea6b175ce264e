----------------------------- MODULE Idempotency -----------------------------
(***************************************************************************)
(* The HTTP idempotency middleware and its table, for one Idempotency-Key  *)
(* (infrastructure/middleware/idempotency.py and                           *)
(* adapters/repositories/idempotency_repository.py).                       *)
(*                                                                         *)
(* Every request that carries the key is a process.  dispatch() awaits the *)
(* database four times: the lookup of an active record, the re-read of the *)
(* row by create_started, its flush and commit, and, after the downstream  *)
(* handler, the flush and commit of save_result.  Requests interleave      *)
(* between those points.  A flush and its commit are one step: a second    *)
(* writer of the row waits on the row lock (or on the primary key) until   *)
(* the first has committed.                                                *)
(*                                                                         *)
(* The session writes back only the columns that differ from what it last  *)
(* read or wrote (the ORM's unit of work), so two writers can each leave   *)
(* columns of the other in the row.                                        *)
(***************************************************************************)
EXTENDS Naturals, FiniteSets

CONSTANTS
    Requests,    \* the requests that carry the key, retries included
    Hashes,      \* request hashes: method, path, query and body
    MaxExpiries, \* bound: how often the record's TTL runs out
    NoRow,       \* no row for the key
    None         \* SQL NULL

\* A response is told apart by the request whose handler produced it: status is
\* that request, and so is body when the response has a JSON body.
Row == [hash : Hashes, state : {"STARTED", "COMPLETED"},
        status : Requests \cup {None}, body : Requests \cup {None}, live : BOOLEAN]

ASSUME IdempotencyAssumption ==
    /\ MaxExpiries \in Nat
    /\ None \notin Requests
    /\ NoRow \notin Row

VARIABLES
    row,        \* the row of the key
    pc,         \* where dispatch() is, per request
    snap,       \* the row as create_started read it
    hash,       \* request_hash
    hasBody,    \* whether the handler's response carries a JSON body
    answer,     \* what the client got
    expiries,   \* number of expiries so far
    effects,    \* history: requests whose handler took effect under this record
    lookedFree, \* history: requests whose lookup met no active record
    raced,      \* history: such a request restarted a record active by then
    outlived    \* history: the record expired under a request being dispatched

history == <<effects, lookedFree, raced, outlived>>
vars    == <<row, pc, snap, hash, hasBody, answer, expiries, history>>

Answers == [kind : {"none", "own", "conflict", "in_progress", "error"}]
             \cup [kind : {"replay"}, status : Requests, body : Requests \cup {None}]

Steps == {"arriving", "admitted", "selected", "running", "ran", "answered"}

TypeOK ==
    /\ row \in Row \cup {NoRow}
    /\ pc \in [Requests -> Steps]
    /\ snap \in [Requests -> Row \cup {NoRow}]
    /\ hash \in [Requests -> Hashes]
    /\ hasBody \in [Requests -> BOOLEAN]
    /\ answer \in [Requests -> Answers]
    /\ expiries \in 0..MaxExpiries
    /\ effects \subseteq Requests
    /\ lookedFree \subseteq Requests
    /\ raced \in BOOLEAN
    /\ outlived \in BOOLEAN

Init ==
    /\ row = NoRow
    /\ pc = [r \in Requests |-> "arriving"]
    /\ snap = [r \in Requests |-> NoRow]
    /\ hash \in [Requests -> Hashes]
    /\ hasBody \in [Requests -> BOOLEAN]
    /\ answer = [r \in Requests |-> [kind |-> "none"]]
    /\ expiries = 0
    /\ effects = {}
    /\ lookedFree = {}
    /\ raced = FALSE
    /\ outlived = FALSE

Goto(r, from, to) == pc[r] = from /\ pc' = [pc EXCEPT ![r] = to]

\* dispatch() returns (or raises, which the server turns into a 500).
Reply(r, what) == answer' = [answer EXCEPT ![r] = what]

Active == row # NoRow /\ row.live

Dispatching == {r \in Requests : pc[r] \in {"admitted", "selected", "running", "ran"}}
InFlight    == {r \in Requests : pc[r] \in {"running", "ran"}}

-----------------------------------------------------------------------------
(* get_active and the answers that need no handler.                        *)

Admit(r) ==
    /\ Goto(r, "arriving", "admitted")
    /\ lookedFree' = IF Active THEN lookedFree ELSE lookedFree \cup {r}
    /\ UNCHANGED answer

Refuse(r) ==
    /\ Goto(r, "arriving", "answered")
    /\ UNCHANGED lookedFree

Replay(r) == Reply(r, [kind |-> "replay", status |-> row.status, body |-> row.body])

Completed == row.state = "COMPLETED" /\ row.status # None

\* Mutants of Lookup: the hash is not compared; STARTED does not block; STARTED
\* is replayed.
LookupAnyHash(r) ==
    /\ \/ ~Active /\ Admit(r)
       \/ Active /\ Refuse(r) /\ Completed /\ Replay(r)
       \/ Active /\ Refuse(r) /\ ~Completed /\ Reply(r, [kind |-> "in_progress"])
    /\ UNCHANGED <<row, snap, hash, hasBody, expiries, effects, raced, outlived>>

LookupCompletedOnly(r) ==
    /\ \/ ~(Active /\ Completed) /\ Admit(r)
       \/ Active /\ Completed /\ Refuse(r) /\ row.hash # hash[r] /\ Reply(r, [kind |-> "conflict"])
       \/ Active /\ Completed /\ Refuse(r) /\ row.hash = hash[r] /\ Replay(r)
    /\ UNCHANGED <<row, snap, hash, hasBody, expiries, effects, raced, outlived>>

LookupAnyState(r) ==
    /\ \/ ~Active /\ Admit(r)
       \/ Active /\ Refuse(r) /\ row.hash # hash[r] /\ Reply(r, [kind |-> "conflict"])
       \/ Active /\ Refuse(r) /\ row.hash = hash[r] /\ Replay(r)
    /\ UNCHANGED <<row, snap, hash, hasBody, expiries, effects, raced, outlived>>

Lookup(r) ==
    /\ \/ ~Active /\ Admit(r)
       \/ /\ Active /\ row.hash # hash[r]
          /\ Refuse(r) /\ Reply(r, [kind |-> "conflict"])
       \/ /\ Active /\ row.hash = hash[r] /\ Completed
          /\ Refuse(r) /\ Replay(r)
       \/ /\ Active /\ row.hash = hash[r] /\ ~Completed
          /\ Refuse(r) /\ Reply(r, [kind |-> "in_progress"])
    /\ UNCHANGED <<row, snap, hash, hasBody, expiries, effects, raced, outlived>>

-----------------------------------------------------------------------------
(* create_started.                                                         *)

\* It re-reads the row by key alone, active or not.
SelectRow(r) ==
    /\ Goto(r, "admitted", "selected")
    /\ snap' = [snap EXCEPT ![r] = row]
    /\ UNCHANGED <<row, hash, hasBody, answer, expiries, history>>

Started(h) == [hash |-> h, state |-> "STARTED", status |-> None, body |-> None, live |-> TRUE]

InsertStarted(r) ==
    /\ snap[r] = NoRow
    /\ row = NoRow
    /\ Goto(r, "selected", "running")
    /\ row' = Started(hash[r])
    /\ UNCHANGED <<snap, hash, hasBody, answer, expiries, history>>

InsertConflictIgnored(r) ==  \* mutant: the handler runs although the INSERT did nothing
    /\ snap[r] = NoRow
    /\ row # NoRow
    /\ Goto(r, "selected", "running")
    /\ UNCHANGED <<row, snap, hash, hasBody, answer, expiries, history>>

\* The INSERT meets the primary key: IntegrityError, nothing is handled.
InsertConflicts(r) ==
    /\ snap[r] = NoRow
    /\ row # NoRow
    /\ Goto(r, "selected", "answered")
    /\ Reply(r, [kind |-> "error"])
    /\ UNCHANGED <<row, snap, hash, hasBody, expiries, history>>

\* A column goes into the UPDATE only if its new value differs from the one read.
Column(old, new, stored) == IF new = old THEN stored ELSE new

\* The row after the reset: expires_at always changes, the others may not.
Restarted(seen, h) ==
    [hash   |-> Column(seen.hash, h, row.hash),
     state  |-> Column(seen.state, "STARTED", row.state),
     status |-> Column(seen.status, None, row.status),
     body   |-> Column(seen.body, None, row.body),
     live   |-> TRUE]

Restart(r) ==
    /\ snap[r] # NoRow
    /\ Goto(r, "selected", "running")
    /\ row' = Restarted(snap[r], hash[r])
    /\ raced' = (raced \/ (row.live /\ r \in lookedFree))
    /\ UNCHANGED <<snap, hash, hasBody, answer, expiries, effects, lookedFree, outlived>>

-----------------------------------------------------------------------------
(* call_next and save_result.                                              *)

\* The downstream handler takes effect, in a transaction of its own.
RunHandler(r) ==
    /\ Goto(r, "running", "ran")
    /\ effects' = effects \cup {r}
    /\ UNCHANGED <<row, snap, hash, hasBody, answer, expiries, lookedFree, raced, outlived>>

\* The session holds the record as STARTED with no response, so state and
\* status are always written, and the body only when there is one.
SaveResult(r) ==
    /\ Goto(r, "ran", "answered")
    /\ row' = [row EXCEPT !.state = "COMPLETED",
                          !.status = r,
                          !.body = IF hasBody[r] THEN r ELSE @]
    /\ Reply(r, [kind |-> "own"])
    /\ UNCHANGED <<snap, hash, hasBody, expiries, history>>

\* The handler raises, the client disconnects or the process dies, before or
\* after the handler's effect: the record stays STARTED.
Abort(r) ==
    /\ r \in InFlight
    /\ pc' = [pc EXCEPT ![r] = "answered"]
    /\ Reply(r, [kind |-> "error"])
    /\ UNCHANGED <<row, snap, hash, hasBody, expiries, history>>

\* expires_at passes.
Expire ==
    /\ expiries < MaxExpiries
    /\ Active
    /\ row' = [row EXCEPT !.live = FALSE]
    /\ expiries' = expiries + 1
    /\ effects' = {}
    /\ outlived' = (outlived \/ Dispatching # {})
    /\ UNCHANGED <<pc, snap, hash, hasBody, answer, lookedFree, raced>>

Dispatch(r) ==
    \/ Lookup(r) \/ SelectRow(r)
    \/ InsertStarted(r) \/ InsertConflicts(r) \/ Restart(r)
    \/ RunHandler(r) \/ SaveResult(r) \/ Abort(r)

Next == Expire \/ \E r \in Requests : Dispatch(r)

Spec == Init /\ [][Next]_vars

-----------------------------------------------------------------------------
(* Safety.                                                                 *)

\* No request whose lookup met no active record restarted one that had become
\* active meanwhile, and no record expired under a request that was being
\* dispatched (the TTL is a day).
Undisturbed == ~raced /\ ~outlived

\* Apart from those two races, the handler takes effect at most once per record,
\* even when it is aborted after its effect and the client retries.
AtMostOneEffect == Undisturbed => \A r, q \in effects : r = q

\* What a request replays was produced by a request with the same hash, and its
\* body is that response's own body.
FaithfulReplay(r) ==
    answer[r].kind = "replay" =>
        /\ hash[answer[r].status] = hash[r]
        /\ answer[r].body = IF hasBody[answer[r].status] THEN answer[r].status ELSE None

\* Apart from those two races, every replay is faithful.
ReplayUnlessDisturbed == Undisturbed => \A r \in Requests : FaithfulReplay(r)

\* state and status agree even when racing writers mix their columns, so that a
\* stored response can always be replayed.
CompletedHasStatus ==
    row # NoRow => (row.state = "COMPLETED" <=> row.status # None)

\* Apart from those two races, a stored response is not replaced while it can be
\* replayed.
StoredResponseStays ==
    [][(Active /\ row.state = "COMPLETED" /\ Undisturbed' /\ row'.live) => row' = row]_vars

\* The middleware's docstring: "Same key + same request -> same response" and
\* "Same key + different request -> 409 conflict".
ReplayOwnRequest == \A r \in Requests : FaithfulReplay(r)
=============================================================================
