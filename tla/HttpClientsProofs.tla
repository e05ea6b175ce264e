-------------------------- MODULE HttpClientsProofs --------------------------
(***************************************************************************)
(* Machine-checked safety of the HTTP clients, for any number of calls, any *)
(* retry budget, any number of pages or candidate URLs and any parameters   *)
(* of the breaker.                                                         *)
(***************************************************************************)
EXTENDS HttpClients, TLAPS

-----------------------------------------------------------------------------
(* The inductive invariant.                                                *)

\* The most requests the first n items of a call may take.
Quota(n) == n * (Budget + 1)

\* The numbers of attempts of the items before this one, and of this one's.
WithinBudget(c) ==
    /\ pc[c] = "idle" => sent[c] = 0
    /\ pc[c] = "ready" => sent[c] + Budget + 1 <= Quota(item[c]) + attempt[c]
    /\ pc[c] \in {"waiting", "resting", "backoff"} => sent[c] + Budget <= Quota(item[c]) + attempt[c]
    /\ pc[c] = "backoff" => attempt[c] < Budget

\* While it runs, an XBRL fetch has seen a 404 for every candidate before this
\* one, and a listing has the pages before this one.
EvidenceSoFar(c) ==
    /\ kind[c] = "xbrl" =>
         /\ item[c] <= Items
         /\ \A i \in 1..Items : i < item[c] => <<"not_found", i>> \in bare[c]
    /\ kind[c] \in {"listing", "excerpt"} => got[c] = item[c] - 1

ClaimSupported(c) ==
    /\ outcome[c] = "missing" => \A i \in 1..Items : <<"not_found", i>> \in bare[c]
    /\ outcome[c] \in {"listing", "excerpt"} =>
         \/ got[c] = Items
         \/ outcome[c] = "excerpt" /\ got[c] = MaxPages
         \/ got[c] = item[c] - 1 /\ \E answer \in Bare : <<answer, item[c]>> \in bare[c]

CallInv(c) ==
    /\ pc[c] = "idle" <=> kind[c] = "none"
    /\ pc[c] # "idle" => outcome[c] = "none"
    /\ WithinBudget(c)
    /\ EvidenceSoFar(c)
    /\ ClaimSupported(c)

Seen == SUBSET (Bare \X (1..(Items + 1)))

\* TypeOK without the breaker's own part.
CallTypes ==
    /\ provider \in {"marketstack", "edgar"}
    /\ kind \in [Calls -> KindsOf(provider) \cup {"none"}]
    /\ pc \in [Calls -> {"idle", "ready", "waiting", "resting", "backoff"}]
    /\ attempt \in [Calls -> 0..Budget]
    /\ item \in [Calls -> 1..(Items + 1)]
    /\ got \in [Calls -> 0..Items]
    /\ outcome \in [Calls -> Raised \cup Ends \cup {"none"}]
    /\ sent \in [Calls -> Nat]
    /\ bare \in [Calls -> Seen]

IInv ==
    /\ CallTypes
    /\ SlotsOnlyInFlight
    /\ \A c \in Calls : CallInv(c)

-----------------------------------------------------------------------------

\* One more item is Budget + 1 more requests.
LEMMA QuotaGrows ==
    /\ Quota(1) = Budget + 1
    /\ \A n \in Nat : /\ Quota(n) \in Nat
                      /\ Quota(n + 1) = Quota(n) + Budget + 1
<1>1. \A n \in Nat : n * (Budget + 1) \in Nat /\ (n + 1) * (Budget + 1) = n * (Budget + 1) + Budget + 1
    BY ClientAssumption DEF ClientAssumption
<1> QED
    BY <1>1, ClientAssumption DEF ClientAssumption, Quota

\* A step of one call leaves what is known of another.
LEMMA Unmoved ==
    ASSUME NEW d \in Calls, CallInv(d),
           <<kind'[d], pc'[d], attempt'[d], item'[d], got'[d], outcome'[d], sent'[d], bare'[d]>>
             = <<kind[d], pc[d], attempt[d], item[d], got[d], outcome[d], sent[d], bare[d]>>
    PROVE  CallInv(d)'
BY DEF CallInv, WithinBudget, EvidenceSoFar, ClaimSupported, Quota

\* What an attempt that amounts to x must have seen for a claim to rest on it.
Founded(c, x, seen) ==
    /\ x = "absent" => <<"not_found", item[c]>> \in seen
    /\ x = "payload" /\ kind[c] \in {"listing", "excerpt"} => item[c] <= Items
    /\ x \in Values \ {"payload"} =>
         \/ x = "no_rows" /\ item[c] = Items + 1
         \/ \E answer \in Bare : <<answer, item[c]>> \in seen

\* The end of an attempt keeps the call in order: it backs off, goes on to the
\* next item, or ends with an outcome that what it has seen supports.
LEMMA AttemptEnds ==
    ASSUME IInv, NEW c \in Calls, pc[c] \in {"ready", "waiting", "resting"},
           NEW x \in Values \cup Raised, NEW seen \in Seen, Founded(c, x, seen),
           \* a refused attempt has sent nothing
           pc[c] = "ready" \/ sent[c] + Budget <= Quota(item[c]) + attempt[c],
           Attempted(c, x), Note(c, seen), provider' = provider
    PROVE  /\ CallTypes'
           /\ pc' = [pc EXCEPT ![c] = pc'[c]]
           /\ pc'[c] # "waiting"
           /\ \A d \in Calls : CallInv(d)'
<1> USE ClientAssumption DEF ClientAssumption
<1> DEFINE Kept == sent[c] + Budget <= Quota(item[c]) + attempt[c]
<1>types. /\ item[c] \in 1..(Items + 1)
          /\ attempt[c] \in 0..Budget
          /\ sent[c] \in Nat
          /\ got[c] \in 0..Items
          /\ bare[c] \in Seen
          /\ kind[c] \in KindsOf(provider) \cup {"none"}
    BY DEF IInv, CallTypes
<1>inv. CallInv(c)
    BY DEF IInv
<1>quota. /\ Quota(item[c]) \in Nat
          /\ Quota(item[c] + 1) = Quota(item[c]) + Budget + 1
    BY <1>types, QuotaGrows
<1>kept. Kept
    BY <1>inv, <1>types, <1>quota DEF CallInv, WithinBudget
<1>running. /\ outcome[c] = "none"
            /\ kind[c] # "none"
    BY <1>inv DEF CallInv
<1>bare. /\ bare' = [bare EXCEPT ![c] = IF outcome'[c] \in Claims \cup {"none"}
                                         THEN bare[c] \cup seen ELSE {}]
         /\ bare' \in [Calls -> Seen]
    BY <1>types DEF IInv, CallTypes, Note, Set, Seen
<1>1. CASE /\ Retryable(x)
           /\ attempt[c] < Budget
           /\ pc' = Set(pc, c, "backoff")
           /\ UNCHANGED <<kind, attempt, item, got, outcome, sent>>
  <2>1. CallTypes' /\ pc' = [pc EXCEPT ![c] = pc'[c]] /\ pc'[c] = "backoff"
      BY <1>1, <1>bare DEF IInv, CallTypes, Set
  <2>2. bare'[c] = bare[c] \cup seen
      BY <1>1, <1>bare, <1>running DEF IInv, CallTypes
  <2>3. CallInv(c)'
      BY <1>1, <1>inv, <1>kept, <1>running, <2>1, <2>2
      DEF CallInv, WithinBudget, EvidenceSoFar, ClaimSupported, Quota
  <2>4. ASSUME NEW d \in Calls, d # c
        PROVE  CallInv(d)'
      BY <1>1, <1>bare, <2>4, Unmoved DEF IInv, CallTypes, Set
  <2> QED
      BY <2>1, <2>3, <2>4
<1>2. CASE ItemEnds(c, x)
  \* How an item ends, by operation: the listing has one more page, or none.
  <2>1. /\ \/ NextItem(c)
           \/ \E how \in (Raised \cup Ends) \ {"none"} : End(c, how)
        /\ got' = [got EXCEPT ![c] = got'[c]]
        /\ got'[c] \in 0..Items
    <3>1. CASE PageEnds(c, x)
        BY <1>2, <1>types, <3>1 DEF PageEnds, Values, Raised, Ends, IInv, CallTypes
    <3>2. CASE SubmissionsEnd(c, x)
        BY <1>2, <1>types, <3>2 DEF SubmissionsEnd, Values, Raised, Ends, IInv, CallTypes
    <3>3. CASE XbrlEnds(c, x)
        BY <1>2, <1>types, <3>3 DEF XbrlEnds, Values, Raised, Ends, IInv, CallTypes
    <3>4. CASE ListingEnds(c, x)
      <4>1. got[c] = item[c] - 1
          BY <3>4, <1>inv DEF ListingEnds, CallInv, EvidenceSoFar
      <4>2. x = "payload" => item[c] <= Items
          BY <3>4 DEF ListingEnds, Founded, Values
      <4> QED
          BY <3>4, <4>1, <4>2, <1>types
          DEF ListingEnds, ListingFails, Values, Raised, Ends, Set, IInv, CallTypes
    <3> QED
        BY <1>2, <3>1, <3>2, <3>3, <3>4 DEF ItemEnds
  <2>only. /\ NextItem(c) => pc'[c] = "ready"
           /\ \A how : End(c, how) => pc'[c] = "idle" /\ outcome'[c] = how
      BY DEF NextItem, End, Set, IInv, CallTypes
  <2>2. CASE NextItem(c)
    <3>1. /\ kind[c] \in {"listing", "excerpt", "xbrl"}
          /\ item[c] <= Items
          /\ kind[c] \in {"listing", "excerpt"} => got'[c] = item[c]
          /\ kind[c] = "xbrl" => item[c] < Items /\ <<"not_found", item[c]>> \in seen
      <4>1. \A how : ~End(c, how)
          BY <2>only, <2>2
      <4>2. \/ ListingEnds(c, x) /\ x = "payload" /\ got' = Set(got, c, got[c] + 1)
            \/ XbrlEnds(c, x) /\ x = "absent" /\ item[c] < Items
          BY <1>2, <4>1 DEF ItemEnds, PageEnds, ListingEnds, ListingFails, SubmissionsEnd, XbrlEnds
      <4>3. CASE ListingEnds(c, x) /\ x = "payload" /\ got' = Set(got, c, got[c] + 1)
          BY <4>3, <1>inv, <1>types
          DEF ListingEnds, CallInv, EvidenceSoFar, Founded, Values, Set, IInv, CallTypes
      <4>4. CASE XbrlEnds(c, x) /\ x = "absent" /\ item[c] < Items
          BY <4>4, <1>types DEF XbrlEnds, Founded
      <4> QED
          BY <4>2, <4>3, <4>4
    <3>2. /\ CallTypes'
          /\ pc' = [pc EXCEPT ![c] = pc'[c]]
          /\ pc'[c] = "ready"
        BY <2>1, <2>2, <3>1, <1>bare, <1>types DEF NextItem, Set, IInv, CallTypes
    <3>3. bare'[c] = bare[c] \cup seen
        BY <1>bare, <1>running, <2>2 DEF NextItem, IInv, CallTypes
    <3>4. item'[c] = item[c] + 1 /\ attempt'[c] = 0 /\ sent'[c] = sent[c] /\ kind'[c] = kind[c]
          /\ outcome'[c] = "none"
        BY <2>2, <1>running DEF NextItem, Set, IInv, CallTypes
    <3>5. WithinBudget(c)'
        BY <3>2, <3>4, <1>kept, <1>quota, <1>types DEF WithinBudget, Quota
    <3>6. EvidenceSoFar(c)'
        BY <3>1, <3>3, <3>4, <1>inv, <1>types DEF CallInv, EvidenceSoFar
    <3>7. CallInv(c)'
        BY <3>2, <3>4, <3>5, <3>6, <1>running DEF CallInv, ClaimSupported
    <3>8. ASSUME NEW d \in Calls, d # c
          PROVE  CallInv(d)'
        BY <2>1, <2>2, <1>bare, <3>8, Unmoved DEF IInv, CallTypes, NextItem, Set
    <3> QED
        BY <3>2, <3>7, <3>8
  <2>3. ASSUME NEW how \in (Raised \cup Ends) \ {"none"}, End(c, how)
        PROVE  /\ CallTypes'
               /\ pc' = [pc EXCEPT ![c] = pc'[c]]
               /\ pc'[c] # "waiting"
               /\ \A d \in Calls : CallInv(d)'
    <3>1. /\ CallTypes'
          /\ pc' = [pc EXCEPT ![c] = pc'[c]]
          /\ pc'[c] = "idle"
        BY <2>1, <2>3, <1>bare DEF End, Set, IInv, CallTypes
    <3>2. /\ kind'[c] = "none"
          /\ outcome'[c] = how
          /\ sent'[c] = 0
          /\ how \in Claims => item'[c] = item[c] /\ bare'[c] = bare[c] \cup seen
        BY <2>3, <1>bare DEF End, Set, IInv, CallTypes
    <3>idle. /\ pc'[c] = "idle" <=> kind'[c] = "none"
             /\ pc'[c] # "idle" => outcome'[c] = "none"
             /\ WithinBudget(c)'
             /\ EvidenceSoFar(c)'
      <4>1. pc'[c] = "idle"
          BY <3>1
      <4> QED
          BY <4>1, <3>2 DEF WithinBudget, EvidenceSoFar
    <3>over. /\ ~NextItem(c)
             /\ \A h : End(c, h) => h = how
        BY <2>only, <2>3
    <3>4. CallInv(c)'
      <4>1. CASE how \notin Claims
          BY <3>idle, <3>2, <4>1 DEF CallInv, ClaimSupported, Claims
      <4>2. CASE how = "missing"
        <5>1. XbrlEnds(c, x) /\ x = "absent" /\ item[c] = Items
            BY <1>2, <3>over, <4>2
            DEF ItemEnds, PageEnds, ListingEnds, ListingFails, SubmissionsEnd, XbrlEnds,
                Values, Raised, KindsOf
        <5>2. \A i \in 1..Items : <<"not_found", i>> \in bare'[c]
          <6>1. kind[c] = "xbrl"
              BY <5>1 DEF XbrlEnds
          <6>2. \A i \in 1..Items : i < Items => <<"not_found", i>> \in bare[c]
              BY <5>1, <6>1, <1>inv DEF CallInv, EvidenceSoFar
          <6>3. <<"not_found", Items>> \in seen
              BY <5>1 DEF Founded
          <6>4. bare'[c] = bare[c] \cup seen
              BY <3>2, <4>2 DEF Claims
          <6>5. \A i \in 1..Items : i < Items \/ i = Items
              OBVIOUS
          <6> QED
              BY <6>2, <6>3, <6>4, <6>5, Zenon
        <5> QED
            BY <5>2, <3>idle, <3>2, <4>2 DEF CallInv, ClaimSupported
      <4>3. CASE how \in {"listing", "excerpt"}
        <5>1. /\ kind[c] \in {"listing", "excerpt"} /\ how = kind[c]
              /\ \/ /\ x = "payload" /\ got' = Set(got, c, got[c] + 1)
                    /\ AtMaxPages(c) \/ item[c] = Items
                 \/ x \in Values \ {"payload"} /\ got' = got
            BY <1>2, <3>over, <4>3
            DEF ItemEnds, PageEnds, ListingEnds, ListingFails, SubmissionsEnd, XbrlEnds,
                Values, Raised
        <5>2. got[c] = item[c] - 1
            BY <5>1, <1>inv DEF CallInv, EvidenceSoFar
        <5>3. \/ got'[c] = Items
              \/ how = "excerpt" /\ got'[c] = MaxPages
              \/ got'[c] = item[c] - 1 /\ \E answer \in Bare : <<answer, item[c]>> \in seen
            BY <5>1, <5>2, <1>types DEF Founded, Values, Set, IInv, CallTypes, AtMaxPages
        <5> QED
            BY <5>3, <3>idle, <3>2, <4>3 DEF CallInv, ClaimSupported, Claims
      <4> QED
          BY <4>1, <4>2, <4>3 DEF Claims
    <3>5. ASSUME NEW d \in Calls, d # c
          PROVE  CallInv(d)'
        BY <2>1, <2>3, <1>bare, <3>5, Unmoved DEF IInv, CallTypes, End, Set
    <3> QED
        BY <3>1, <3>4, <3>5
  <2> QED
      BY <2>1, <2>2, <2>3
<1> QED
    BY <1>1, <1>2 DEF Attempted

-----------------------------------------------------------------------------

LEMMA InitIInv == Init => IInv
<1> SUFFICES ASSUME Init
             PROVE  IInv
    OBVIOUS
<1> USE ClientAssumption DEF ClientAssumption
<1>1. CallTypes
    BY DEF Init, CallTypes, Seen
<1>2. SlotsOnlyInFlight
    BY DEF Init, Breaker!Init, SlotsOnlyInFlight
<1>3. ASSUME NEW c \in Calls
      PROVE  CallInv(c)
    BY <1>3 DEF Init, CallInv, WithinBudget, EvidenceSoFar, ClaimSupported
<1> QED
    BY <1>1, <1>2, <1>3 DEF IInv

\* A call that moves without taking or giving up a place in the breaker.
LEMMA SlotsUnmoved ==
    ASSUME IInv, NEW c \in Calls, pc' = [pc EXCEPT ![c] = pc'[c]],
           guarded' = guarded, pc[c] # "waiting", pc'[c] # "waiting"
    PROVE  SlotsOnlyInFlight'
BY DEF IInv, CallTypes, SlotsOnlyInFlight

\* A call whose request is answered, lost or cancelled leaves the breaker.
LEMMA SlotLeft ==
    ASSUME IInv, NEW c \in Calls, pc' = [pc EXCEPT ![c] = pc'[c]],
           guarded' = guarded \ {c}, pc'[c] # "waiting"
    PROVE  SlotsOnlyInFlight'
BY DEF IInv, CallTypes, SlotsOnlyInFlight

\* Every step preserves the inductive invariant, one step per action.
LEMMA StepIInv == IInv /\ [Next]_vars => IInv'
<1> SUFFICES ASSUME IInv, [Next]_vars
             PROVE  IInv'
    OBVIOUS
<1> USE ClientAssumption DEF ClientAssumption
<1>0. CallTypes /\ \A c \in Calls : CallInv(c)
    BY DEF IInv
<1>quota. \A c \in Calls : /\ Quota(item[c]) \in Nat
                           /\ item[c] \in Nat
                           /\ Quota(1) = Budget + 1
    BY <1>0, QuotaGrows DEF CallTypes
<1>1. ASSUME NEW c \in Calls, Call(c)
      PROVE  IInv'
  <2>1. CallTypes' /\ pc' = [pc EXCEPT ![c] = "ready"] /\ guarded' = guarded
      BY <1>0, <1>1 DEF Call, CallTypes, KindsOf, Set, Seen, breakerVars
  <2>2. SlotsOnlyInFlight'
      BY <1>0, <1>1, <2>1, SlotsUnmoved DEF Call, CallTypes
  <2>3. CallInv(c)'
      BY <1>0, <1>1, <2>1, <1>quota
      DEF Call, CallTypes, KindsOf, Set, CallInv, WithinBudget, EvidenceSoFar, ClaimSupported, Quota
  <2>4. ASSUME NEW d \in Calls, d # c
        PROVE  CallInv(d)'
      BY <1>0, <1>1, <2>4, Unmoved DEF Call, CallTypes, Set
  <2> QED
      BY <2>1, <2>2, <2>3, <2>4 DEF IInv
<1>2. ASSUME NEW c \in Calls, Send(c)
      PROVE  IInv'
  <2>1. CallTypes' /\ pc' = [pc EXCEPT ![c] = "waiting"]
      BY <1>0, <1>2 DEF Send, CallTypes, Set
  <2>2. guarded' = guarded \cup {c}
      BY <1>2 DEF Send, Breaker!Enter, Breaker!AdmitClosed, Breaker!StartProbing, Breaker!AdmitProbe
  <2>3. SlotsOnlyInFlight'
      BY <2>1, <2>2 DEF IInv, CallTypes, SlotsOnlyInFlight
  <2>4. CallInv(c)'
      BY <1>0, <1>2, <2>1, <1>quota
      DEF Send, CallTypes, Set, CallInv, WithinBudget, EvidenceSoFar, ClaimSupported, Quota
  <2>5. ASSUME NEW d \in Calls, d # c
        PROVE  CallInv(d)'
      BY <1>0, <1>2, <2>5, Unmoved DEF Send, CallTypes, Set
  <2> QED
      BY <2>1, <2>3, <2>4, <2>5 DEF IInv
<1>3. ASSUME NEW c \in Calls, Refused(c)
      PROVE  IInv'
  <2>1. /\ Refusal \in Raised
        /\ Founded(c, Refusal, {})
        /\ {} \in Seen
      BY DEF Refusal, Raised, Founded, Values, Seen
  <2>2. guarded' = guarded
      BY <1>3 DEF Refused, Breaker!Reject, Breaker!vars
  <2> QED
      BY <1>3, <2>1, <2>2, AttemptEnds, SlotsUnmoved DEF Refused, IInv
<1>4. ASSUME NEW c \in Calls, Lost(c)
      PROVE  IInv'
  <2>1. /\ TransportError \in Raised
        /\ Founded(c, TransportError, {})
        /\ {} \in Seen
      BY DEF TransportError, Raised, Founded, Values, Seen
  <2>2. guarded' = guarded \ {c}
      BY <1>4 DEF Lost, Breaker!Fail, Breaker!Leave
  <2>3. sent[c] + Budget <= Quota(item[c]) + attempt[c]
      BY <1>0, <1>4 DEF Lost, CallInv, WithinBudget
  <2> QED
      BY <1>4, <2>1, <2>2, <2>3, AttemptEnds, SlotLeft DEF Lost, IInv
<1>5. ASSUME NEW c \in Calls, Respond(c)
      PROVE  IInv'
  <2>1. PICK answer \in AnswersTo(provider) :
            /\ Attempted(c, Meaning(c, answer))
            /\ Note(c, ({answer} \cap Bare) \X {item[c]})
      BY <1>5 DEF Respond
  <2> DEFINE x    == Meaning(c, answer)
             seen == ({answer} \cap Bare) \X {item[c]}
  <2>2. item[c] \in 1..(Items + 1) /\ provider \in {"marketstack", "edgar"}
        /\ kind[c] \in KindsOf(provider)
      BY <1>0, <1>5 DEF Respond, CallTypes, CallInv
  <2>3. seen \in Seen
      BY <2>2 DEF Seen
  <2>4. x \in Values \cup Raised /\ Founded(c, x, seen)
    <3>1. CASE provider = "edgar"
      <4>1. x = Edgar(c, answer) /\ kind[c] \notin {"listing", "excerpt"}
          BY <2>2, <3>1 DEF Meaning, KindsOf
      <4>2. CASE answer \in Bare
        <5>1. <<answer, item[c]>> \in seen /\ answer \in {"not_modified", "not_found"}
            BY <3>1, <4>2 DEF AnswersTo, Answers, Bare
        <5> QED
            BY <4>1, <4>2, <5>1 DEF Edgar, Values, Raised, Founded
      <4>3. CASE answer \notin Bare
        <5>1. x \in {"payload", "mapping", "runtime", "ingestion"}
            BY <4>1, <4>3 DEF Edgar, AnswersTo, Answers, Bare
        <5> QED
            BY <4>1, <5>1 DEF Values, Raised, Founded
      <4> QED
          BY <4>2, <4>3
    <3>2. CASE provider = "marketstack"
      <4>1. x = Marketstack(c, answer) /\ kind[c] # "xbrl" /\ kind[c] # "submissions"
          BY <2>2, <3>2 DEF Meaning, KindsOf
      <4>2. CASE answer = "ok"
          BY <2>2, <4>1, <4>2 DEF Marketstack, Values, Founded
      <4>3. CASE answer \in Bare
        <5>1. <<answer, item[c]>> \in seen /\ answer # "not_found"
            BY <3>2, <4>3 DEF AnswersTo
        <5>2. x \in {"no_rows", "no_object", "empty"}
            BY <4>1, <4>3, <5>1 DEF Marketstack, Bare
        <5> QED
            BY <4>3, <5>1, <5>2 DEF Values, Founded
      <4>4. CASE answer \notin Bare \cup {"ok"}
        <5>1. x \in {"invalid", "bad_request", "quota", "rate_limited", "unavailable"}
            BY <3>2, <4>1, <4>4 DEF Marketstack, AnswersTo, Answers, Bare
        <5> QED
            BY <5>1 DEF Values, Raised, Founded
      <4> QED
          BY <4>2, <4>3, <4>4
    <3> QED
        BY <2>2, <3>1, <3>2
  <2>5. guarded' = guarded \ {c}
      BY <1>5 DEF Respond, Breaker!Succeed, Breaker!Leave
  <2>6. sent[c] + Budget <= Quota(item[c]) + attempt[c]
      BY <1>0, <1>5 DEF Respond, CallInv, WithinBudget
  <2> HIDE DEF x, seen
  <2>7. Attempted(c, x) /\ Note(c, seen)
      BY <2>1 DEF x, seen
  <2> QED
      BY <1>5, <2>3, <2>4, <2>5, <2>6, <2>7, AttemptEnds, SlotLeft DEF Respond, IInv
<1>6. ASSUME NEW c \in Calls, RespondLater(c)
      PROVE  IInv'
  <2>1. CallTypes' /\ pc' = [pc EXCEPT ![c] = "resting"] /\ pc'[c] = "resting"
      BY <1>0, <1>6 DEF RespondLater, CallTypes, Set
  <2>2. SlotsOnlyInFlight'
      BY <1>6, <2>1, SlotLeft DEF RespondLater, Breaker!Succeed, Breaker!Leave
  <2>3. ASSUME NEW d \in Calls
        PROVE  CallInv(d)'
      BY <1>0, <1>6, <2>1 DEF RespondLater, Set, CallTypes, CallInv, WithinBudget, EvidenceSoFar, ClaimSupported, Quota
  <2> QED
      BY <2>1, <2>2, <2>3 DEF IInv
<1>7. ASSUME NEW c \in Calls, Rested(c)
      PROVE  IInv'
  <2>1. PICK x \in {"rate_limited", "unavailable"} : Attempted(c, x)
      BY <1>7 DEF Rested
  <2>2. /\ x \in Raised
        /\ Founded(c, x, {})
        /\ {} \in Seen
      BY DEF Raised, Founded, Values, Seen
  <2>3. guarded' = guarded /\ pc[c] = "resting" /\ provider' = provider /\ Note(c, {})
      BY <1>7 DEF Rested, breakerVars
  <2>4. sent[c] + Budget <= Quota(item[c]) + attempt[c]
      BY <1>0, <2>3 DEF CallInv, WithinBudget
  <2> QED
      BY <2>1, <2>2, <2>3, <2>4, AttemptEnds, SlotsUnmoved DEF IInv
<1>8. ASSUME NEW c \in Calls, Wake(c)
      PROVE  IInv'
  <2>0. attempt[c] < Budget
      BY <1>0, <1>8 DEF Wake, CallInv, WithinBudget
  <2>1. CallTypes' /\ pc' = [pc EXCEPT ![c] = "ready"] /\ pc'[c] = "ready" /\ guarded' = guarded
      BY <1>0, <1>8, <2>0 DEF Wake, CallTypes, Set, breakerVars
  <2>2. SlotsOnlyInFlight'
      BY <1>8, <2>1, SlotsUnmoved DEF Wake
  <2>3. CallInv(c)'
    <3>1. /\ attempt'[c] = attempt[c] + 1
          /\ <<kind', item', got', outcome', sent', bare'>> = <<kind, item, got, outcome, sent, bare>>
        BY <1>0, <1>8 DEF Wake, CallTypes, Set
    <3>2. WithinBudget(c)'
        BY <1>0, <1>8, <2>1, <3>1, <1>quota DEF Wake, CallTypes, CallInv, WithinBudget, Quota
    <3> QED
        BY <1>0, <1>8, <2>1, <3>1, <3>2 DEF Wake, CallInv, EvidenceSoFar, ClaimSupported
  <2>4. ASSUME NEW d \in Calls, d # c
        PROVE  CallInv(d)'
      BY <1>0, <1>8, <2>4, Unmoved DEF Wake, CallTypes, Set
  <2> QED
      BY <2>1, <2>2, <2>3, <2>4 DEF IInv
<1>9. ASSUME NEW c \in Calls, Cancelled(c)
      PROVE  IInv'
  <2>1. /\ CallTypes'
        /\ pc' = [pc EXCEPT ![c] = "idle"] /\ pc'[c] = "idle"
        /\ kind'[c] = "none" /\ outcome'[c] = "cancelled" /\ sent'[c] = 0
      BY <1>0, <1>9 DEF Cancelled, End, Note, Set, Claims, CallTypes, Ends, Seen
  <2>2. SlotsOnlyInFlight'
    <3>1. CASE pc[c] = "waiting" /\ Breaker!Cancel(c)
        BY <2>1, <3>1, SlotLeft DEF Breaker!Cancel, Breaker!Leave
    <3>2. CASE pc[c] \in {"resting", "backoff"} /\ UNCHANGED breakerVars
        BY <2>1, <3>2, SlotsUnmoved DEF breakerVars
    <3> QED
        BY <1>9, <3>1, <3>2 DEF Cancelled
  <2>3. CallInv(c)'
      BY <2>1 DEF CallInv, WithinBudget, EvidenceSoFar, ClaimSupported
  <2>4. ASSUME NEW d \in Calls, d # c
        PROVE  CallInv(d)'
      BY <1>0, <1>9, <2>4, Unmoved DEF Cancelled, End, Note, CallTypes, Set, Claims
  <2> QED
      BY <2>1, <2>2, <2>3, <2>4 DEF IInv
<1>10. CASE UNCHANGED <<guarded, provider, callVars>>
  <2>1. CallTypes' /\ SlotsOnlyInFlight'
      BY <1>10 DEF IInv, callVars, CallTypes, SlotsOnlyInFlight
  <2>2. ASSUME NEW d \in Calls
        PROVE  CallInv(d)'
      BY <1>0, <1>10, Unmoved DEF callVars
  <2> QED
      BY <2>1, <2>2 DEF IInv
<1>11. CASE Environment
    BY <1>10, <1>11 DEF Environment, Breaker!Tick, Breaker!UpstreamChanges
<1>12. CASE UNCHANGED vars
    BY <1>10, <1>12 DEF vars, breakerVars
<1> QED
    BY <1>1, <1>2, <1>3, <1>4, <1>5, <1>6, <1>7, <1>8, <1>9, <1>11, <1>12
    DEF Next, Advance, Answered

LEMMA SpecIInv == Spec => []IInv
    BY InitIInv, StepIInv, PTL DEF Spec

-----------------------------------------------------------------------------
(* Theorems.                                                               *)

\* No sleep, retry or error path keeps a place in the breaker.
THEOREM SlotsFollowRequests == Spec => []SlotsOnlyInFlight
<1>1. IInv => SlotsOnlyInFlight
    BY DEF IInv
<1> QED
    BY <1>1, SpecIInv, PTL

\* Outbound retries are bounded: a call sends at most Budget + 1 requests per
\* item, whatever the answers, refusals, timeouts and cancellations.
THEOREM RetriesAreBounded == Spec => []BudgetBounds
<1>1. IInv => BudgetBounds
  <2> SUFFICES ASSUME IInv, NEW c \in Calls
               PROVE  sent[c] <= Quota(item[c])
      BY DEF BudgetBounds, Quota
  <2>1. /\ CallInv(c)
        /\ pc[c] \in {"idle", "ready", "waiting", "resting", "backoff"}
        /\ item[c] \in Nat /\ sent[c] \in Nat /\ attempt[c] \in 0..Budget
      BY ClientAssumption DEF ClientAssumption, IInv, CallTypes
  <2>2. Quota(item[c]) \in Nat
      BY <2>1, QuotaGrows
  <2> QED
      BY <2>1, <2>2, ClientAssumption DEF ClientAssumption, CallInv, WithinBudget
<1> QED
    BY <1>1, SpecIInv, PTL

\* A missing document and the end of a listing are only reported with an answer for
\* every item: an outage, a refusal or a rate limit is never taken for one.
THEOREM ClaimsAreFounded == Spec => []ClaimsHaveEvidence
<1>1. IInv => ClaimsHaveEvidence
    BY DEF IInv, CallInv, ClaimSupported, ClaimsHaveEvidence
<1> QED
    BY <1>1, SpecIInv, PTL
=============================================================================
