---------------------- MODULE RequestCorrelatorProofs ----------------------
(***************************************************************************)
(* Proofs about RequestCorrelator, for every set of links and services,    *)
(* every timing, every deque and history limit and every number of         *)
(* requests and responses.                                                 *)
(*                                                                         *)
(* The inductive invariant is Inv.  CompletedPairsSound and                *)
(* AnsweredOldestFirst are not inductive: that the request a response      *)
(* takes is older than those left behind needs Numbered (arrival numbers   *)
(* are distinct and already given out), and counting needs the set of      *)
(* pending requests to be finite.                                          *)
(***************************************************************************)
EXTENDS RequestCorrelator, FiniteSetTheorems, SequenceTheorems,
        WellFoundedInduction, TLAPS

\* Arrival numbers identify the pending requests and have been given out.
Numbered ==
  /\ IsFiniteSet(pending)
  /\ \A p \in pending : p.arrival \in 1 .. arrivals
  /\ \A p, q \in pending : p.arrival = q.arrival => p = q

Inv == TypeOK /\ Numbered /\ CompletedPairsSound /\ AnsweredOldestFirst
-----------------------------------------------------------------------------
(* Lemmas about the operators.                                             *)

\* A non-empty set of pending requests has an oldest one, and Oldest is it.
LEMMA OldestIsOldest ==
  ASSUME NEW S \in SUBSET PendingRequest, S # {}
  PROVE  /\ Oldest(S) \in S
         /\ \A q \in S : Oldest(S).arrival <= q.arrival
<1> DEFINE A == {p.arrival : p \in S}
<1>1. A \subseteq Nat /\ A # {}
  BY DEF PendingRequest
<1> DEFINE R == {ss \in Nat \X Nat : ss[1] < ss[2]}
<1>2. PICK n \in A : \A m \in A : ~ (<<m, n>> \in R)
  <2>1. IsWellFoundedOn(R, Nat)
    BY NatLessThanWellFounded, Zenon DEF OpToRel
  <2> HIDE DEF R, A
  <2> QED
    BY <1>1, <2>1, WFMin, Zenon
<1>3. ASSUME NEW m \in A PROVE n <= m
  <2>1. n \in Nat /\ m \in Nat
    BY <1>1
  <2>2. ~ (<<m, n>> \in R)
    BY <1>2
  <2> QED
    BY <2>1, <2>2
<1>4. \E p \in S : \A q \in S : p.arrival <= q.arrival
  BY <1>2, <1>3
<1> QED
  BY <1>4 DEF Oldest

\* The requests that one call takes out of a deque are at most one.
LEMMA EvictedType ==
  ASSUME TypeOK, NEW link \in Link
  PROVE  Cardinality(Evicted(link)) \in {0, 1}
BY FS_EmptySet, FS_Singleton DEF Evicted

\* So are the ones that the erase loop takes out.
LEMMA ErasedType ==
  ASSUME TypeOK, NEW link \in Link, NEW service \in Service
  PROVE  Cardinality(Erased(link, service)) \in {0, 1}
BY FS_EmptySet, FS_Singleton DEF Erased

\* Looking a response up under the reversed key undoes the reversal.
LEMMA ResponseKeyReverses ==
  ASSUME NEW response_link \in ResponseLink
  PROVE  /\ ResponseKey(response_link) \in Link
         /\ response_link = Reversed(ResponseKey(response_link))
<1>1. PICK link \in Link : response_link = Reversed(link)
  BY DEF ResponseLink
<1>2. link = <<link[1], link[2]>>
  BY CorrelatorAssumption
<1>3. ResponseKey(response_link) = link
  BY <1>1, <1>2 DEF Reversed, ResponseKey
<1> QED
  BY <1>1, <1>3

\* A response is given a pending request of its link, and the oldest one of its
\* service when there is one.
LEMMA FoundIsPending ==
  ASSUME TypeOK, NEW link \in Link, NEW service \in Service, Deque(link) # {}
  PROVE  LET found == find_pending_for_response(link, service)
         IN  /\ found \in pending
             /\ found.link = link
             /\ ExactMatches(link, service) # {} =>
                  /\ found.service = service
                  /\ \A q \in ExactMatches(link, service) : found.arrival <= q.arrival
             /\ ExactMatches(link, service) = {} => found.service # service
<1>1. /\ Deque(link) \in SUBSET PendingRequest
      /\ ExactMatches(link, service) \in SUBSET PendingRequest
  BY DEF TypeOK, Deque, ExactMatches
<1>2. CASE ExactMatches(link, service) # {}
  <2>1. find_pending_for_response(link, service) = Oldest(ExactMatches(link, service))
    BY <1>2 DEF find_pending_for_response
  <2> QED
    BY <1>1, <1>2, <2>1, OldestIsOldest DEF ExactMatches, Deque
<1>3. CASE ExactMatches(link, service) = {}
  <2>1. find_pending_for_response(link, service) = Oldest(Deque(link))
    BY <1>3 DEF find_pending_for_response
  <2> QED
    BY <1>1, <1>3, <2>1, OldestIsOldest DEF ExactMatches, Deque
<1> QED
  BY <1>2, <1>3

\* Remembering a pair appends it, and drops the oldest pair of a full history.
LEMMA RememberAppends ==
  ASSUME TypeOK, NEW pair \in RequestResponsePair
  PROVE  /\ Remember(pair) \in Seq(RequestResponsePair)
         /\ \E d \in {0, 1} :
              /\ DOMAIN Remember(pair) = 1 .. Len(completed) + 1 - d
              /\ \A i \in DOMAIN Remember(pair) :
                   /\ i + d = Len(completed) + 1 => Remember(pair)[i] = pair
                   /\ i + d # Len(completed) + 1 =>
                        /\ i + d \in DOMAIN completed
                        /\ Remember(pair)[i] = completed[i + d]
<1> DEFINE longer == Append(completed, pair)
<1>1. /\ completed \in Seq(RequestResponsePair)
      /\ Len(completed) \in Nat
      /\ DOMAIN completed = 1 .. Len(completed)
  BY LenProperties DEF TypeOK
<1>2. /\ longer \in Seq(RequestResponsePair)
      /\ longer # <<>>
      /\ Len(longer) = Len(completed) + 1
      /\ \A i \in 1 .. Len(completed) : longer[i] = completed[i]
      /\ longer[Len(completed) + 1] = pair
      /\ DOMAIN longer = 1 .. Len(longer)
  BY <1>1, AppendProperties, LenProperties
<1> HIDE DEF longer
<1>3. CASE Len(longer) > MaxCompletedHistory
  <2>1. Remember(pair) = Tail(longer)
    BY <1>3 DEF Remember, longer
  <2>2. /\ Tail(longer) \in Seq(RequestResponsePair)
        /\ Len(Tail(longer)) = Len(longer) - 1
        /\ \A i \in 1 .. Len(Tail(longer)) : Tail(longer)[i] = longer[i + 1]
    BY <1>2, HeadTailProperties
  <2>3. DOMAIN Tail(longer) = 1 .. Len(completed)
    BY <1>1, <1>2, <2>2, LenProperties
  <2>4. \A i \in 1 .. Len(completed) :
          /\ i + 1 = Len(completed) + 1 => Tail(longer)[i] = pair
          /\ i + 1 # Len(completed) + 1 =>
               i + 1 \in DOMAIN completed /\ Tail(longer)[i] = completed[i + 1]
    BY <1>1, <1>2, <2>2
  <2>5. 1 .. Len(completed) = 1 .. Len(completed) + 1 - 1
    BY <1>1
  <2> QED
    BY <2>1, <2>2, <2>3, <2>4, <2>5
<1>4. CASE ~ (Len(longer) > MaxCompletedHistory)
  <2>1. Remember(pair) = longer
    BY <1>4 DEF Remember, longer
  <2>2. \A i \in 1 .. Len(completed) + 1 :
          /\ i + 0 = Len(completed) + 1 => longer[i] = pair
          /\ i + 0 # Len(completed) + 1 =>
               i + 0 \in DOMAIN completed /\ longer[i] = completed[i + 0]
    BY <1>1, <1>2
  <2>3. DOMAIN longer = 1 .. Len(completed) + 1 - 0
    BY <1>1, <1>2
  <2> QED
    BY <1>1, <1>2, <2>1, <2>2, <2>3
<1> QED
  BY <1>3, <1>4

\* A step that adds nothing to the history and no new pending request (it may
\* remove some, make them older or count an answer) keeps what the history says.
LEMMA HistoryKept ==
  ASSUME Inv, completed' = completed, arrivals' = arrivals,
         \A p \in pending' : \E q \in pending :
           /\ p.link = q.link /\ p.service = q.service /\ p.arrival = q.arrival
  PROVE  CompletedPairsSound' /\ AnsweredOldestFirst'
<1>1. CompletedPairsSound'
  BY DEF Inv, CompletedPairsSound
<1>2. AnsweredOldestFirst'
  BY DEF Inv, AnsweredOldestFirst, Exact
<1> QED
  BY <1>1, <1>2

\* The pending set after a Tick: nothing but ages changes.
LEMMA TickKeepsIdentity ==
  ASSUME TypeOK, Numbered, Tick
  PROVE  /\ pending' \in SUBSET PendingRequest
         /\ Numbered'
         /\ Cardinality(pending') = Cardinality(pending)
         /\ \A p \in pending' : \E q \in pending :
              /\ p.link = q.link /\ p.service = q.service /\ p.arrival = q.arrival
<1> DEFINE f == [p \in pending |-> Older(p)]
<1>1. \A p \in pending : /\ Older(p) \in PendingRequest
                         /\ Older(p).arrival = p.arrival
                         /\ Older(p).link = p.link
                         /\ Older(p).service = p.service
  <2> SUFFICES ASSUME NEW p \in pending
               PROVE  /\ Older(p) \in PendingRequest
                      /\ Older(p).arrival = p.arrival
                      /\ Older(p).link = p.link
                      /\ Older(p).service = p.service
    OBVIOUS
  <2> DEFINE age == IF p.age < MaxAge THEN p.age + 1 ELSE p.age
  <2>1. p \in PendingRequest
    BY DEF TypeOK
  <2>2. age \in 0 .. MaxAge
    BY <2>1, CorrelatorAssumption DEF PendingRequest
  <2>3. Older(p) = [p EXCEPT !.age = age]
    BY DEF Older
  <2> HIDE DEF age
  <2> QED
    BY <2>1, <2>2, <2>3 DEF PendingRequest
<1>2. /\ pending' = {Older(p) : p \in pending}
      /\ arrivals' = arrivals
  BY DEF Tick
<1>3. f \in Surjection(pending, pending')
  BY <1>2 DEF Surjection
<1>4. f \in Injection(pending, pending')
  BY <1>1, <1>2 DEF Injection, IsInjective, Numbered
<1>5. IsFiniteSet(pending') /\ Cardinality(pending') = Cardinality(pending)
  BY <1>3, <1>4, FS_Surjection DEF Numbered
<1>6. Numbered'
  BY <1>1, <1>2, <1>5 DEF Numbered
<1> QED
  BY <1>1, <1>2, <1>5, <1>6
-----------------------------------------------------------------------------
(* The steps that add a request or a pair preserve Inv.                    *)

\* record_request: the new request is younger than everything there is.
LEMMA RecordRequestStep ==
  ASSUME Inv, NEW link \in Link, NEW service \in Service, NEW delay \in Delays,
         record_request(link, service, delay)
  PROVE  Inv'
<1> DEFINE request == [link |-> link, service |-> service, arrival |-> arrivals + 1,
                       age |-> delay, pending_count |-> 0]
<1>1. /\ arrivals' = arrivals + 1
      /\ pending' = (pending \ Evicted(link)) \cup {request}
      /\ stats' = [stats EXCEPT !.requests_recorded = @ + 1]
      /\ untracked' = [untracked EXCEPT !.dropped = @ + Cardinality(Evicted(link))]
      /\ UNCHANGED <<completed, timing, received>>
  BY DEF record_request
<1>2. /\ request \in PendingRequest
      /\ request.link = link /\ request.service = service
      /\ request.arrival = arrivals + 1
  BY CorrelatorAssumption DEF PendingRequest, Inv, TypeOK
<1> HIDE DEF request
<1>3. TypeOK'
  <2>1. stats' \in Statistics
    <3>1. stats \in Statistics /\ stats' = [stats EXCEPT !.requests_recorded = @ + 1]
      BY <1>1 DEF Inv, TypeOK
    <3> QED
      BY <3>1 DEF Statistics
  <2>2. untracked' \in Untracked
    BY <1>1, EvictedType DEF Inv, TypeOK, Untracked
  <2> QED
    BY <1>1, <1>2, <2>1, <2>2 DEF Inv, TypeOK
<1>4. Numbered'
  <2>1. IsFiniteSet(pending')
    BY <1>1, FS_Difference, FS_AddElement DEF Inv, Numbered
  <2>2. \A p \in pending' : p \in pending \/ p = request
    BY <1>1
  <2>3. \A p \in pending : p.arrival \in 1 .. arrivals
    BY DEF Inv, Numbered
  <2>4. \A p, q \in pending : p.arrival = q.arrival => p = q
    BY DEF Inv, Numbered
  <2>5. arrivals \in Nat
    BY DEF Inv, TypeOK
  <2> QED
    BY <1>1, <1>2, <2>1, <2>2, <2>3, <2>4, <2>5 DEF Numbered
<1>5. CompletedPairsSound'
  BY <1>1 DEF Inv, TypeOK, CompletedPairsSound
<1>6. AnsweredOldestFirst'
  <2>1. \A p \in pending' : p \in pending \/ p = request
    BY <1>1
  <2>2. \A i \in DOMAIN completed : completed[i].arrival < arrivals + 1
    BY DEF Inv, TypeOK, CompletedPairsSound
  <2> QED
    BY <1>1, <1>2, <2>1, <2>2 DEF Inv, AnsweredOldestFirst, Exact
<1> QED
  BY <1>3, <1>4, <1>5, <1>6 DEF Inv

\* process_response, ResponsePending: the request keeps its place.
LEMMA ResponsePendingStep ==
  ASSUME Inv, NEW response_link \in ResponseLink, NEW service \in Service,
         ResponsePending(response_link, service)
  PROVE  Inv' /\ Cardinality(pending') = Cardinality(pending)
<1> DEFINE link == ResponseKey(response_link)
           found == find_pending_for_response(link, service)
           answered == [found EXCEPT !.pending_count = @ + 1]
<1>1. /\ Deque(link) # {}
      /\ pending' = (pending \ {found}) \cup {answered}
      /\ stats' = [stats EXCEPT !.response_pending_count = @ + 1]
      /\ received' = received + 1
      /\ UNCHANGED <<completed, timing, arrivals, untracked>>
  BY DEF ResponsePending
<1>2. found \in pending
  BY <1>1, ResponseKeyReverses, FoundIsPending DEF Inv
<1>3. /\ answered \in PendingRequest
      /\ answered.link = found.link /\ answered.service = found.service
      /\ answered.arrival = found.arrival
  BY <1>2 DEF Inv, TypeOK, PendingRequest
<1> HIDE DEF link, found, answered
<1>4. TypeOK'
  <2>1. stats' \in Statistics
    <3>1. stats \in Statistics /\ stats' = [stats EXCEPT !.response_pending_count = @ + 1]
      BY <1>1 DEF Inv, TypeOK
    <3> QED
      BY <3>1 DEF Statistics
  <2> QED
    BY <1>1, <1>3, <2>1 DEF Inv, TypeOK
<1>5. \A p \in pending' : \E q \in pending :
        /\ p.link = q.link /\ p.service = q.service /\ p.arrival = q.arrival
  BY <1>1, <1>2, <1>3
<1>6. /\ \A p \in pending' : p \in pending \ {found} \/ p = answered
      /\ answered \notin pending \ {found}
  BY <1>1, <1>2, <1>3 DEF Inv, Numbered
<1>7. /\ IsFiniteSet(pending')
      /\ Cardinality(pending') = Cardinality(pending)
  <2>1. Cardinality(pending) \in Nat
    BY FS_CardinalityType DEF Inv, Numbered
  <2>2. /\ IsFiniteSet(pending \ {found})
        /\ Cardinality(pending \ {found}) = Cardinality(pending) - 1
    BY <1>2, FS_RemoveElement DEF Inv, Numbered
  <2>3. /\ IsFiniteSet((pending \ {found}) \cup {answered})
        /\ Cardinality((pending \ {found}) \cup {answered})
             = Cardinality(pending \ {found}) + 1
    BY <1>6, <2>2, FS_AddElement
  <2> QED
    BY <1>1, <2>1, <2>2, <2>3
<1>8. Numbered'
  BY <1>1, <1>2, <1>3, <1>6, <1>7 DEF Inv, Numbered
<1> QED
  BY <1>1, <1>4, <1>5, <1>7, <1>8, HistoryKept DEF Inv

\* The loop after a match removes the matched request, or nothing at all after a
\* fallback match.
LEMMA ErasedIsFound ==
  ASSUME TypeOK, NEW link \in Link, NEW service \in Service, Deque(link) # {}
  PROVE  LET found == find_pending_for_response(link, service)
         IN  /\ found.service = service => Erased(link, service) = {found}
             /\ found.service # service => Erased(link, service) = {}
<1>1. CASE ExactMatches(link, service) # {}
  BY <1>1, FoundIsPending DEF Erased, find_pending_for_response
<1>2. CASE ExactMatches(link, service) = {}
  BY <1>2, FoundIsPending DEF Erased
<1> QED
  BY <1>1, <1>2

\* process_response, final: the request taken is the oldest of its service.
LEMMA FinalResponseStep ==
  ASSUME Inv, NEW response_link \in ResponseLink, NEW service \in Service,
         NEW verdict \in Verdict, FinalResponse(response_link, service, verdict)
  PROVE  Inv'
<1> DEFINE link == ResponseKey(response_link)
           found == find_pending_for_response(link, service)
           pair == [link |-> found.link, service |-> found.service,
                    arrival |-> found.arrival, response_link |-> response_link,
                    response_service |-> service, verdict |-> verdict,
                    pending_count |-> found.pending_count]
<1>1. /\ Deque(link) # {}
      /\ received' = received + 1
      /\ pending' = pending \ Erased(link, service)
      /\ untracked' = [untracked EXCEPT
                         !.kept = @ + 1 - Cardinality(Erased(link, service))]
      /\ completed' = Remember(pair)
      /\ UNCHANGED <<timing, arrivals>>
  BY DEF FinalResponse
<1>2. stats' \in Statistics
  <2> DEFINE matched == [stats EXCEPT !.responses_matched = @ + 1]
  <2>1. stats \in Statistics
    BY DEF Inv, TypeOK
  <2>2. matched \in Statistics
    BY <2>1 DEF Statistics
  <2>3. \/ stats' = [matched EXCEPT !.positive_responses = @ + 1]
        \/ stats' = [matched EXCEPT !.negative_responses = @ + 1]
    <3>1. CASE stats' = [stats EXCEPT !.responses_matched = @ + 1,
                                      !.positive_responses = @ + 1]
      BY <2>1, <3>1 DEF Statistics
    <3>2. CASE stats' = [stats EXCEPT !.responses_matched = @ + 1,
                                      !.negative_responses = @ + 1]
      BY <2>1, <3>2 DEF Statistics
    <3> QED
      BY <3>1, <3>2 DEF FinalResponse
  <2> HIDE DEF matched
  <2>4. ASSUME NEW m \in Statistics
        PROVE  /\ [m EXCEPT !.positive_responses = @ + 1] \in Statistics
               /\ [m EXCEPT !.negative_responses = @ + 1] \in Statistics
    BY DEF Statistics
  <2> QED
    BY <2>2, <2>3, <2>4
<1>3. link \in Link /\ response_link = Reversed(link)
  BY ResponseKeyReverses
<1>4. /\ found \in pending /\ found.link = link
      /\ found.service = service =>
           \A q \in pending : q.link = link /\ q.service = service
                                => found.arrival <= q.arrival
  BY <1>1, <1>3, FoundIsPending DEF Inv, ExactMatches, Deque
<1>5. /\ found.service = service => pending' = pending \ {found}
      /\ found.service # service => pending' = pending
      /\ Cardinality(Erased(link, service)) \in {0, 1}
  BY <1>1, <1>3, ErasedIsFound, ErasedType DEF Inv
<1>6. found \in PendingRequest
  BY <1>4 DEF Inv, TypeOK
<1> HIDE DEF link, found
<1>7. /\ pair \in RequestResponsePair
      /\ pair.link = link /\ pair.service = found.service
      /\ pair.arrival = found.arrival /\ pair.response_link = response_link
      /\ pair.response_service = service
  BY <1>3, <1>4, <1>6 DEF PendingRequest, RequestResponsePair
<1> HIDE DEF pair
<1>8. PICK d \in {0, 1} :
        /\ DOMAIN completed' = 1 .. Len(completed) + 1 - d
        /\ \A i \in DOMAIN completed' :
             /\ i + d = Len(completed) + 1 => completed'[i] = pair
             /\ i + d # Len(completed) + 1 =>
                  /\ i + d \in DOMAIN completed
                  /\ completed'[i] = completed[i + d]
  BY <1>1, <1>7, RememberAppends DEF Inv
<1>9. Len(completed) \in Nat
  BY LenProperties DEF Inv, TypeOK
<1>10. TypeOK'
  <2>1. completed' \in Seq(RequestResponsePair)
    BY <1>1, <1>7, RememberAppends DEF Inv
  <2>2. untracked' \in Untracked
    BY <1>1, <1>5 DEF Inv, TypeOK, Untracked
  <2> QED
    BY <1>1, <1>2, <2>1, <2>2 DEF Inv, TypeOK
<1>11. pending' \subseteq pending
  BY <1>1
<1>12. Numbered'
  <2>1. IsFiniteSet(pending')
    BY <1>1, FS_Difference DEF Inv, Numbered
  <2> QED
    BY <1>1, <1>11, <2>1 DEF Inv, Numbered
<1>13. CompletedPairsSound'
  <2> SUFFICES ASSUME NEW i \in DOMAIN completed'
               PROVE  /\ completed'[i].response_link = Reversed(completed'[i].link)
                      /\ completed'[i].arrival \in 1 .. arrivals'
    BY DEF CompletedPairsSound
  <2>1. CASE i + d = Len(completed) + 1
    <3>1. completed'[i] = pair
      BY <1>8, <2>1
    <3>2. found.arrival \in 1 .. arrivals
      BY <1>4 DEF Inv, Numbered
    <3> QED
      BY <1>1, <1>3, <1>7, <3>1, <3>2
  <2>2. CASE i + d # Len(completed) + 1
    BY <1>1, <1>8, <2>2 DEF Inv, CompletedPairsSound
  <2> QED
    BY <2>1, <2>2
<1>14. AnsweredOldestFirst'
  <2>1. ASSUME NEW i \in DOMAIN completed', NEW p \in pending',
               Exact(completed'[i]),
               p.link = completed'[i].link, p.service = completed'[i].service
        PROVE  completed'[i].arrival < p.arrival
    <3>1. CASE i + d = Len(completed) + 1
      <4>1. completed'[i] = pair
        BY <1>8, <3>1
      <4>2. found.service = service
        BY <1>7, <2>1, <4>1 DEF Exact
      <4>3. /\ p \in pending /\ p # found
            /\ found.arrival <= p.arrival
        BY <1>4, <1>5, <1>7, <2>1, <4>1, <4>2
      <4>4. found.arrival # p.arrival
        BY <1>4, <4>3 DEF Inv, Numbered
      <4>5. found.arrival \in Nat /\ p.arrival \in Nat
        BY <1>6, <4>3 DEF Inv, TypeOK, PendingRequest
      <4> QED
        BY <1>7, <4>1, <4>3, <4>4, <4>5
    <3>2. CASE i + d # Len(completed) + 1
      BY <1>8, <1>11, <2>1, <3>2 DEF Inv, AnsweredOldestFirst, Exact
    <3> QED
      BY <3>1, <3>2
  <2>2. ASSUME NEW i \in DOMAIN completed', NEW j \in DOMAIN completed', i < j,
               Exact(completed'[i]), Exact(completed'[j]),
               completed'[i].link = completed'[j].link,
               completed'[i].service = completed'[j].service
        PROVE  completed'[i].arrival < completed'[j].arrival
    <3>1. /\ i + d \in DOMAIN completed
          /\ completed'[i] = completed[i + d]
      BY <1>8, <1>9, <2>2
    <3>2. CASE j + d = Len(completed) + 1
      <4>1. completed'[j] = pair
        BY <1>8, <3>2
      <4> QED
        BY <1>4, <1>7, <2>2, <3>1, <4>1 DEF Inv, AnsweredOldestFirst
    <3>3. CASE j + d # Len(completed) + 1
      <4>1. /\ j + d \in DOMAIN completed
            /\ completed'[j] = completed[j + d]
            /\ i + d < j + d
        BY <1>8, <1>9, <2>2, <3>3
      <4> QED
        BY <2>2, <3>1, <4>1 DEF Inv, AnsweredOldestFirst
    <3> QED
      BY <3>2, <3>3
  <2> QED
    BY <2>1, <2>2 DEF AnsweredOldestFirst, Exact
<1> QED
  BY <1>10, <1>12, <1>13, <1>14 DEF Inv
-----------------------------------------------------------------------------
\* Inv holds of an empty correlator.
LEMMA InvInit ==
  ASSUME Init
  PROVE  Inv
<1>1. TypeOK
  BY EmptySeq DEF Init, TypeOK, Statistics, NoStatistics, Untracked
<1>2. Numbered
  BY FS_EmptySet DEF Init, Numbered
<1>3. completed = <<>>
  BY DEF Init
<1>4. CompletedPairsSound /\ AnsweredOldestFirst
  BY <1>3 DEF CompletedPairsSound, AnsweredOldestFirst
<1> QED
  BY <1>1, <1>2, <1>4 DEF Inv

\* Steps that only remove pending requests, and leave the history or clear it.
LEMMA RemovalStep ==
  ASSUME Inv, TypeOK', pending' \subseteq pending, arrivals' = arrivals,
         completed' = completed \/ completed' = <<>>
  PROVE  Inv'
<1>1. IsFiniteSet(pending')
  BY FS_Subset DEF Inv, Numbered
<1>2. Numbered'
  BY <1>1 DEF Inv, Numbered
<1>3. CASE completed' = completed
  BY <1>2, <1>3, HistoryKept DEF Inv
<1>4. CASE completed' = <<>>
  <2>1. CompletedPairsSound' /\ AnsweredOldestFirst'
    BY <1>4 DEF CompletedPairsSound, AnsweredOldestFirst
  <2> QED
    BY <1>2, <2>1 DEF Inv
<1> QED
  BY <1>3, <1>4

\* Adding to one counter leaves a record of statistics.
LEMMA Counting ==
  ASSUME NEW s \in Statistics, NEW n \in Nat
  PROVE  /\ [s EXCEPT !.responses_unmatched = s.responses_unmatched + n] \in Statistics
         /\ [s EXCEPT !.pending_timeouts = s.pending_timeouts + n] \in Statistics
<1>1. s.responses_unmatched + n \in Nat /\ s.pending_timeouts + n \in Nat
  BY DEF Statistics
<1>2. [s EXCEPT !.responses_unmatched = s.responses_unmatched + n] \in Statistics
  BY <1>1 DEF Statistics
<1>3. [s EXCEPT !.pending_timeouts = s.pending_timeouts + n] \in Statistics
  BY <1>1 DEF Statistics
<1> QED
  BY <1>2, <1>3

\* Every operation preserves Inv.
LEMMA InvNext ==
  ASSUME Inv, [Next]_vars
  PROVE  Inv'
<1>1. ASSUME NEW link \in Link, NEW service \in Service, NEW delay \in Delays,
             record_request(link, service, delay)
      PROVE  Inv'
  BY <1>1, RecordRequestStep
<1>2. ASSUME NEW link \in ResponseLink, UnmatchedResponse(link)
      PROVE  Inv'
  <2>1. stats' \in Statistics
    BY <1>2, Counting DEF UnmatchedResponse, Inv, TypeOK
  <2>2. TypeOK'
    BY <1>2, <2>1 DEF UnmatchedResponse, Inv, TypeOK
  <2> QED
    BY <1>2, <2>2, RemovalStep DEF UnmatchedResponse
<1>3. ASSUME NEW link \in ResponseLink, NEW service \in Service,
             ResponsePending(link, service)
      PROVE  Inv'
  BY <1>3, ResponsePendingStep
<1>4. ASSUME NEW link \in ResponseLink, NEW service \in Service,
             NEW verdict \in Verdict, FinalResponse(link, service, verdict)
      PROVE  Inv'
  BY <1>4, FinalResponseStep
<1>5. CASE check_timeouts
  <2> DEFINE overdue == {p \in pending : is_timed_out(p)}
  <2>1. Cardinality(overdue) \in Nat
    BY FS_Subset, FS_CardinalityType DEF Inv, Numbered
  <2> HIDE DEF overdue
  <2>2. /\ pending' = pending \ overdue
        /\ stats' = [stats EXCEPT !.pending_timeouts = @ + Cardinality(overdue)]
        /\ UNCHANGED <<completed, timing, arrivals, received, untracked>>
    BY <1>5 DEF check_timeouts, overdue
  <2>3. TypeOK'
    BY <2>1, <2>2, Counting DEF Inv, TypeOK
  <2> QED
    BY <2>2, <2>3, RemovalStep
<1>6. ASSUME NEW t \in Timings, set_timing(t)
      PROVE  Inv'
  BY <1>6, RemovalStep DEF set_timing, Inv, TypeOK
<1>7. total_pending \in Nat
  BY FS_CardinalityType DEF Inv, Numbered, total_pending
<1>8. CASE clear_pending
  <2>1. TypeOK'
    BY <1>7, <1>8 DEF clear_pending, Inv, TypeOK, Untracked
  <2> QED
    BY <1>8, <2>1, RemovalStep DEF clear_pending
<1>9. CASE clear_history
  BY <1>9, EmptySeq, RemovalStep DEF clear_history, Inv, TypeOK
<1>10. CASE reset
  <2>1. TypeOK'
    BY <1>7, <1>10, EmptySeq DEF reset, Inv, TypeOK, Untracked
  <2> QED
    BY <1>10, <2>1, RemovalStep DEF reset
<1>11. CASE reset_statistics
  <2>1. TypeOK'
    BY <1>7, <1>11 DEF reset_statistics, Inv, TypeOK, Untracked, Statistics, NoStatistics
  <2> QED
    BY <1>11, <2>1, RemovalStep DEF reset_statistics
<1>12. CASE Tick
  <2>1. TypeOK'
    BY <1>12, TickKeepsIdentity DEF Tick, Inv, TypeOK
  <2> QED
    BY <1>12, <2>1, TickKeepsIdentity, HistoryKept DEF Tick, Inv
<1>13. CASE UNCHANGED vars
  BY <1>13, RemovalStep DEF vars, Inv, TypeOK
<1> QED
  BY <1>1, <1>2, <1>3, <1>4, <1>5, <1>6, <1>8, <1>9, <1>10, <1>11, <1>12, <1>13
     DEF Next, process_response
-----------------------------------------------------------------------------
\* Inv is an invariant of the correlator.
LEMMA InvAlways == Spec => []Inv
BY InvInit, InvNext, PTL DEF Spec

\* Every state of the correlator is well-typed: in particular no operation
\* counts a matched request twice, so untracked.kept never goes below zero.
THEOREM TypeCorrect == Spec => []TypeOK
BY InvAlways, PTL DEF Inv

\* process_response joins requests and responses of opposite address pairs only.
THEOREM PairsSound == Spec => []CompletedPairsSound
BY InvAlways, PTL DEF Inv

\* process_response answers the requests of a service on a link in the order
\* record_request got them, whatever evictions, timeouts and clears intervene.
THEOREM OldestFirst == Spec => []AnsweredOldestFirst
BY InvAlways, PTL DEF Inv
-----------------------------------------------------------------------------
(* Counting the requests.                                                  *)

\* The second half of the balance: every match is positive or negative.
MatchesSplit == stats.responses_matched = stats.positive_responses + stats.negative_responses

\* The first half, for any number of pending requests: what the statistics say
\* the number should be.
Expected ==
  stats.requests_recorded + untracked.carried + untracked.kept
    - stats.responses_matched - stats.pending_timeouts - untracked.dropped

\* With numbers in place of the counters, the balance says how many are pending.
LEMMA BalanceExpected ==
  ASSUME Inv
  PROVE  StatisticsBalance <=> Cardinality(pending) = Expected /\ MatchesSplit
<1>1. Cardinality(pending) \in Nat
  BY FS_CardinalityType DEF Inv, Numbered
<1>2. /\ stats.requests_recorded \in Nat /\ stats.responses_matched \in Nat
      /\ stats.pending_timeouts \in Nat
      /\ untracked.carried \in Nat /\ untracked.kept \in Nat /\ untracked.dropped \in Nat
  BY DEF Inv, TypeOK, Statistics, Untracked
<1>3. Cardinality(pending) = Expected <=>
        stats.requests_recorded + untracked.carried + untracked.kept
          = Cardinality(pending) + stats.responses_matched + stats.pending_timeouts
              + untracked.dropped
  BY <1>1, <1>2 DEF Expected
<1> QED
  BY <1>3 DEF StatisticsBalance, total_pending, MatchesSplit

\* record_request: one more, one less if the deque was full.
LEMMA RecordRequestCount ==
  ASSUME Inv, NEW link \in Link, NEW service \in Service, NEW delay \in Delays,
         record_request(link, service, delay)
  PROVE  Cardinality(pending') = Cardinality(pending) - Cardinality(Evicted(link)) + 1
<1> DEFINE request == [link |-> link, service |-> service, arrival |-> arrivals + 1,
                       age |-> delay, pending_count |-> 0]
<1>1. pending' = (pending \ Evicted(link)) \cup {request}
  BY DEF record_request
<1>2. request \notin pending
  <2>1. request.arrival = arrivals + 1
    OBVIOUS
  <2> HIDE DEF request
  <2> QED
    BY <2>1 DEF Inv, TypeOK, Numbered
<1> HIDE DEF request
<1>3. Evicted(link) \subseteq pending
  <2>1. CASE Cardinality(Deque(link)) >= MaxPendingPerAddress
    <3>1. Deque(link) # {}
      BY <2>1, FS_EmptySet, CorrelatorAssumption
    <3>2. Deque(link) \in SUBSET PendingRequest /\ Deque(link) \subseteq pending
      BY DEF Inv, TypeOK, Deque
    <3> QED
      BY <3>1, <3>2, OldestIsOldest DEF Evicted
  <2>2. CASE ~ (Cardinality(Deque(link)) >= MaxPendingPerAddress)
    BY <2>2 DEF Evicted
  <2> QED
    BY <2>1, <2>2
<1>4. /\ IsFiniteSet(pending \ Evicted(link))
      /\ Cardinality(pending \ Evicted(link))
           = Cardinality(pending) - Cardinality(Evicted(link))
  <2>1. pending \cap Evicted(link) = Evicted(link)
    BY <1>3
  <2> QED
    BY <2>1, FS_Difference DEF Inv, Numbered
<1>5. Cardinality((pending \ Evicted(link)) \cup {request})
        = Cardinality(pending \ Evicted(link)) + 1
  BY <1>2, <1>4, FS_AddElement
<1> QED
  BY <1>1, <1>4, <1>5

Balanced == Cardinality(pending) = Expected /\ MatchesSplit

\* The counters that the balance reads are numbers.
LEMMA CountersAreNumbers ==
  ASSUME Inv
  PROVE  /\ stats.requests_recorded \in Nat /\ stats.responses_matched \in Nat
         /\ stats.pending_timeouts \in Nat
         /\ stats.positive_responses \in Nat /\ stats.negative_responses \in Nat
         /\ untracked.carried \in Nat /\ untracked.kept \in Nat /\ untracked.dropped \in Nat
         /\ Cardinality(pending) \in Nat /\ IsFiniteSet(pending)
BY FS_CardinalityType DEF Inv, Numbered, TypeOK, Statistics, Untracked

\* Every operation keeps the books balanced.
LEMMA BalancedNext ==
  ASSUME Inv, Balanced, [Next]_vars
  PROVE  Balanced'
<1> USE CountersAreNumbers
<1>0. stats \in Statistics /\ untracked \in Untracked
  BY DEF Inv, TypeOK
<1>1. ASSUME NEW link \in Link, NEW service \in Service, NEW delay \in Delays,
             record_request(link, service, delay)
      PROVE  Balanced'
  <2>1. Cardinality(pending') = Cardinality(pending) - Cardinality(Evicted(link)) + 1
    BY <1>1, RecordRequestCount
  <2>2. Cardinality(Evicted(link)) \in {0, 1}
    BY EvictedType DEF Inv
  <2>3. /\ stats'.requests_recorded = stats.requests_recorded + 1
        /\ stats'.responses_matched = stats.responses_matched
        /\ stats'.pending_timeouts = stats.pending_timeouts
        /\ stats'.positive_responses = stats.positive_responses
        /\ stats'.negative_responses = stats.negative_responses
        /\ untracked'.carried = untracked.carried /\ untracked'.kept = untracked.kept
        /\ untracked'.dropped = untracked.dropped + Cardinality(Evicted(link))
    BY <1>0, <1>1 DEF record_request, Statistics, Untracked
  <2> QED
    BY <2>1, <2>2, <2>3 DEF Balanced, Expected, MatchesSplit
<1>2. ASSUME NEW link \in ResponseLink, UnmatchedResponse(link)
      PROVE  Balanced'
  <2>1. /\ stats'.requests_recorded = stats.requests_recorded
        /\ stats'.responses_matched = stats.responses_matched
        /\ stats'.pending_timeouts = stats.pending_timeouts
        /\ stats'.positive_responses = stats.positive_responses
        /\ stats'.negative_responses = stats.negative_responses
    BY <1>0, <1>2 DEF UnmatchedResponse, Statistics
  <2>2. pending' = pending /\ untracked' = untracked
    BY <1>2 DEF UnmatchedResponse
  <2> QED
    BY <2>1, <2>2 DEF Balanced, Expected, MatchesSplit
<1>3. ASSUME NEW link \in ResponseLink, NEW service \in Service,
             ResponsePending(link, service)
      PROVE  Balanced'
  <2>1. /\ stats'.requests_recorded = stats.requests_recorded
        /\ stats'.responses_matched = stats.responses_matched
        /\ stats'.pending_timeouts = stats.pending_timeouts
        /\ stats'.positive_responses = stats.positive_responses
        /\ stats'.negative_responses = stats.negative_responses
    BY <1>0, <1>3 DEF ResponsePending, Statistics
  <2>2. Cardinality(pending') = Cardinality(pending) /\ untracked' = untracked
    BY <1>3, ResponsePendingStep DEF ResponsePending
  <2> QED
    BY <2>1, <2>2 DEF Balanced, Expected, MatchesSplit
<1>4. ASSUME NEW response_link \in ResponseLink, NEW service \in Service,
             NEW verdict \in Verdict, FinalResponse(response_link, service, verdict)
      PROVE  Balanced'
  <2> DEFINE erased == Erased(ResponseKey(response_link), service)
  <2>1. /\ Deque(ResponseKey(response_link)) # {}
        /\ pending' = pending \ erased
        /\ untracked' = [untracked EXCEPT !.kept = @ + 1 - Cardinality(erased)]
    BY <1>4 DEF FinalResponse
  <2>2. Cardinality(erased) \in {0, 1} /\ erased \subseteq pending
    BY <2>1, ResponseKeyReverses, ErasedType, ErasedIsFound, FoundIsPending DEF Inv
  <2> HIDE DEF erased
  <2>3. Cardinality(pending') = Cardinality(pending) - Cardinality(erased)
    <3>1. pending \cap erased = erased
      BY <2>2
    <3>2. Cardinality(pending \ erased) = Cardinality(pending) - Cardinality(pending \cap erased)
      BY FS_Difference DEF Inv, Numbered
    <3> QED
      BY <2>1, <3>1, <3>2
  <2>4. /\ untracked'.carried = untracked.carried /\ untracked'.dropped = untracked.dropped
        /\ untracked'.kept = untracked.kept + 1 - Cardinality(erased)
    BY <1>0, <2>1 DEF Untracked
  <2>5. /\ stats'.requests_recorded = stats.requests_recorded
        /\ stats'.responses_matched = stats.responses_matched + 1
        /\ stats'.pending_timeouts = stats.pending_timeouts
        /\ stats'.positive_responses + stats'.negative_responses
             = stats.positive_responses + stats.negative_responses + 1
    <3>1. CASE stats' = [stats EXCEPT !.responses_matched = @ + 1,
                                      !.positive_responses = @ + 1]
      <4>1. stats'.positive_responses = stats.positive_responses + 1
            /\ stats'.negative_responses = stats.negative_responses
        BY <1>0, <3>1 DEF Statistics
      <4>2. /\ stats'.requests_recorded = stats.requests_recorded
            /\ stats'.responses_matched = stats.responses_matched + 1
            /\ stats'.pending_timeouts = stats.pending_timeouts
        BY <1>0, <3>1 DEF Statistics
      <4> QED
        BY <4>1, <4>2
    <3>2. CASE stats' = [stats EXCEPT !.responses_matched = @ + 1,
                                      !.negative_responses = @ + 1]
      <4>1. stats'.positive_responses = stats.positive_responses
            /\ stats'.negative_responses = stats.negative_responses + 1
        BY <1>0, <3>2 DEF Statistics
      <4>2. /\ stats'.requests_recorded = stats.requests_recorded
            /\ stats'.responses_matched = stats.responses_matched + 1
            /\ stats'.pending_timeouts = stats.pending_timeouts
        BY <1>0, <3>2 DEF Statistics
      <4> QED
        BY <4>1, <4>2
    <3> QED
      BY <1>4, <3>1, <3>2 DEF FinalResponse
  <2> QED
    BY <2>2, <2>3, <2>4, <2>5 DEF Balanced, Expected, MatchesSplit
<1>5. CASE check_timeouts
  <2> DEFINE overdue == {p \in pending : is_timed_out(p)}
  <2>1. IsFiniteSet(overdue) /\ Cardinality(overdue) \in Nat
    BY FS_Subset, FS_CardinalityType
  <2>2. pending \cap overdue = overdue
    OBVIOUS
  <2> HIDE DEF overdue
  <2>3. /\ pending' = pending \ overdue
        /\ stats' = [stats EXCEPT !.pending_timeouts = @ + Cardinality(overdue)]
        /\ untracked' = untracked
    BY <1>5 DEF check_timeouts, overdue
  <2>4. Cardinality(pending') = Cardinality(pending) - Cardinality(overdue)
    <3>1. Cardinality(pending \ overdue)
            = Cardinality(pending) - Cardinality(pending \cap overdue)
      BY FS_Difference
    <3> QED
      BY <2>2, <2>3, <3>1
  <2>5. /\ stats'.requests_recorded = stats.requests_recorded
        /\ stats'.responses_matched = stats.responses_matched
        /\ stats'.pending_timeouts = stats.pending_timeouts + Cardinality(overdue)
        /\ stats'.positive_responses = stats.positive_responses
        /\ stats'.negative_responses = stats.negative_responses
    BY <1>0, <2>3 DEF Statistics
  <2> QED
    BY <2>1, <2>3, <2>4, <2>5 DEF Balanced, Expected, MatchesSplit
<1>6. CASE clear_pending \/ reset
  <2>1. /\ pending' = {} /\ stats' = stats
        /\ untracked' = [untracked EXCEPT !.dropped = @ + Cardinality(pending)]
    BY <1>6 DEF clear_pending, reset, total_pending
  <2>2. /\ untracked'.carried = untracked.carried /\ untracked'.kept = untracked.kept
        /\ untracked'.dropped = untracked.dropped + Cardinality(pending)
    BY <1>0, <2>1 DEF Untracked
  <2> QED
    BY <2>1, <2>2, FS_EmptySet DEF Balanced, Expected, MatchesSplit
<1>7. CASE reset_statistics
  BY <1>7 DEF reset_statistics, total_pending, NoStatistics, Balanced, Expected, MatchesSplit
<1>8. CASE Tick
  BY <1>8, TickKeepsIdentity DEF Inv, Tick, Balanced, Expected, MatchesSplit
<1>9. CASE UNCHANGED <<pending, stats, untracked>>
  BY <1>9 DEF Balanced, Expected, MatchesSplit
<1> QED
  BY <1>1, <1>2, <1>3, <1>4, <1>5, <1>6, <1>7, <1>8, <1>9
     DEF Next, process_response, set_timing, clear_history, vars

\* The statistics account for every request: whatever responses, fallback
\* matches, timeouts, evictions, clears and resets happen, the requests counted
\* as recorded are the pending, matched and timed-out ones and the moves that
\* stats_ is known not to count.
THEOREM StatisticsAlwaysBalance == Spec => []StatisticsBalance
<1>1. Init => Balanced
  BY FS_EmptySet DEF Init, NoStatistics, Balanced, Expected, MatchesSplit
<1>2. Inv /\ Balanced /\ [Next]_vars => Balanced'
  BY BalancedNext
<1>3. Inv /\ Balanced => StatisticsBalance
  BY BalanceExpected DEF Balanced
<1> QED
  BY <1>1, <1>2, <1>3, InvAlways, PTL DEF Spec
=============================================================================
