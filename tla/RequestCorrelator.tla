------------------------- MODULE RequestCorrelator -------------------------
(***************************************************************************)
(* The request/response correlator of the diagnostic layer                 *)
(* (request_correlator.cpp).  It keeps, for every (source, target) address *)
(* pair, the deque of UDS requests that wait for a response, matches       *)
(* incoming responses with them, expires the ones that waited too long and *)
(* keeps a bounded history of completed pairs.  Every public method runs   *)
(* under one mutex, so each is one atomic action here.                     *)
(*                                                                         *)
(* Abstractions.  The deques are one set of pending requests: a request    *)
(* carries its link (the address pair) and its arrival number, and the     *)
(* deque of a link is the set of its requests in the order of arrival.     *)
(* Time is the age of a request: the code only ever compares the time      *)
(* since request.timestamp with P2 and P2*, so an age saturates at MaxAge, *)
(* above every timing parameter.  Header and message bytes are left out.   *)
(* The callbacks an operation runs, with the mutex held, change no state   *)
(* of the correlator; DiagnosticSession models what they do.               *)
(***************************************************************************)
EXTENDS Integers, Sequences, FiniteSets

CONSTANTS
  Link,                 \* AddressPairKey: the (source, target) pairs of requests
  Service,              \* UDS service identifiers
  Timings,              \* values of DiagnosticTiming: [p2, p2_star]
  Delays,               \* ages a request can have when it is recorded
  MaxPendingPerAddress, \* Options::max_pending_per_address
  MaxCompletedHistory,  \* MAX_COMPLETED_HISTORY
  MaxAge,               \* bound: where ages saturate
  MaxRequests,          \* bound: requests recorded in a behaviour
  MaxResponses          \* bound: responses processed in a behaviour

ASSUME CorrelatorAssumption ==
  /\ \A link \in Link : link = <<link[1], link[2]>>
  /\ Timings # {}
  /\ Timings \subseteq [p2 : Nat, p2_star : Nat]
  /\ MaxPendingPerAddress \in Nat \ {0}
  /\ MaxCompletedHistory \in Nat \ {0}
  /\ MaxAge \in Nat
  /\ \A t \in Timings : t.p2 < MaxAge /\ t.p2_star < MaxAge
  /\ Delays \subseteq 0 .. MaxAge
  /\ MaxRequests \in Nat
  /\ MaxResponses \in Nat

VARIABLES
  pending,   \* pending_requests_: the requests that wait, of all the deques
  completed, \* completed_: the history of pairs, oldest first
  stats,     \* stats_
  timing,    \* options_.timing
  arrivals,  \* requests recorded so far (numbers the arrivals)
  received,  \* responses processed so far
  untracked  \* auxiliary: moves of requests that stats_ does not count

vars == <<pending, completed, stats, timing, arrivals, received, untracked>>
-----------------------------------------------------------------------------
\* Responses travel the reversed address pair of their request.
Reversed(link) == <<link[2], link[1]>>

ResponseLink == {Reversed(link) : link \in Link}

PendingRequest == [link : Link, service : Service, arrival : Nat,
                   age : 0 .. MaxAge, pending_count : Nat]

Verdict == {"positive", "negative"}

RequestResponsePair == [link : Link, service : Service, arrival : Nat,
                        response_link : ResponseLink, response_service : Service,
                        verdict : Verdict, pending_count : Nat]

Statistics == [requests_recorded : Nat, responses_matched : Nat,
               responses_unmatched : Nat, pending_timeouts : Nat,
               positive_responses : Nat, negative_responses : Nat,
               response_pending_count : Nat]

NoStatistics == [requests_recorded |-> 0, responses_matched |-> 0,
                 responses_unmatched |-> 0, pending_timeouts |-> 0,
                 positive_responses |-> 0, negative_responses |-> 0,
                 response_pending_count |-> 0]

\* What the statistics miss: the requests already pending when the statistics
\* were last reset, the ones a full deque or a clear dropped, and the responses
\* matched with a request that then stayed in its deque.
Untracked == [carried : Nat, dropped : Nat, kept : Nat]

TypeOK ==
  /\ pending \in SUBSET PendingRequest
  /\ completed \in Seq(RequestResponsePair)
  /\ stats \in Statistics
  /\ timing \in Timings
  /\ arrivals \in Nat
  /\ received \in Nat
  /\ untracked \in Untracked
-----------------------------------------------------------------------------
\* The deque of a link, and the oldest request of a set of requests.
Deque(link) == {p \in pending : p.link = link}

Oldest(S) == CHOOSE p \in S : \A q \in S : p.arrival <= q.arrival

total_pending == Cardinality(pending)

\* Fault variants: what a slip in the code below would make of it.  They are
\* not part of the specification; each breaks a property stated at the end.
UnreversedResponseKey(response_link) == response_link
PatientAfterResponsePending(p) == p.pending_count = 0 /\ p.age > timing.p2
ErasedNewest(link, service) ==
  {p \in Deque(link) : /\ p.service = service
                       /\ \A q \in Deque(link) :
                            q.service = service => q.arrival <= p.arrival}
TimeoutsCountedPerCall ==
  /\ pending' = {p \in pending : p.age <= timing.p2}
  /\ stats' = [stats EXCEPT !.pending_timeouts = IF pending' # pending THEN @ + 1 ELSE @]
  /\ UNCHANGED <<completed, timing, arrivals, received, untracked>>
-----------------------------------------------------------------------------
\* The key under which a response is looked up.
ResponseKey(response_link) == <<response_link[2], response_link[1]>>

\* What a full deque drops before a new request is pushed.
Evicted(link) ==
  IF Cardinality(Deque(link)) >= MaxPendingPerAddress
  THEN {Oldest(Deque(link))} ELSE {}

\* The request a response to (link, service) belongs to: the oldest one of that
\* service, or else the oldest one of the link.  Defined for a non-empty deque.
ExactMatches(link, service) == {p \in Deque(link) : p.service = service}

find_pending_for_response(link, service) ==
  Oldest(IF ExactMatches(link, service) # {}
         THEN ExactMatches(link, service)
         ELSE Deque(link))

\* The requests the erase loop of process_response removes: it looks for the
\* service of the RESPONSE, so it removes nothing after a fallback match.
Erased(link, service) ==
  IF ExactMatches(link, service) = {} THEN {}
  ELSE {Oldest(ExactMatches(link, service))}

is_timed_out(p) ==
  IF p.pending_count > 0 THEN p.age > timing.p2_star ELSE p.age > timing.p2

\* completed_.push_back, then pop_front above the limit.
Remember(pair) ==
  LET longer == Append(completed, pair)
  IN  IF Len(longer) > MaxCompletedHistory THEN Tail(longer) ELSE longer

-----------------------------------------------------------------------------
Init ==
  /\ pending = {}
  /\ completed = <<>>
  /\ stats = NoStatistics
  /\ timing \in Timings
  /\ arrivals = 0
  /\ received = 0
  /\ untracked = [carried |-> 0, dropped |-> 0, kept |-> 0]

\* A full deque silently drops its oldest request to make room.
record_request(link, service, delay) ==
  LET request == [link |-> link, service |-> service, arrival |-> arrivals + 1,
                  age |-> delay, pending_count |-> 0]
  IN  /\ arrivals < MaxRequests
      /\ arrivals' = arrivals + 1
      /\ pending' = (pending \ Evicted(link)) \cup {request}
      /\ stats' = [stats EXCEPT !.requests_recorded = @ + 1]
      /\ untracked' = [untracked EXCEPT !.dropped = @ + Cardinality(Evicted(link))]
      /\ UNCHANGED <<completed, timing, received>>

\* process_response(header, transport) by its three outcomes.  The response
\* travels response_link, so its request waits on the reversed link.
UnmatchedResponse(response_link) ==
  /\ received < MaxResponses
  /\ received' = received + 1
  /\ Deque(ResponseKey(response_link)) = {}
  /\ stats' = [stats EXCEPT !.responses_unmatched = @ + 1]
  /\ UNCHANGED <<pending, completed, timing, arrivals, untracked>>

ResponsePending(response_link, service) ==
  LET link == ResponseKey(response_link)
      found == find_pending_for_response(link, service)
  IN  /\ received < MaxResponses
      /\ received' = received + 1
      /\ Deque(link) # {}
      /\ pending' = (pending \ {found})
                      \cup {[found EXCEPT !.pending_count = @ + 1]}
      /\ stats' = [stats EXCEPT !.response_pending_count = @ + 1]
      /\ UNCHANGED <<completed, timing, arrivals, untracked>>

FinalResponse(response_link, service, verdict) ==
  LET link == ResponseKey(response_link)
      found == find_pending_for_response(link, service)
      pair == [link |-> found.link, service |-> found.service,
               arrival |-> found.arrival, response_link |-> response_link,
               response_service |-> service, verdict |-> verdict,
               pending_count |-> found.pending_count]
  IN  /\ received < MaxResponses
      /\ received' = received + 1
      /\ Deque(link) # {}
      /\ \/ /\ verdict = "positive"
            /\ stats' = [stats EXCEPT !.responses_matched = @ + 1,
                                      !.positive_responses = @ + 1]
         \/ /\ verdict = "negative"
            /\ stats' = [stats EXCEPT !.responses_matched = @ + 1,
                                      !.negative_responses = @ + 1]
      /\ pending' = pending \ Erased(link, service)
      /\ untracked' = [untracked EXCEPT
                         !.kept = @ + 1 - Cardinality(Erased(link, service))]
      /\ completed' = Remember(pair)
      /\ UNCHANGED <<timing, arrivals>>

process_response(response_link, service) ==
  \/ UnmatchedResponse(response_link)
  \/ ResponsePending(response_link, service)
  \/ \E verdict \in Verdict : FinalResponse(response_link, service, verdict)

\* Everything overdue goes in one call, under one lock.
check_timeouts ==
  LET overdue == {p \in pending : is_timed_out(p)}
  IN  /\ pending' = pending \ overdue
      /\ stats' = [stats EXCEPT !.pending_timeouts = @ + Cardinality(overdue)]
      /\ UNCHANGED <<completed, timing, arrivals, received, untracked>>

set_timing(t) ==
  /\ timing' = t
  /\ UNCHANGED <<pending, completed, stats, arrivals, received, untracked>>

clear_pending ==
  /\ pending' = {}
  /\ untracked' = [untracked EXCEPT !.dropped = @ + total_pending]
  /\ UNCHANGED <<completed, stats, timing, arrivals, received>>

clear_history ==
  /\ completed' = <<>>
  /\ UNCHANGED <<pending, stats, timing, arrivals, received, untracked>>

\* Both clears at once; the statistics and the callbacks survive.
reset ==
  /\ pending' = {}
  /\ completed' = <<>>
  /\ untracked' = [untracked EXCEPT !.dropped = @ + total_pending]
  /\ UNCHANGED <<stats, timing, arrivals, received>>

reset_statistics ==
  /\ stats' = NoStatistics
  /\ untracked' = [carried |-> total_pending, dropped |-> 0, kept |-> 0]
  /\ UNCHANGED <<pending, completed, timing, arrivals, received>>

\* The passage of time (steady_clock): every pending request gets older.
Older(p) == [p EXCEPT !.age = IF @ < MaxAge THEN @ + 1 ELSE @]

Tick ==
  /\ \E p \in pending : p.age < MaxAge
  /\ pending' = {Older(p) : p \in pending}
  /\ UNCHANGED <<completed, stats, timing, arrivals, received, untracked>>

Next ==
  \/ \E link \in Link, service \in Service, delay \in Delays :
       record_request(link, service, delay)
  \/ \E link \in ResponseLink, service \in Service : process_response(link, service)
  \/ check_timeouts
  \/ \E t \in Timings : set_timing(t)
  \/ clear_pending
  \/ clear_history
  \/ reset
  \/ reset_statistics
  \/ Tick

Spec == Init /\ [][Next]_vars

\* The clock runs, and the application polls check_timeouts; nothing in the
\* correlator itself calls it (Options::auto_timeout_check is never read).
FairSpec == Spec /\ WF_vars(Tick) /\ WF_vars(check_timeouts)
-----------------------------------------------------------------------------
\* Correctness of the correlation: a completed pair joins a request with a
\* response that travelled exactly the reversed address pair, and the request
\* is one that was recorded (find_pending_for_response looks the key up
\* reversed; several links interleave freely).
CompletedPairsSound ==
  \A i \in DOMAIN completed :
    /\ completed[i].response_link = Reversed(completed[i].link)
    /\ completed[i].arrival \in 1 .. arrivals

\* Requests of one service on one link are answered oldest first: no request
\* that is still pending is older than one of its service and link that a
\* response of that service completed, and the history lists the completed
\* ones in the order they were recorded.  Evictions, expiries, fallback
\* matches, clears and late responses in between do not disturb that.
Exact(pair) == pair.response_service = pair.service

AnsweredOldestFirst ==
  /\ \A i \in DOMAIN completed, p \in pending :
       /\ Exact(completed[i])
       /\ p.link = completed[i].link
       /\ p.service = completed[i].service
       => completed[i].arrival < p.arrival
  /\ \A i, j \in DOMAIN completed :
       /\ i < j
       /\ Exact(completed[i]) /\ Exact(completed[j])
       /\ completed[i].link = completed[j].link
       /\ completed[i].service = completed[j].service
       => completed[i].arrival < completed[j].arrival

\* No deque outgrows max_pending_per_address, and no two pending requests
\* share a place in a deque.
DequesBounded ==
  /\ \A link \in Link : Cardinality(Deque(link)) <= MaxPendingPerAddress
  /\ \A p, q \in pending : p.arrival = q.arrival => p = q

\* The books balance: every request the statistics count as recorded is
\* pending, matched, timed out, or one of the moves stats_ does not count; and
\* every match is either positive or negative.
StatisticsBalance ==
  /\ stats.requests_recorded + untracked.carried + untracked.kept
       = total_pending + stats.responses_matched + stats.pending_timeouts
           + untracked.dropped
  /\ stats.responses_matched = stats.positive_responses + stats.negative_responses

\* Statistics::match_rate is documented to lie in 0.0 .. 1.0: no more responses
\* are matched than requests were recorded.
MatchRateAtMostOne ==
  stats.requests_recorded > 0 => stats.responses_matched <= stats.requests_recorded

\* As long as the application polls check_timeouts, no request stays pending
\* for ever, whatever ResponsePending answers it got and however the timing
\* parameters are changed meanwhile.
NoRequestPendingForever ==
  \A n \in 1 .. MaxRequests :
    (\E p \in pending : p.arrival = n) ~> ~ (\E p \in pending : p.arrival = n)
=============================================================================
