# Wadjet-Link in TLA+

A verification project for Wadjet-Link, a C++ library that captures automotive
Ethernet traffic, decodes it (SOME/IP, DoIP, UDS, gPTP, DDS), follows diagnostic
sessions in it and runs test scenarios against it. Paths are those of the
repository; `PROJECT.json` maps every definition to the lines it models and
lists the hazards at their lines.

## 1. Inventory

| Component | State | Operations | Hard behaviour | What makes it correct |
|---|---|---|---|---|
| `RequestCorrelator` | a deque of pending requests per address pair, bounded history of pairs, statistics, timing | record_request, process_response, check_timeouts, set_timing, clears and resets | late answers, retries, ResponsePending, full deques, answers of another service | right request for every response, oldest first; nothing pending for ever; the counters add up |
| `DiagnosticSessionManager` | session, security level and ECU data per ECU; owns a correlator | process_doip/uds messages, timeouts, resets | callbacks under two locks, events not forwarded, S3 timeout | state follows the accepted responses; correlation outcomes are reported |
| `FlashSequenceTracker` | sequence in progress and history per ECU, statistics | one handler per flash message, abort, timeouts, resets | any order of captured messages, retransmission, counters that wrap | history holds only what is over; acknowledgements in order; nothing active for ever |
| `DTCManager` | trouble codes per ECU, cleared history | read and clear responses, snapshots, limits, queries | two limits enforced during an addition; a locked method that calls a locking one | limits hold, oldest goes first; a listener knows what is stored |
| `UdsSession`, `SecurityState`, `UdsSessionManager` | session type, timing, levels, attempts, lockout, callbacks | process, seed and key, reset, timeouts, registration | timeout computed on reading, lockout expiry, callbacks for sessions old and new | a level is unlocked only by its key in the session; lockout after three |
| UDS decoder | none | decode, parsers per service | bytes by length and format fields | no byte read that is not there |
| `CaptureSession` | memory-mapped ring shared with the kernel, `running_`, `in_capture_loop_`, socket | next_packet, capture_loop, start, stop, destructor | kernel and two threads interleave; shutdown | FIFO delivery; ring in step; no access after unmapping; shutdown ends |
| dispatcher and decoders | one decode in progress | decode, decode_from_ip | nested length fields, loops over options, TLVs, submessages | no read past the capture; every decode ends; layers fit together |
| generators, matchers, validator | none | build, match, validate | four computations of one checksum, nested lengths | what is built is decoded as built and validates |
| IPv4, SOME/IP-TP, TCP streams | fragments, segments, connections | add, complete, expire | loss, reordering, overlap, half-open connections | exact payload or none; data after a handshake |
| scenario parsers, runner, reports, `wadjet-run` | step, results, batch counters | parse, run, stop, report | early decisions, stop and exceptions between steps, deadlines | a verdict follows from what was executed; all counts agree |
| `LiveAssertSession`, `RecordSession`, fixture, `ReplaySession`, PCAP files | rules, buffers, file, position | run_*, record_*, save, load, replay | state left from earlier runs, full disk, lost stop | outcomes are justified; what is loaded was saved; calls return |
| C API and Rust crate | handles, thread-local message, callbacks | create, use, destroy; wrappers | error paths between two C calls, threads | one owner per handle; the right message; a live callback |
| `PcapCaptureSession`, devices, Python bindings | | | | not modelled, see 7 |

Interaction: a capture session (or a file) yields packets, the dispatcher
decodes them and the stream trackers keep what outlives a packet; DoIP and UDS
messages go to the diagnostic session manager, which drives the correlator and
is told of correlation events by a callback, or to a `UdsSessionManager`;
scenarios, live assertions and recordings sit on top of the packet source; the
C API wraps all of it for the Rust crate.

## 2. Plan

The order in which the system was taken up: the diagnostic core
(`RequestCorrelator`, `FlashSequence`, `DtcManager`, `DiagnosticSession` over
`RequestCorrelator`, `UdsSession`), the capture ring with the abstract
`PacketChannel` it implements, the decoding stack with generators and validator,
the stream trackers, scenarios, recordings, and the bindings. Every safety
property of a run is proved as well (section 5), except three that are
enumerations.

Still worth having, in this order:

1. GeneratedDecodes for payloads of any size: the invariant of
   `ProtocolDispatcher` with the fields of a built packet fixed by `content`.
2. `DtcManager` with the unlocked add_dtc in steps, so that its races with the
   locked methods are part of the model.
3. An abstract specification of a packet store that `Recordings` implements, as
   `PacketChannel` is for `CaptureSession`.

## 3. Modules

Definitions marked as fault variants are not part of a specification; each is a
plausible slip that one of the properties detects. Variables marked history or
auxiliary only record.

**Diagnostics**

* `RequestCorrelator` - one action per method of request_correlator.cpp;
  process_response is the three actions UnmatchedResponse, ResponsePending and
  FinalResponse, its three outcomes. The deques are one set of requests with
  link and arrival number; the order of a deque is the order of arrival. The
  variable `untracked` is auxiliary: it counts the moves the code's statistics
  leave out (evictions, clears, matches whose request stayed, requests carried
  over a reset of the statistics). `arrivals` and `received` number and bound
  the inputs. `Tick` is the clock. `MCRequestCorrelator` has its small
  instances, `RequestCorrelatorProofs` its theorems.
* `DiagnosticSession` - the session manager on top of an instance of
  `RequestCorrelator`. handle_uds_message is Request, PositiveResponse and
  NegativeResponse: each is an action of the correlator conjoined with the
  update of the session; `check_timeouts` and `reset` call the correlator's
  too, `reset_ecu` does not. process_doip_packet chooses among the DoIP types
  what becomes a diagnostic message or a routing activation. One `Tick` ages requests and sessions. `told`
  counts the events of the correlator that the manager's callback passes on.
  `MCDiagnosticSession` has its small instances, `DiagnosticSessionProofs` the
  theorems about it and about `DtcManager`.
* `FlashSequence` - one action per handler and management call of
  flash_sequence.cpp. Download and upload share `BeginTransfer` and
  `AcceptTransfer`, as the code's handlers have the same effect on what is
  modelled; process_negative_response and process_routine_control are split by
  the service or routine they are about.
* `DtcManager` - one action per method of dtc_manager.cpp; a read response is
  ReadList or, with snapshot or extended data, ReadRecord, which ends with the
  mutex held by a call that waits for it. The maps are unordered, so the
  operators for evicting and clearing give the set of possible outcomes; the two
  loops of enforce_limits (`EcuLoop`, `TotalLoop`) and the one over the codes of
  a response (`ListAdded`) are recursive functions of the number of rounds. A code
  that the limits evict while it is being added comes back as a default record
  under its key, as `operator[]` does. `view` is what a listener that follows
  the events believes stored; `evicted` is auxiliary. steady_clock is assumed
  to advance between two additions. `MCDtcManager` has its small instances.
* `UdsDecoder` - as operators, which parser a UDS message reaches and how many
  bytes it reads, for each service of uds_decoder.cpp, the sizes of the request
  types of uds_services.hpp, and both decoders and tests of uds_doip_decoder.cpp.
* `SecurityState` - levels, seeds, accepted and refused keys, lockout; the
  counter of refusals has its eight bits (`AttemptModulus`).
* `UdsSession` - sessions and their manager. A message is looked up under the
  manager's lock, decoded without a lock and applied under the session's lock,
  and other threads act in between; the S3 timeout is noticed only when it is
  read. `server` is the session the ECU itself is in, from its answers, the reset
  requests and S3; `untold` are the ECUs whose last change came with no event.
  A session that is removed while a message for it is decoded leaves a dangling
  reference, and what a listener is told from then on is arbitrary
  (`ApplyToRemoved`). `client` chooses in Init whether a behaviour is about the manager, a
  `SecurityState` used alone (the session itself never reports a refused key to
  it), the decoder on arbitrary bytes, or the decoder on what the test library
  builds.
* `UdsMatchers` - `UDSBuilder` of generators.hpp and the UDS matchers of
  matchers.hpp, as operators over the messages of `UdsDecoder`.

**Capture**

* `CaptureSession` - kernel, consumer thread and owner of an AF_PACKET session.
  A V2 ring is a ring of one-packet slots, a V3 ring one of blocks, and without a
  ring the slots are the receive queue of the socket; creation ends with one of
  the three or with an error and the destructor. The thread moves through the
  points of next_packet (socket, check, poll, recheck, extract, receive) and of capture_loop
  (entering, entered, test, callback, leaving) that another party can see
  between; the owner through those of the destructor (waiting, closing,
  unmapping, destroyed). A callback returns, stops the loop or throws past the
  end of it. The kernel actions are external and come from how
  capture_session.cpp uses the ring. `DestroyDuringEntry` says whether the
  owner may destroy a session that another thread is just entering.
* `PacketChannel` - what any live packet source promises: order, at most once,
  no loss except with a malformed packet in front. A packet carries its number
  of arrival and the channel is a set, so the order is that of the numbers.
  `CaptureSession` implements it under the mapping `Unread`, the packets in the
  ring that the consumer has not taken yet. `CaptureSessionProofs` proves it.

**Decoding.** `PacketGenerators` is the top of a chain of EXTENDS and the module
that is run.

* `DecodeContext` - one decode in progress: a span (`start`, `size`), the
  position of the running loop, how far it has read (`touched`). A field's value
  is chosen when it is read, from values on both sides of every comparison;
  `content` fixes the fields of a packet that was built.
* `TransportDecoders`, `ApplicationDecoders`, `MessageDecoders` - a decoder is
  an action that reads its fixed header and returns through "returned" with an
  error or a header size, or enters a loop; a loop body (option, SD entry, SD
  option, TLV, submessage, parameter) is an action of its own. 32-bit sums wrap
  at `Modulus`. The copies that the code sizes by a length field alone are
  recorded in `overread`.
* `ProtocolDispatcher` - decode, decode_from_ip and the discovery parsers start
  a decode; `Return` appends the layer, moves the span and calls the next
  decoder as dispatcher.cpp does.
* `Checksums`, `ProtocolValidator` - operators for the header checksum in the
  code's four places and for validateLayering, validateLengths and
  validateChecksums in both modes; `Generate` in `PacketGenerators` builds a
  packet as generators.hpp does and hands it to the dispatcher, and the matchers
  and the filters of a decode result are predicates on it.
* `PacketView` - the lazy accessors of packet_view.cpp as operators over a
  frame. DecodedStackValidates compares this second parser of the library with
  the dispatcher: both see the same transport header and payload, except behind
  two VLAN tags.

**Streams.** `FragmentReassembler`, `TpReassembler` and `TcpTracker`, one action
per method; senders cut datagrams and messages differently each time, repeat and
lose them. `PacketStreams` puts the three together: `traffic` chooses in Init
which of them a behaviour is about, as they share no state. The tracker itself
never opens a connection, so `CallerSetsState` is the caller's assignment
through the pointer it is given.

**Scenarios.** `ScenarioParser` - what both parsers make of a step document, and
what the matcher of an expect step compares. `ScenarioRunner` - parse, run step
by step, finish and report; `mode` is who runs the batch: a list of files, a
directory, `wadjet-run`, or a program that calls run_all, stops it from another
thread and whose callbacks may throw: with a text, without one, or out of run_all
where nothing catches it.

**Recordings.** `PcapFiles` - writer, reader and pcapng blocks as operators, a
full disk included. `Recordings` - one tool is in use at a time, the file stays
when the next is taken up; a call takes packets one by one until its condition
or its deadline. A block of pcapng that meets a full disk is cut short.

**Bindings.** `CApi` - every function that creates, destroys or can fail, by the
codes it returns, what it allocates and whether it leaves a message.
`RustBindings` - the wrappers, one C call per step, on several threads, with
drops, moves of values between threads and event callbacks. `references` are the
contexts of the closures given to on_event, with the counts of their owners;
an event runs the listeners one by one, in the thread that processes a message.

## 4. Runs

| Run | Checks | Instance |
|---|---|---|
| `correlator` | CompletedPairsSound, AnsweredOldestFirst, StatisticsBalance | two opposite links, two services, deques and history of two; 1.6 million states |
| `capture` | RingMappedWhileRead, RingInStep, ImplementsChannel, DestructorTerminates | both ring versions and none, every outcome of create, a destructor at any moment once the loop is entered or no call is in progress |
| `flash` | HistorySound, AcknowledgedInOrder, NoSequenceActiveForever | two ECUs, five messages or calls in any order |
| `dtc` | LimitsKept, EvictedOldestFirst, ListenerKnowsStored | two ECUs and three codes at a limit of two codes per ECU and three in all |
| `diagnostic` | NegativesForwarded, ListenerFollowsSessions, SessionsEnd, RequestsEnd | manager and correlator together; S3, timings and routing changed at any moment |
| `dispatch` | ReadsWithinCapture, LayersTile, GeneratedDecodes, DecodedStackValidates, DecodeReturns | captures of fourteen sizes, twelve values of length fields, generated packets with three payload sizes; about 420 000 states |
| `streams` | DeliveredAsSent, ArrivedBytesKept, DataAfterHandshake, HalfOpenEnds | datagrams of two to four units, messages of four bytes, two connections |
| `uds` | UnlockedByKey, ListenerInStep, LockedOutAfterThree, DecodedWithinMessage | one ECU, two levels, up to 255 refused keys; messages of up to 11 bytes, and 13 600 ways to build one |
| `scenario` | VerdictJustified, BatchCountsAgree, BatchEnds | two documents of two steps, two packets |
| `recordings` | OutcomeJustified, LoadedAsSaved, BlocksWellFormed, CallsReturn | two kinds and two sizes of packets, two rules, four blocks |
| `bindings` | HandlesOwnedOnce, MessageOfFailedCall, ClosureAlive | two threads, two handles, two registrations; 470 000 states up to symmetry |
| `validator_checksum` | BuiltChecksumAccepted, violated | the instance of `dispatch`: a packet with a correct header checksum is rejected |

The comment above each property says what it states and of which code. Type
invariants are kept in the modules (TypeOK, with a prefix where two modules are
extended together) and so are three plainer
invariants, DequesBounded, OutcomesCounted and QueriesAgree; they hold on the
instances of their components' runs and are not asked for there.

Two further configurations are kept beside the runs, as they need constants of
their own: `capture_entry_race` and `flash_erase_poll`, started like the runs
(`tlc -config flash_erase_poll.cfg FlashSequence`). The other statements of
section 6 are refuted on the instance of their component's run: put the named
definition in place of the INVARIANTS and PROPERTIES of that run's
configuration. NoRequestPendingForever of the correlator alone is the formula
that `diagnostic` checks through the manager as RequestsEnd.

**Bounds.** Correlator: three requests on deques of two reach eviction, an
expired request with a younger one behind it, and a fallback match; three
responses reach a match, a late answer and a second match; ages saturate one
tick above the largest timing, which is all the comparisons can see. Two
addresses and two services give a wrong link and a wrong service. Capture: two
slots and four packets wrap the ring, fill it and drop packets; blocks of two
have a first and a last packet; one empty block reaches the code that skips it.
Flash: five messages reach a reused sequence, two blocks with one counter and an
acknowledgement, the retry limit (lowered to 1) and, with the unbounded timeouts,
a history of more than its limit of two. Trouble codes: four calls, of which a
read response adds two codes, pass both limits, evict from the other ECU and
clear afterwards. Diagnostic session: two requests and two responses reach a
negative answer after a reset, an unlocked level in a session that times out,
and a late answer; several ECUs share nothing but the correlator, whose run has
several links, so one is enough.

Dispatch: the sizes end before, at and behind each header of the stacks; the
length values are the ones compared with (0, 1, minima and one below), one that
is too large and one, `Modulus` - 8, that wraps to 0 when 8 is added to it; two options and one entry enter, repeat and
leave the service-discovery loops; four layers meet the layer limit. Streams: a
datagram of four units has a first, a middle and a last fragment that can
overlap, two datagrams share one identification; five TCP segments open, break
off and reopen a connection. UDS: S3 of 0 and 1 expires at once or not; 255
refusals are the most the 8-bit counter can count, and the 256th no longer locks,
so the property ends there. Scenario: two files and two steps have one before
and one behind a failure, a stop or an exception; counts are met, exceeded and
missed with two packets. Recordings: sizes below and above what the reader
takes; two packets, one of them stored, pass the storage limit. Bindings: two
handles allow a value in the hands of each thread and a wrapper that holds two;
symmetry exchanges threads and handles, which the actions treat alike (liveness
is not checked there).

What these bounds leave out: StatisticsBalance counts a fallback match among the
`untracked` moves, so only MatchRateAtMostOne shows that its request stays
pending. Byte i of a SOME/IP-TP message has the value i, so two messages under
one id are not told apart (someip.cpp:202). HalfOpenEnds needs the bound on
segments: every repeated SYN refreshes last_seen (tcp.cpp:239), and an endless
stream of them keeps a connection half-open. LoadedAsSaved tries
microsecond files and allows the loss behind a frame that is too long.
CallsReturn excepts a stop before run and a modifier that skips every packet,
with which replay in a loop does not end. A block of statistics of an interface
that does not exist is allowed by BlocksWellFormed.

Deadlock is not checked where the inputs can be used up or a session is
destroyed: that is a legal end.

**Fairness.** Correlator, flash tracker and session manager: the clock runs and
the application calls check_timeouts again and again (nothing in the library
does); no message has to arrive. Capture: the thread inside a call and the
destructor are scheduled, poll returns within its finite timeout (100 ms by
default) and callbacks return. The kernel passes on finitely many empty blocks;
Linux restarts the timer of an empty block instead. An endless supply would keep
next_packet_v3 in its inner loop, which does not look at `running_`. Dispatch: a
decode in progress runs on. Streams: the clock runs and the caller polls
cleanup_expired. Scenario and recordings: the thread that runs goes on and its
deadline comes; no packet has to.

## 5. Proofs

The eight proof modules hold for every value of the constants that satisfies
the named assumptions of the modules they extend (sets of limits and sizes are
natural numbers, limits are positive, a null handle is none of the handles, the
16-bit addresses and 24-bit codes are finite sets); further hypotheses are named
below. A module that holds the proofs of two components extends both; their
variables are disjoint, and so are the theorems. Each proof follows one plan: an inductive
invariant, checked by TLC on the instance of the component's run before it was
proved, one lemma per action or group of actions with the same effect, and a
last temporal step. The lemmas before them state what the operators of the model
compute (what is appended, evicted, written or counted).

* `RequestCorrelatorProofs` - TypeCorrect, PairsSound, OldestFirst. The
  invariant adds `Numbered` (pending requests are finitely many, with distinct
  arrival numbers already given out), because the request a response takes is
  only known to be no younger than the others of its service; that it is older,
  and that new requests are younger than every completed one, follows from it.
  StatisticsAlwaysBalance turns the balance into an equation for the number of
  pending requests and follows that number through each operation with the
  cardinality theorems.
* `CaptureSessionProofs` - TypeCorrect, StaysInStep, MappedWhileRead, and
  RefinesChannel: the ring implements `PacketChannel`, for any number of slots,
  packets and packets per block. `InStep` says that for some n the first n slots
  from the consumer's position on are the user's and the kernel is behind them;
  `Ordered` that packets lie in ring order by their numbers, within a slot and
  from slot to slot; `Filled` and `InHand` how full a slot may be and what the
  consumer still has of the current one. The refinement maps Arrive to Capture, the
  extraction of a valid packet to Deliver, that of an invalid one to Discard,
  and everything else to a stutter. MappedWhileRead assumes
  `~DestroyDuringEntry`, the assumption of the run (section 6 has what happens
  without it), and adds `DestructorWaits`; the other three do without.
* `DecodingProofs`, the dispatcher - TypeCorrect, WithinCapture, Tiled, for captures
  of any size and any values of length fields, under Spec, in which every field
  is arbitrary; the run `dispatch` checks the same with generated packets
  in addition. `InSpan` bounds the span, the loop and the header of each
  decoder, `Answering` says whose loop is running, `Stack` that the layers are
  chained and the span starts behind the last one. A service-discovery header
  may be longer than the capture, if its length wraps (its size is computed
  without the wrap of the end it is compared with); it is the last layer, so nothing
  is decoded behind it.
* `UdsSessionProofs` - TypeCorrect, UnlockedNeedsKey, ListenerFollows with the
  session a message was looked up for (`FeedingKnown`), the type of the session
  being that of the ECU until S3 expires (`KeysFollow`) and what the listener
  cannot have heard (`NothingBelieved`) as strengthening. LockoutExact assumes
  `MaxRejections < AttemptModulus`: the counter of refused keys has eight bits,
  and the statement is false for the 256th refusal (hazard at
  uds_session.cpp:68).
* `FlashSequenceProofs` - TypeCorrect, HistoryIsSound, AcknowledgedAsSent, for
  any finite set of ECUs. The invariant makes the two properties part of the
  types: a sequence under way is acknowledged in order, and a filed one is that
  and over.
* `DecodingProofs`, the streams - DeliveredWhole, BytesKept, DataNeedsHandshake. For
  fragments: what an entry that has not expired holds is of the datagram being
  sent. For segments: the buffer of a message is a function of the
  segments that arrived (`Buffer`), and none reaches beyond its length.
* `DiagnosticSessionProofs`, the session manager - ListenerIsRight,
  NegativesPassedOn, DrivesCorrelator. `Listening` is inductive: the property,
  with the types of the sessions and of what was heard. `NegativesOK` adds that
  the ECU of every pending request has a session as long as none was dropped by
  reset_ecu; the callback looks the ECU up before handle_uds_message would create
  it, so without this a negative answer could be lost. DrivesCorrelator shows
  that every step of the manager is a step of `RequestCorrelator` or leaves it
  alone, so what `RequestCorrelatorProofs` proves holds inside the manager.
* `DiagnosticSessionProofs`, the trouble codes - LimitsAlwaysKept, OldestLeaveFirst,
  ListenerIsTold, QueriesAlwaysAgree, DtcTypesKept. The invariant `Sound` says
  that the map is well formed (typed, no record from the future, no two codes of an ECU
  first seen at the same time) and `Within` its limits; with room for a code of
  each ECU, also that every record is the one of its key (`OwnCodes`), that the
  listener knows it, and that it is newer than what was evicted (`NewerThan`).
  `Trimmed` is what enforce_limits may do to a map: only remove, in each ECU the
  oldest first. The three loops are followed by induction on their rounds, through
  a least counterexample (WFMin), which the library states without an operator
  parameter. The code just added would be evicted only from an ECU with one code
  that is the largest; then no ECU has two, and by a pigeonhole argument
  (`SomeHasTwo`) the total is at most the number of ECUs. `RoomForEach`
  (max_total_dtcs is at least that number) makes this impossible while the limit
  is exceeded. The hypothesis cannot be dropped: with max_total_dtcs = 1 and two ECUs, TLC refutes EvictedOldestFirst and
  ListenerKnowsStored, as the code just added is evicted and comes back as a
  default record (dtc_manager.cpp:485-489). The default limits are 10000 codes in all
  and 1000 per ECU.
* `TestToolsProofs`, the scenarios - VerdictIsJustified, BatchIsCounted. `EachCounted`:
  each file of a batch is still to be read, counted, or the one that runs;
  `ReportsAgree`: JSON and text show a failure from the first one counted, TAP
  and JUnit from the first one that was not cut short;
  `WayOut`: how a scenario comes to its verdict.
* `TestToolsProofs`, the recordings - FilesReadBack, BlocksAlwaysWellFormed,
  OutcomesJustified, for any number, kind and size of packets. `FileOK`: what a
  file holds of the packets given to its writer, and where a full disk cut it.
  `WriterOK`: the declared length of a block is its written one, by lemmas about
  the padding arithmetic, and the writer's number of interfaces is that of the interface
  blocks written. `CallOK`: what a call under way has counted and which rules it has
  marked (`MarksSeen`, `Waiting`), so that its outcome is earned when it returns.
* `RustBindingsProofs` - TypeCorrect, OwnedOnce, MessageIsOwn and
  ClosuresStayAlive, for any number of threads and handles.
  `WrapperPhase` and `MessagePhase` say what a thread's position in a wrapper
  implies for the handle and the message it has, `EventPhase` that a thread that
  delivers an event owns a live manager and has no more listeners to call than
  were registered, and `ContextCounts` that the latest context has an owner in
  the C library besides the one in the crate, so that dropping the latter, as the
  next on_event does, frees nothing.

Only model-checked:

* every liveness property (DestructorTerminates, DecodeReturns,
  NoSequenceActiveForever, HalfOpenEnds, BatchEnds, CallsReturn, SessionsEnd,
  RequestsEnd): fairness is out of the prover's reach;
* GeneratedDecodes, DecodedStackValidates and DecodedWithinMessage: enumerations
  of what is built, by table lookups and sums over sequences that
  TLC evaluates and the prover's backends do not.

## 6. What disagrees with the repository's own words

Refuted by TLC, with the definition and the instance that show it:

* validation.hpp:105-108 has validateChecksums check the IPv4 header checksum;
  it sums the header with the checksum in it and compares the complement with
  the checksum, so a correct header is an error (BuiltChecksumAccepted, run `validator_checksum`).
* request_correlator.hpp:299 gives the match rate as 0.0 - 1.0; a fallback match
  leaves its request pending and the rate exceeds 1 (MatchRateAtMostOne, run `correlator`).
* capture_session.cpp:80-81 says the destructor waits so that the capture thread
  never reads unmapped memory; it does not see a loop that is just being entered
  (RingMappedWhileRead with `capture_entry_race`).
* flash_sequence.cpp:345 calls RequestRoutineResults a progress check; it
  replaces the tracked erase (PollKeepsErase with `flash_erase_poll`).
* dtc_manager.hpp:212 has the class store snapshot and extended data; the read
  response that brings them never returns (MutexFreeBetweenCalls, run `dtc`).
* docs/protocols/uds_doip.md:222 lists the event ResponseTimeout; no callback
  ever gets it, nor ResponsePending, because the correlator reports both without
  a pair (TimeoutsForwarded, run `diagnostic`).
* specs/011-uds-doip-integration/spec.md:113 says the manager must emit
  SessionStarted; update_session_state sets session_active before it tests it
  (diagnostic_session.cpp:290, :300), so the event is never sent and a default
  session that becomes active goes unreported (StartsTold, run `diagnostic`).
* uds_session.hpp:142 has SessionEnded sent on a timeout; a timeout is only
  computed on reading and never sent (TimeoutReported, run `uds`).
* uds_session.hpp:135 calls a session whose S3 expired timed out; the next answer
  of the same type makes it active again with the security levels of the session
  that is over, as nothing is reset (uds_session.cpp:251, :381;
  LockedAfterTimeout, run `uds`).
* uds_session.hpp:141 gives SessionChanged as the event of a changed type;
  force_session_type, which locks every level, and remove_session send none
  (EveryChangeTold, run `uds`).
* uds_session.hpp:233 has timeout_remaining give the time before the timeout; it
  is 0 at the moment at which is_timed_out is still false (NoTimeNotActive, run
  `uds`).
* test_tcp_state.cpp:242 says a reset is received in any state and closes; in
  SynReceived a reset with ACK completes the handshake (tcp.cpp:297-298;
  ResetNeverConnects, run `streams`).
* capture_session.cpp:80-82 has the destructor wait for the loop to leave; an
  exception of the callback leaves it past the statement that clears the flag
  (:487, :492), and the wait never ends (DestructorAlwaysTerminates, run
  `capture`).
* scenario_types.hpp:284 says required is "Fail scenario if not met"; the runner
  never looks at it, and an optional expectation fails the scenario as well
  (runner.cpp:363-368; OptionalNeverFails, run `scenario`).
* specs/004-test-automation/spec.md:130 wants the exit code non-zero on any
  failure; wadjet-run goes on after a file that does not parse and returns 0 if
  the others pass (wadjet-run.cpp:264, :358; ParseFailureFails, run `scenario`).
* scenario_types.hpp:336 has pcap_file name the packets saved on a failure;
  the name is there even if the file could not be created (runner.cpp:541-549;
  NamedIsSaved, run `scenario`).
* live_assert.hpp:258 wants a packet to match within the run; without a reset a
  second run passes by the mark of the first (MetInThisRun, run `recordings`).
* diagnostic.rs:606 says that one callback is registered at a time and the next
  replaces it; n registrations deliver an event n times to the latest
  (wadjet_c.cpp:1384; DeliveredOnce, run `bindings`). The replaced contexts are
  never freed, as nothing takes back what Arc::into_raw gave away.
* ipv4.hpp:166 says the reassembler handles overlapping fragments; with an
  overlap the offsets no longer add up and a datagram whose bytes have all
  arrived waits for its timeout (OverlapsHandled, run `streams`).
* scenario_types.hpp:267 says protocol expectations are checked if present;
  several fields (addresses, UDS, DoIP addresses) are not compared by
  ExpectStepMatcher, and the UDS ones not parsed (ExpectationsChecked, run `scenario`).

PassedIsExecuted (run `scenario`) shows that a callback's exception with an empty
text passes the scenario it cut short (runner.cpp:357-362), and
EveryReportShowsFailure (run `scenario`) that TAP and the JUnit test cases show no
failure of a scenario that was stopped or threw, as they list its expectations
(report.cpp:381-394, :168-183).
StatisticsHaveInterface (run `recordings`) shows a block of statistics without the
block of its interface, which write_statistics does not ask for
(pcapng_writer.cpp:97-161).
LayersCaptured (run `dispatch`) shows a decode that succeeds with a
service-discovery header behind the end of the capture: an entries length of
2^32 - 8 or more passes the check at someip_sd.cpp:223, and dispatcher.cpp:238
then takes a subspan past the end, which is undefined.
HandedOutWhole (run `streams`) shows that get_message of the SOME/IP-TP reassembler hands
out a message with holes if the last segment comes first.
DescriptorClosedOnce (run `capture`) shows that a create that fails after opening its socket
closes the same descriptor twice, in create and in the destructor of the local
object (capture_session.cpp:119 and :132, then :89); in between the number may
belong to another file of the process.

Seen while modelling, without a definition that states them: three reads past the
captured bytes (gptp_decoder.cpp:423 reads two bytes more than it tests,
rtps_decoder.cpp:408 and someip.cpp:192 copy by a length field); validation.hpp:95
promises a check for overlaps that lengths do not get, and the UDP and TCP
checksum checks of validation.cpp:261-290 sum only the pseudo header; a failed
service-discovery decode sets no error and leaves the payload at the SOME/IP
header; an ECU at address 0 escapes the limit over all trouble codes
(dtc_manager.cpp:589); pcap_reader.cpp:136 takes a long frame for the end of the
file; a YAML file that cannot be read passes as an empty scenario
(json_parser.cpp:548); a Rust error of process() carries the message of an
earlier call or none (wadjet_c.cpp:1427); a negative response
that answers a request is reported twice, once with its pair and once without
(diagnostic_session.cpp:91 and :263); DTCsCleared and DTCsRead wait for parsed
responses that the UDS decoder never produces (uds_decoder.cpp:144-178);
PacketView finds no IPv4 header behind two VLAN tags although l3_offset skips
both (packet_view.cpp:55-123); wadjet_mac_from_string and
wadjet_ipv4_from_string have an error path that no text reaches
(wadjet_c.cpp:980-1036); the destructor of a moved-from `PcapCaptureSession`
dereferences a null impl_ (pcap_capture_session.cpp:28-38, :161-167) and the
error paths of its create close the handle twice, but nothing uses the class.

## 7. Not modelled

* `PcapCaptureSession`: a session cannot be created and moved to its user, since
  the destructor of the moved-from object calls stop() on a null impl_.
* Devices, frame filters, time stamps and value types: queries of the system and
  values, without state that changes.
* Python bindings: declarations for pybind11.
* `TimeoutManager` and the checksum helpers that no other code of the library calls;
  the diagnostic matchers and the matchers that compare one more field of a
  header; corrupted_ipv4_packet, which takes the bytes of
  a packet for a vector object.
* The validate functions of the C API, which write a result over the storage of
  the caller's handle: what follows is undefined. The bytes that
  DecodeResult::payload_after of the Rust crate borrows (decode.rs:1529).
* Of `CaptureSession`: filters, stats(), time stamping and moves. Of the correlator and the flash tracker: the
  callbacks, which change none of their state; what an application's callback
  does under the locks it is called with. Of the DTC manager: counters, the
  event of a changed count, and races with the unlocked add_dtc. Of the session
  manager: counters, ECU identification, the routing flag, events that only
  name a service, and disabled options. Of the TCP tracker:
  sequence numbers, which steer no transition, and is_retransmission. Of the
  decoders: values that decide nothing. Of replay: delays and speed.
* References and pointers into locked maps that methods return after unlocking
  (get_active_sequence): their lifetime is the caller's. process_message of
  `UdsSessionManager`, which uses such a reference itself, is modelled with it.
* Formatting, logging and durations everywhere.
