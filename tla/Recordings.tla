----------------------------- MODULE Recordings -----------------------------
(***************************************************************************)
(* The tools that capture for a test and leave a file (LiveAssertSession,  *)
(* RecordSession, LiveCaptureTestFixture), and those that take one up      *)
(* again (RecordSession::load_from_pcap, ReplaySession, copy_packets).     *)
(*                                                                         *)
(* One tool is in use at a time; the file stays when the next one is       *)
(* taken up.  The capture behind a call is modelled in CaptureSession: here *)
(* it opens or not, and delivers packets until the deadline.  A rule or a  *)
(* stop condition is the set of the kinds of packets it matches.           *)
(***************************************************************************)
EXTENDS PcapFiles, FiniteSets

CONSTANTS
    Kinds,        \* kinds of packets
    Sizes,        \* sizes of packets
    MaxRules,     \* bound on the rules of an assertion session
    MaxKept,      \* bound on the packets a tool has seen
    MaxStored,    \* max_stored_packets
    MaxBlocks     \* bound on the blocks and interfaces of a PCAPNG file

ASSUME RecordingsAssumption ==
    /\ Sizes \subseteq Nat
    /\ MaxRules \in Nat /\ MaxKept \in Nat /\ MaxStored \in Nat /\ MaxBlocks \in Nat

VARIABLES
    tool,      \* the tool in use
    rules,     \* rules_ of a LiveAssertSession
    open,      \* session_ of the fixture is there
    call,      \* the call that waits for packets
    taken,     \* history: packets of this call
    kept,      \* captured_packets_ or stream_
    outcome,   \* what the last call returned
    file,      \* the PCAP file
    saved,     \* history: the packets that were given to the writer
    loaded,    \* history: what was read from the file, or nothing was
    replay,    \* the state of a ReplaySession
    ng         \* the state of a PcapngWriter

recordingVars == <<tool, rules, open, call, taken, kept, outcome, file, saved, loaded, replay, ng>>

toolVars == <<rules, open, call, taken, kept, outcome>>
diskVars == <<file, saved, loaded>>

Deliverable == [kind : Kinds, size : Sizes, time : {1500}]

NoCall == [name |-> "none"]
NoOutcome == [name |-> "none"]
NoFile == [header |-> [known |-> FALSE], records |-> <<>>, cut |-> FALSE]
Nothing == [read |-> FALSE, packets |-> <<>>]
NoReplay == [state |-> "none"]
NoWriter == [state |-> "none", blocks |-> <<>>, interfaces |-> 0, failed |-> FALSE]

RecordingInit ==
    /\ tool \in {"assert", "record", "fixture", "replay", "convert"}
    /\ rules = <<>> /\ open = FALSE /\ call = NoCall /\ taken = <<>>
    /\ kept = <<>> /\ outcome = NoOutcome
    /\ file = NoFile /\ saved = <<>> /\ loaded = Nothing
    /\ replay = NoReplay /\ ng = NoWriter

Idle(name) == tool = name /\ call = NoCall /\ replay.state # "running"

------------------------------------------------------------------------------
(* LiveAssertSession *)

\* AssertionRule::check
Holds(rule, p) ==
    CASE rule.type = "all" -> p.kind \in rule.kinds
      [] rule.type = "never" -> p.kind \notin rule.kinds
      [] rule.type = "when" -> p.kind \in rule.condition => p.kind \in rule.kinds
      [] rule.type = "within" -> TRUE

\* check_packet: the rules before the first that fails mark what they find.
CheckPacket(rs, p) ==
    LET failing == {i \in DOMAIN rs : ~Holds(rs[i], p)}
        marked(i) == rs[i].type = "within" /\ p.kind \in rs[i].kinds /\ \A j \in failing : i < j
    IN [passed |-> failing = {},
        rules |-> [i \in DOMAIN rs |-> [rs[i] EXCEPT !.satisfied = @ \/ marked(i)]]]

Satisfied(rs) == \A i \in DOMAIN rs : rs[i].type = "within" => rs[i].satisfied

\* assert_all, assert_never, when and expect_within
AddRule ==
    /\ Idle("assert") /\ Len(rules) < MaxRules
    /\ \E type \in {"all", "never", "when", "within"}, k \in Kinds, c \in Kinds :
        rules' = Append(rules, [type |-> type, kinds |-> {k}, satisfied |-> FALSE,
                                condition |-> IF type = "when" THEN {c} ELSE {}])
    /\ outcome' = NoOutcome
    /\ UNCHANGED <<tool, open, call, taken, kept, diskVars, replay, ng>>

\* A reset that forgets the packets only.
ResetPackets ==
    /\ Idle("assert")
    /\ kept' = <<>>
    /\ outcome' = NoOutcome
    /\ UNCHANGED <<tool, rules, open, call, taken, diskVars, replay, ng>>

\* LiveAssertSession::reset
Reset ==
    /\ Idle("assert")
    /\ kept' = <<>>
    /\ rules' = [i \in DOMAIN rules |-> [rules[i] EXCEPT !.satisfied = FALSE]]
    /\ outcome' = NoOutcome
    /\ UNCHANGED <<tool, open, call, taken, diskVars, replay, ng>>

------------------------------------------------------------------------------
(* Files *)

\* save_failure_trace, save_to_pcap and save_pcap: the file is truncated, and
\* a disk that is full may show when a packet is written or when the stream
\* is flushed as it is closed, which nobody looks at.
Save(packets, result) ==
    /\ saved' = packets
    /\ \E written \in 0..Len(packets) :
        /\ written = Len(packets) => result
        /\ file' = WriteAll(NewFile(FALSE), packets, written)
    /\ loaded' = Nothing

\* save_failure_trace: nothing is saved unless it was asked for, there are
\* packets and the file can be created.
SaveTrace(packets) ==
    \/ packets # <<>> /\ \E result \in BOOLEAN : Save(packets, result)
    \/ UNCHANGED diskVars

\* save_to_pcap; a file that cannot be created is FALSE too.
SaveToPcap ==
    /\ Idle("record")
    /\ \E result \in BOOLEAN :
        /\ outcome' = [name |-> "save", result |-> result]
        /\ \/ Save(kept, result)
           \/ ~result /\ UNCHANGED diskVars
    /\ UNCHANGED <<tool, rules, open, call, taken, kept, replay, ng>>

\* load_from_pcap replaces the stream, unless the file does not open.
LoadFromPcap ==
    /\ Idle("record")
    /\ \/ /\ Opens(file)
          /\ kept' = ReadAll(file)
          /\ loaded' = [read |-> TRUE, packets |-> ReadAll(file)]
          /\ outcome' = [name |-> "load", result |-> TRUE]
       \/ /\ ~Opens(file)
          /\ outcome' = [name |-> "load", result |-> FALSE]
          /\ UNCHANGED <<kept, loaded>>
    /\ UNCHANGED <<tool, rules, open, call, taken, file, saved, replay, ng>>

\* RecordSession::clear and get_stream, which moves the packets away.
EmptyStream ==
    /\ Idle("record")
    /\ kept' = <<>>
    /\ outcome' = NoOutcome
    /\ UNCHANGED <<tool, rules, open, call, taken, diskVars, replay, ng>>

------------------------------------------------------------------------------
(* LiveCaptureTestFixture *)

\* SetUp: a session that cannot be created, filtered or started fails the
\* test, whose body is then not run.
SetUp ==
    /\ Idle("fixture") /\ ~open
    /\ \/ open' = TRUE /\ kept' = <<>>
       \/ UNCHANGED <<open, kept>>
    /\ outcome' = NoOutcome
    /\ UNCHANGED <<tool, rules, call, taken, diskVars, replay, ng>>

\* TearDown: the packets of a test that failed are saved.
TearDown ==
    /\ Idle("fixture") /\ open
    /\ SaveTrace(kept)
    /\ open' = FALSE /\ kept' = <<>>
    /\ outcome' = NoOutcome
    /\ UNCHANGED <<tool, rules, call, taken, replay, ng>>

\* store_packet keeps the first packets.
Store(packets, p) ==
    IF tool = "fixture" /\ Len(packets) >= MaxStored THEN packets ELSE Append(packets, p)

------------------------------------------------------------------------------
(* Calls that wait for packets *)

Names(t) ==
    CASE t = "assert" -> {"run_for", "run_until"}
      [] t = "record" -> {"record_for", "record_until"}
      [] t = "fixture" -> {"collect_packets", "collect_until", "wait_for_packet"}
      [] OTHER -> {}

\* record_n_matching stops at its n-th match, the others at the first; a call
\* for a duration does not stop.
StopConditions(name) ==
    CASE name \in {"run_for", "record_for", "collect_packets"} -> [kinds : {{}}, count : {1}]
      [] name = "record_until" -> [kinds : {{k} : k \in Kinds}, count : 0..2]
      [] OTHER -> [kinds : {{k} : k \in Kinds}, count : {1}]

\* A call opens its own session, the fixture has one; it may fail.  History:
\* a fresh call is the first to see packets since the tool was made or reset.
BeginCall ==
    /\ \E t \in {"assert", "record", "fixture"} : Idle(t)
    /\ tool = "fixture" => open
    /\ \E name \in Names(tool) :
        \/ /\ \E stop \in StopConditions(name) :
                call' = [name |-> name, stop |-> stop, matches |-> 0, fresh |-> kept = <<>>]
           /\ outcome' = NoOutcome
        \/ /\ tool # "fixture"
           /\ outcome' = [name |-> name, result |-> FALSE]
           /\ UNCHANGED call
    /\ taken' = <<>>
    /\ UNCHANGED <<tool, rules, open, kept, diskVars, replay, ng>>

\* A call returns; an assertion session that failed saves its trace.
Return(result) ==
    /\ call' = NoCall
    /\ outcome' = [name |-> call.name, stop |-> call.stop, fresh |-> call.fresh,
                   result |-> result, rules |-> rules']
    /\ IF tool = "assert" /\ ~result THEN SaveTrace(kept') ELSE UNCHANGED diskVars

\* The stop condition, asked of every packet.
StopMet(c, p) ==
    c.stop.kinds # {} /\ c.matches + (IF p.kind \in c.stop.kinds THEN 1 ELSE 0) >= c.stop.count

\* Neither a rule nor the fixture looks at a packet's size.
Frames == IF tool = "record" THEN Deliverable ELSE {p \in Deliverable : p.size <= ReaderLimit}

\* next_packet delivers: the packet is stored, checked, and asked whether it
\* ends the call.
PacketArrives ==
    /\ call # NoCall /\ Len(taken) < MaxKept /\ Len(kept) < MaxKept
    /\ \E p \in Frames :
        LET check == IF tool = "assert" THEN CheckPacket(rules, p)
                     ELSE [passed |-> TRUE, rules |-> rules]
        IN /\ taken' = Append(taken, p)
           /\ kept' = Store(kept, p)
           /\ rules' = check.rules
           /\ \/ ~check.passed /\ Return(FALSE)
              \/ /\ check.passed /\ StopMet(call, p)
                 /\ Return(tool = "assert" => Satisfied(rules'))
              \/ /\ check.passed /\ ~StopMet(call, p)
                 /\ call' = [call EXCEPT !.matches =
                                 @ + (IF p.kind \in call.stop.kinds THEN 1 ELSE 0)]
                 /\ UNCHANGED <<outcome, diskVars>>
    /\ UNCHANGED <<tool, open, replay, ng>>

\* The deadline: a call that waited for a condition has failed.
DeadlinePasses ==
    /\ call # NoCall
    /\ UNCHANGED <<rules, kept>>
    /\ \/ call.name = "run_for" /\ Return(Satisfied(rules))
       \/ call.name \in {"record_for", "collect_packets"} /\ Return(TRUE)
       \/ call.name \in {"run_until", "record_until", "collect_until", "wait_for_packet"}
          /\ Return(FALSE)
    /\ UNCHANGED <<tool, open, taken, replay, ng>>

------------------------------------------------------------------------------
(* ReplaySession *)

ReplayOptions == [loop : BOOLEAN, iterations : {0, 2}, packets : {0, 2}]

\* load_packets, init_socket: packets_ is cut to max_packets.
CreateReplay ==
    /\ Idle("replay") /\ Opens(file) /\ ReadAll(file) # <<>>
    /\ \E o \in ReplayOptions :
        LET all == ReadAll(file)
            count == IF o.packets = 0 THEN Len(all) ELSE Smaller(o.packets, Len(all))
        IN replay' = [state |-> "ready", options |-> o, packets |-> SubSeq(all, 1, count),
                      at |-> 1, iteration |-> 0, total |-> 0, sent |-> 0, running |-> FALSE,
                      asked |-> FALSE]
    /\ loaded' = [read |-> TRUE, packets |-> ReadAll(file)]
    /\ UNCHANGED <<tool, toolVars, file, saved, ng>>

\* run begins.
RunReplay ==
    /\ Idle("replay") /\ replay.state = "ready"
    /\ replay' = [replay EXCEPT !.state = "running", !.running = TRUE, !.at = 1,
                                !.iteration = 0, !.total = 0, !.sent = 0, !.asked = FALSE]
    /\ UNCHANGED <<tool, toolVars, diskVars, ng>>

InPass == replay.state = "running" /\ replay.running /\ replay.at <= Len(replay.packets)

\* send_packet: a frame shorter than an Ethernet header is not sent.
Sendable(p) == p.size >= 14

\* One turn of the loop over the packets: skipped by the modifier, or sent
\* or failed, counted, and the last one allowed or not.
ReplayPacket ==
    /\ InPass
    /\ \E skipped, failed, goOn \in BOOLEAN :
        /\ skipped => goOn /\ failed
        /\ ~Sendable(replay.packets[replay.at]) => failed
        /\ LET total == IF skipped THEN replay.total
                        ELSE Smaller(replay.total + 1, 2 * MaxKept)
               limit == replay.options.packets
           IN replay' = [replay EXCEPT
                           !.at = @ + 1, !.total = total,
                           !.sent = IF failed THEN @ ELSE Smaller(@ + 1, 2 * MaxKept),
                           !.running = goOn /\ (~skipped /\ limit > 0 => total < limit)]
    /\ UNCHANGED <<tool, toolVars, diskVars, ng>>

\* A loop that a stop only takes out of its pass.
GoesOnWhenStopped(r) == r.options.loop

\* The condition of the outer loop.
GoesOn(r) == r.options.loop /\ r.running

\* The end of a pass, and of run.
PassDone ==
    /\ replay.state = "running" /\ ~InPass
    /\ LET o == replay.options
           iteration == Smaller(replay.iteration + 1, 2)
           over == (o.iterations > 0 /\ iteration >= o.iterations) \/ ~GoesOn(replay)
       IN replay' = [replay EXCEPT !.iteration = iteration, !.at = 1,
                                   !.state = IF over THEN "ready" ELSE "running",
                                   !.running = @ /\ ~over]
    /\ UNCHANGED <<tool, toolVars, diskVars, ng>>

\* stop, from another thread or a signal handler.
StopReplay ==
    /\ replay.state = "running"
    /\ replay' = [replay EXCEPT !.running = FALSE, !.asked = TRUE]
    /\ UNCHANGED <<tool, toolVars, diskVars, ng>>

------------------------------------------------------------------------------
(* copy_packets into a PcapngWriter *)

\* What a full disk may leave of a block: nothing, or its beginning.
Leaves(b) == {<<>>} \cup {<<[b EXCEPT !.written = k]>> : k \in {1, b.declared - 1}}

\* Blocks that reach the disk.  The stream is buffered, so no call need see
\* where the disk was full; nothing is written after that place.
Written(blocks) ==
    \E n \in 0..Len(blocks) :
        \E rest \in IF n = Len(blocks) THEN {<<>>} ELSE Leaves(blocks[n + 1]) :
            /\ ng.failed => n = 0 /\ rest = <<>>
            /\ ng' = [ng EXCEPT !.state = "open",
                                !.blocks = @ \o (SubSeq(blocks, 1, n) \o rest),
                                !.interfaces = @ + Cardinality({i \in DOMAIN blocks :
                                                                  blocks[i].type = "interface"}),
                                !.failed = @ \/ n < Len(blocks)]

\* PcapngWriter::create
CreateWriter ==
    /\ Idle("convert") /\ ng.state = "none"
    /\ Written(<<SectionBlock(<<11, 11>>)>>)
    /\ UNCHANGED <<tool, toolVars, diskVars, replay>>

WriterOpen ==
    /\ Idle("convert") /\ ng.state = "open"
    /\ Len(ng.blocks) < MaxBlocks /\ ng.interfaces < MaxBlocks

\* add_interface; its id is given even if its block could not be written.
AddInterface ==
    /\ WriterOpen
    /\ Written(<<InterfaceBlock(<<4, 1>>)>>)
    /\ UNCHANGED <<tool, toolVars, diskVars, replay>>

\* write_enhanced_packet_block: the first packet adds a default interface.
BlocksOfPacket(p, id, comment) ==
    (IF ng.interfaces = 0 THEN <<InterfaceBlock(<<7, 1>>)>> ELSE <<>>)
    \o <<PacketBlock(p, id, comment)>>

\* write_packet; an interface that was not added is an error, with the
\* default interface written nonetheless.
WritePacketBlock ==
    /\ WriterOpen
    /\ \E p \in Deliverable, id \in 0..2, comment \in {<<>>, <<5>>} :
        LET blocks == BlocksOfPacket(p, id, comment)
            known == id < ng.interfaces + Len(blocks) - 1
        IN Written(IF known THEN blocks ELSE SubSeq(blocks, 1, Len(blocks) - 1))
    /\ UNCHANGED <<tool, toolVars, diskVars, replay>>

\* write_statistics, for any interface, added or not: one that was not is
\* read from beyond the vector, for the unit of the time only.
WriteStatistics ==
    /\ WriterOpen
    /\ \E id \in 0..2 : Written(<<StatisticsBlock(id)>>)
    /\ UNCHANGED <<tool, toolVars, diskVars, replay>>

\* copy_packets: the packets of the file, until one cannot be written.
CopyPackets ==
    /\ WriterOpen /\ Opens(file)
    /\ Len(ng.blocks) + Len(ReadAll(file)) < MaxBlocks
    /\ \E max \in 0..Len(ReadAll(file)) :
        LET all == IF max = 0 THEN ReadAll(file) ELSE SubSeq(ReadAll(file), 1, max)
        IN Written(IF all = <<>> THEN <<>>
                   ELSE BlocksOfPacket(all[1], 0, <<>>)
                        \o [i \in 1..(Len(all) - 1) |-> PacketBlock(all[i + 1], 0, <<>>)])
    /\ loaded' = [read |-> TRUE, packets |-> ReadAll(file)]
    /\ UNCHANGED <<tool, toolVars, file, saved, replay>>

------------------------------------------------------------------------------
\* The next tool is taken up; a test that captures anew has no file yet.
TakeUp ==
    /\ Idle(tool) /\ ~open
    /\ tool' \in {"assert", "record", "fixture", "replay", "convert"}
    /\ rules' = <<>> /\ taken' = <<>> /\ kept' = <<>> /\ outcome' = NoOutcome
    /\ replay' = NoReplay /\ ng' = NoWriter /\ loaded' = Nothing
    /\ IF tool' \in {"assert", "fixture"} THEN file' = NoFile /\ saved' = <<>>
       ELSE UNCHANGED <<file, saved>>
    /\ UNCHANGED <<open, call>>

RecordingNext ==
    \/ AddRule \/ Reset \/ SaveToPcap \/ LoadFromPcap \/ EmptyStream \/ SetUp \/ TearDown
    \/ BeginCall \/ PacketArrives \/ DeadlinePasses
    \/ CreateReplay \/ RunReplay \/ ReplayPacket \/ PassDone \/ StopReplay
    \/ CreateWriter \/ AddInterface \/ WritePacketBlock \/ WriteStatistics \/ CopyPackets
    \/ TakeUp

RecordingSpec == RecordingInit /\ [][RecordingNext]_recordingVars

\* Time passes, and the replaying thread goes on.
RecordingFairSpec ==
    /\ RecordingSpec
    /\ WF_recordingVars(DeadlinePasses)
    /\ WF_recordingVars(ReplayPacket \/ PassDone)

------------------------------------------------------------------------------
(* Properties *)

\* A run of a LiveAssertSession passes only if each of its packets met every
\* rule and each expectation was met by one of its packets or, where packets
\* were seen since the last reset, by one of those; a call with a stop
\* condition succeeds only if its last packet was the one to stop at, and no
\* packet before it (run_for, run_until, record_until, record_n_matching,
\* wait_for_packet).
OutcomeJustified ==
    (outcome # NoOutcome /\ outcome.name \notin {"save", "load"} /\ outcome.result) =>
            /\ tool = "assert" =>
                 /\ \A i \in DOMAIN taken, j \in DOMAIN outcome.rules :
                        Holds(outcome.rules[j], taken[i])
                 /\ \A j \in DOMAIN outcome.rules :
                        outcome.rules[j].type = "within" =>
                            LET seen == IF outcome.fresh THEN taken ELSE kept
                            IN \E i \in DOMAIN seen : seen[i].kind \in outcome.rules[j].kinds
            /\ outcome.stop.kinds # {} =>
                 LET matches(n) == Cardinality({i \in 1..n : taken[i].kind \in outcome.stop.kinds})
                 IN /\ taken # <<>>
                    /\ matches(Len(taken)) >= outcome.stop.count
                    /\ \A n \in 1..(Len(taken) - 1) : matches(n) < outcome.stop.count

\* What expect_within says, "at least one packet must match within the run",
\* of every run: a run without a reset passes by the mark that a packet of
\* an earlier one left (mark_satisfied).
MetInThisRun ==
    (outcome # NoOutcome /\ outcome.name \in {"run_for", "run_until"} /\ outcome.result) =>
        \A j \in DOMAIN outcome.rules :
            outcome.rules[j].type = "within" =>
                \E i \in DOMAIN taken : taken[i].kind \in outcome.rules[j].kinds

\* What is read from a file is what was given to the writer, in order, with
\* the times to the microsecond; it ends early only where the disk was full
\* or a frame is longer than the reader takes (PcapWriter, PcapReader).
LoadedAsSaved ==
    loaded.read =>
        LET n == Len(loaded.packets)
        IN /\ n <= Len(saved)
           /\ \A i \in 1..n :
                /\ loaded.packets[i].kind = saved[i].kind
                /\ loaded.packets[i].size = saved[i].size
                /\ loaded.packets[i].time <= saved[i].time
                /\ saved[i].time - loaded.packets[i].time < 1000
           /\ n < Len(saved) => file.cut \/ saved[n + 1].size > ReaderLimit

InterfacesBefore(i) == Cardinality({j \in 1..(i - 1) : ng.blocks[j].type = "interface"})

\* Each block of a PCAPNG file declares whole words and has the length it
\* declares, but for the last one where the disk was full, which is shorter;
\* the block of a packet comes after that of its interface, though the
\* interface counts even if its block was lost (PcapngWriter).
BlocksWellFormed ==
    \A i \in DOMAIN ng.blocks :
        LET b == ng.blocks[i]
        IN /\ b.declared % 4 = 0
           /\ \/ b.written = b.declared
              \/ b.written < b.declared /\ ng.failed /\ i = Len(ng.blocks)
           /\ b.type = "packet" => b.interface < InterfacesBefore(i)

\* The same of the blocks of statistics, which write_statistics writes for
\* interfaces that were never added, and before there is one.
StatisticsHaveInterface ==
    \A i \in DOMAIN ng.blocks :
        ng.blocks[i].type = "statistics" => ng.blocks[i].interface < InterfacesBefore(i)

\* Every call returns at its deadline, however many packets come; a replay
\* that does not loop, whose passes are limited, or that was stopped, ends.
CallsReturn ==
    /\ (call # NoCall) ~> (call = NoCall)
    /\ (replay.state = "running"
        /\ (replay.asked \/ ~replay.options.loop \/ replay.options.iterations > 0))
       ~> (replay.state # "running")

==============================================================================
