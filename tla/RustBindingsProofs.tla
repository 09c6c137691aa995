------------------------- MODULE RustBindingsProofs -------------------------
(***************************************************************************)
(* Proofs about the Rust crate over the C interface, for any number of     *)
(* threads and handles.                                                    *)
(***************************************************************************)
EXTENDS RustBindings, TLAPS

\* The steps in which the wrapper itself holds a handle in a local.
LocalSteps == {"filter", "filtered", "listing"}

\* What a thread's position in its wrapper says of the code and the handles it
\* has: an idle thread waits for nothing, and a call that failed gave nothing.
WrapperPhase ==
    \A t \in Threads :
        /\ at[t] = "idle" => returned[t] = NoReturn
        /\ at[t] \notin LocalSteps => local[t] = NoHandle
        /\ at[t] \in {"method", "optional", "process", "filtered"} => returned[t].handle = NoHandle
        /\ at[t] \in {"filter", "listing"} =>
             returned[t].code = "OK" /\ returned[t].handle \in {local[t], NoHandle}
        /\ returned[t].code # "OK" => returned[t].handle = NoHandle

\* The message slot of a thread holds what that thread wrote, and while a
\* wrapper is about to look at a code that check_error turns into that
\* message, the call with this code was the last to write it.
MessagePhase ==
    \A t \in Threads :
        /\ lastError[t].by \in {t, "nobody"}
        /\ at[t] = "process" => returned[t].code \in {"OK", "ERROR"}
        /\ at[t] = "next" => returned[t].code \in {"OK", "TIMEOUT", "NOT_FOUND", "OUT_OF_MEMORY"}
        /\ at[t] \in {"construct", "open", "filtered", "method", "devices"} /\ returned[t].code # "OK" =>
             lastError[t] = [by |-> t, fresh |-> TRUE]

\* The context registered last has both its references, the manager's and the
\* one that was given to the C side.
ContextCounts ==
    \A h \in Handles : Len(references[h]) > 0 => Latest(references[h]) = NewContext

\* A manager whose process() runs is with the thread that called it, and no
\* more listeners are left than it has.
EventPhase ==
    \A t \in Threads :
        /\ at[t] # "process" => running[t] = NotRunning
        /\ at[t] = "process" =>
             /\ running[t].manager \in own[t]
             /\ heap[running[t].manager] = "manager"
             /\ running[t].left <= Len(references[running[t].manager])

IInv ==
    /\ TypeOK /\ WrapperPhase /\ HandlesOwnedOnce /\ MessagePhase /\ MessageOfFailedCall
    /\ ContextCounts /\ EventPhase

---------------------------------------------------------------------------
(* The calls a wrapper is entered with.                                    *)

\* What the C call made on entering a wrapper at step can do.
CallOf(t, step) ==
    \/ step \in {"construct", "open", "next", "decode", "devices"} /\ \E kind \in Kinds : New(t, kind)
    \/ step \in {"construct", "open", "method", "optional", "decode", "devices"}
         /\ Fails(t, ResultCodes \union Memory)
    \/ step = "next" /\ Fails(t, Memory)
    \/ step = "next" /\ (FailsSilently(t, "TIMEOUT") \/ FailsSilently(t, "NOT_FOUND"))
    \/ step = "process" /\ FailsSilently(t, "ERROR")
    \/ step \in {"method", "optional", "process"} /\ Succeeds(t)

\* Only process() runs listeners, those of a manager of its thread.
RunsOf(t, step) ==
    IF step = "process"
    THEN \E h \in Values(t, {"manager"}) : running' = [running EXCEPT ![t] = [manager |-> h, left |-> 0]]
    ELSE UNCHANGED running

EntrySteps == {"construct", "open", "next", "method", "optional", "decode", "devices", "process"}

Entry(t) ==
    \/ Construct(t) \/ Open(t) \/ NextPacket(t) \/ Method(t) \/ Optional(t) \/ Decode(t)
    \/ ListDevices(t) \/ Process(t)

\* Failing with one of fewer codes is failing with one of more.
LEMMA FailsWithMore ==
    ASSUME NEW t, NEW small, NEW large, small \subseteq large, Fails(t, small)
    PROVE  Fails(t, large)
  BY DEF Fails

\* Every wrapper that enters a C call does one of the things in CallOf, and
\* leaves its locals and its values alone.
LEMMA EntryCalls ==
    ASSUME NEW t \in Threads, Entry(t)
    PROVE  \E step \in EntrySteps : Enter(t, step) /\ CallOf(t, step) /\ RunsOf(t, step) /\ UNCHANGED references
  <1> DEFINE more == ResultCodes \union Memory
  <1> /\ Memory \subseteq more /\ ResultCodes \subseteq more
      /\ {"ERROR"} \subseteq more /\ {"NOT_FOUND"} \subseteq more /\ {"NOT_FOUND", "ERROR"} \subseteq more
    BY DEF ResultCodes
  <1>f. \A small : small \subseteq more /\ Fails(t, small) => Fails(t, more)
    BY FailsWithMore
  <1> HIDE DEF more
  <1>1. CASE Construct(t)
    BY <1>1, <1>f DEF Construct, CallOf, RunsOf, EntrySteps, eventVars, Kinds, more, wadjet_pcap_reader_open,
       wadjet_pcap_writer_create, wadjet_packet_create, wadjet_diagnostic_manager_create,
       wadjet_protocol_validator_create, wadjet_uds_decoder_create, wadjet_uds_session_create
  <1>2. CASE Open(t)
    BY <1>2, <1>f DEF Open, CallOf, RunsOf, EntrySteps, eventVars, Kinds, more, wadjet_capture_create
  <1>3. CASE NextPacket(t)
    BY <1>3 DEF NextPacket, CallOf, RunsOf, EntrySteps, eventVars, Kinds, wadjet_capture_next_packet,
       wadjet_pcap_reader_next
  <1>4. CASE Method(t)
    BY <1>4, <1>f DEF Method, CallOf, RunsOf, EntrySteps, eventVars, more, wadjet_capture_start,
       wadjet_capture_set_filter, wadjet_capture_stats, wadjet_pcap_reader_reset, wadjet_pcap_writer_write,
       wadjet_pcap_writer_flush, wadjet_uds_decode, wadjet_uds_session_process, wadjet_packet_data,
       wadjet_packet_timestamp, wadjet_packet_view, wadjet_decode_result_uds, wadjet_decode_result_gptp,
       wadjet_mac_from_string, wadjet_ipv4_from_string, wadjet_protocol_validator_set_mode,
       wadjet_protocol_validator_get_mode
  <1>5. CASE Optional(t)
    BY <1>5, <1>f DEF Optional, CallOf, RunsOf, EntrySteps, eventVars, more, wadjet_decode_result_payload,
       wadjet_diagnostic_manager_get_session
  <1>6. CASE Decode(t)
    BY <1>6, <1>f DEF Decode, CallOf, RunsOf, EntrySteps, eventVars, Kinds, more, wadjet_decode_packet
  <1>7. CASE ListDevices(t)
    BY <1>7, <1>f DEF ListDevices, CallOf, RunsOf, EntrySteps, eventVars, Kinds, more, wadjet_device_enumerate
  <1>8. CASE Process(t)
    BY <1>8 DEF Process, CallOf, RunsOf, EntrySteps, wadjet_diagnostic_manager_process
  <1> QED BY <1>1, <1>2, <1>3, <1>4, <1>5, <1>6, <1>7, <1>8 DEF Entry

---------------------------------------------------------------------------
(* Types.                                                                  *)

\* The steps that follow a C call, and those that make none.
Answer(t) ==
    \/ Constructed(t) \/ Opened(t) \/ ApplyFilter(t) \/ Filtered(t) \/ GotPacket(t) \/ Passed(t)
    \/ OptionalReturned(t) \/ Decoded(t) \/ Listed(t) \/ ReadEntry(t) \/ DestroyList(t) \/ Processed(t)

Quiet(t) ==
    \/ OnEvent(t) \/ EmitEvent(t) \/ RunListener(t) \/ Drop(t) \/ RawCall(t)
    \/ \E u \in Threads : Move(t, u)

LEMMA NextSteps ==
    ASSUME Next
    PROVE  \E t \in Threads : Entry(t) \/ Answer(t) \/ Quiet(t)
  BY DEF Next, Entry, Answer, Quiet

\* The records the wrappers and the calls make.
LEMMA RecordTypes ==
    ASSUME NEW t \in Threads, TypeOK
    PROVE  /\ NoReturn \in Returns /\ NoReport \in Reports
           /\ NoMessage \in Messages /\ [by |-> t, fresh |-> TRUE] \in Messages
           /\ [by |-> lastError[t].by, fresh |-> FALSE] \in Messages
           /\ \A code \in {"OK"} \union ResultCodes \union Memory, h \in Handles \union {NoHandle} :
                [code |-> code, handle |-> h] \in Returns
           /\ returned[t].handle \in Handles \union {NoHandle}
           /\ [from |-> at[t], message |-> ErrorMessage(t)] \in Reports
  <1>1. lastError[t] \in Messages /\ returned[t] \in Returns /\ at[t] \in Steps
    BY DEF TypeOK
  <1>2. ErrorMessage(t) \in Messages
    BY <1>1 DEF ErrorMessage, OwnText, Slot, Messages
  <1> QED BY <1>1, <1>2 DEF Returns, Reports, Messages, NoReturn, NoReport, NoMessage

LEMMA InitIInv == Init => IInv
  <1> SUFFICES ASSUME Init PROVE IInv
    OBVIOUS
  <1>1. TypeOK
    BY DEF Init, TypeOK, Messages, NoMessage, NoReturn, NoReport, Steps, Returns, Reports, NotRunning
  <1>2. WrapperPhase /\ MessagePhase
    BY DEF Init, WrapperPhase, MessagePhase, LocalSteps, NoMessage, NoReturn
  <1>3. HandlesOwnedOnce
    BY NoHandleAssumption DEF Init, HandlesOwnedOnce, Held, NoReturn
  <1>4. MessageOfFailedCall
    BY DEF Init, MessageOfFailedCall, NoReport
  <1>5. ContextCounts /\ EventPhase
    BY DEF Init, ContextCounts, EventPhase
  <1> QED BY <1>1, <1>2, <1>3, <1>4, <1>5 DEF IInv

\* What a registration makes of the counts: one more, and one reference less
\* of the context it replaces.
Registered(counts) ==
    [i \in 1..(Len(counts) + 1) |->
        IF i > Len(counts) THEN NewContext ELSE IF i = Len(counts) THEN counts[i] - 1 ELSE counts[i]]

LEMMA RegisteredCounts ==
    ASSUME NEW counts \in Seq(Nat), Len(counts) > 0 => Latest(counts) = NewContext
    PROVE  /\ Registered(counts) \in Seq(Nat)
           /\ Len(Registered(counts)) = Len(counts) + 1
           /\ Latest(Registered(counts)) = NewContext
  <1> DEFINE n == Len(counts)
  <1>1. n \in Nat /\ n + 1 \in Nat /\ n + 1 \in 1..(n + 1) /\ n + 1 > n
    OBVIOUS
  <1>2. n > 0 => counts[n] - 1 \in Nat
    BY DEF Latest, NewContext
  <1>3. \A i \in 1..(n + 1) : (i > n \/ i = n \/ i \in 1..n) /\ (i = n => n > 0)
    BY <1>1
  <1>4. \A i \in 1..(n + 1) :
          (IF i > n THEN NewContext ELSE IF i = n THEN counts[i] - 1 ELSE counts[i]) \in Nat
    BY <1>1, <1>2, <1>3 DEF NewContext
  <1>5. Registered(counts) \in [1..(n + 1) -> Nat]
    BY <1>4 DEF Registered
  <1>6. Registered(counts) \in Seq(Nat) /\ Len(Registered(counts)) = n + 1
    BY <1>1, <1>5
  <1>7. Registered(counts)[n + 1] = NewContext
    BY <1>1 DEF Registered
  <1> QED BY <1>6, <1>7 DEF Latest

\* What each step does to the counts: nothing, except that a registration adds
\* one to a manager of its thread and a drop forgets them.
LEMMA ReferencesSteps ==
    ASSUME TypeOK, NEW t \in Threads, Entry(t) \/ Answer(t) \/ Quiet(t)
    PROVE  \/ UNCHANGED references
           \/ \E h \in own[t] : OnEvent(t) /\ references' = [references EXCEPT ![h] = Registered(references[h])]
           \/ \E h \in own[t] : Drop(t) /\ references' = [references EXCEPT ![h] = <<>>]
  <1>1. own[t] \subseteq Handles /\ references \in [Handles -> Seq(Nat)]
    BY DEF TypeOK
  <1>2. CASE OnEvent(t)
    BY <1>1, <1>2 DEF OnEvent, Values, Registered
  <1>3. CASE RunListener(t)
    <2> DEFINE h == running[t].manager
    <2>1. references' = [references EXCEPT ![h] = [references[h] EXCEPT ![Len(references[h])] = @]]
      BY <1>3 DEF RunListener, Trampoline
    <2>2. h \in Handles => [references[h] EXCEPT ![Len(references[h])] = @] = references[h]
      BY <1>1
    <2>3. references' = references
      BY <1>1, <2>1, <2>2
    <2> QED BY <2>3
  <1>4. CASE Drop(t)
    BY <1>4 DEF Drop
  <1>5. Entry(t) => UNCHANGED references
    BY EntryCalls
  <1>6. Answer(t) => UNCHANGED references
    BY DEF Answer, Constructed, Opened, ApplyFilter, Filtered, GotPacket, Passed,
       OptionalReturned, Decoded, Listed, ReadEntry, DestroyList, Processed
  <1> QED BY <1>2, <1>3, <1>4, <1>5, <1>6 DEF Quiet, EmitEvent, RawCall, Move

\* The state of the listeners keeps its type, and the latest context its count.
LEMMA EventTypes ==
    ASSUME TypeOK, ContextCounts, NEW t \in Threads, Entry(t) \/ Answer(t) \/ Quiet(t)
    PROVE  references' \in [Handles -> Seq(Nat)] /\ ContextCounts'
  <1>1. own[t] \subseteq Handles /\ references \in [Handles -> Seq(Nat)]
    BY DEF TypeOK
  <1>2. CASE UNCHANGED references
    BY <1>1, <1>2 DEF ContextCounts
  <1>3. ASSUME NEW h \in own[t], references' = [references EXCEPT ![h] = Registered(references[h])]
        PROVE  references' \in [Handles -> Seq(Nat)] /\ ContextCounts'
    <2>1. Registered(references[h]) \in Seq(Nat) /\ Latest(Registered(references[h])) = NewContext
      BY <1>1, RegisteredCounts DEF ContextCounts
    <2>2. references'[h] = Registered(references[h]) /\ \A g \in Handles : g # h => references'[g] = references[g]
      BY <1>1, <1>3
    <2> QED BY <1>1, <1>3, <2>1, <2>2 DEF ContextCounts
  <1>4. ASSUME NEW h \in own[t], references' = [references EXCEPT ![h] = <<>>]
        PROVE  references' \in [Handles -> Seq(Nat)] /\ ContextCounts'
    BY <1>1, <1>4 DEF ContextCounts
  <1> QED BY <1>2, <1>3, <1>4, ReferencesSteps

\* The runs, and their type.
LEMMA RunningTypes ==
    ASSUME TypeOK, NEW t \in Threads, Entry(t) \/ Answer(t) \/ Quiet(t)
    PROVE  /\ running' \in [Threads -> [manager : Handles \union {NoHandle}, left : Nat]]
           /\ \A u \in Threads : u # t => running'[u] = running[u]
  <1> DEFINE Runs == [manager : Handles \union {NoHandle}, left : Nat]
  <1>1. /\ running \in [Threads -> Runs] /\ own[t] \subseteq Handles
        /\ references \in [Handles -> Seq(Nat)]
    BY DEF TypeOK
  <1>2. ASSUME NEW run \in Runs, running' = [running EXCEPT ![t] = run]
        PROVE  /\ running' \in [Threads -> Runs]
               /\ \A u \in Threads : u # t => running'[u] = running[u]
    BY <1>1, <1>2
  <1>3. running[t] \in Runs /\ NotRunning \in Runs
    BY <1>1 DEF NotRunning
  <1>4. CASE Entry(t)
    <2>1. PICK step \in EntrySteps : RunsOf(t, step)
      BY <1>4, EntryCalls
    <2>2. UNCHANGED running \/ \E h \in own[t] : running' = [running EXCEPT ![t] = [manager |-> h, left |-> 0]]
      BY <2>1 DEF RunsOf, Values
    <2>3. \A h \in own[t] : [manager |-> h, left |-> 0] \in Runs
      BY <1>1
    <2> QED BY <1>1, <1>2, <2>2, <2>3
  <1>5. CASE Processed(t)
    BY <1>2, <1>3, <1>5 DEF Processed
  <1>6. CASE RunListener(t)
    <2>1. running' = [running EXCEPT ![t] = [running[t] EXCEPT !.left = @ - 1]] /\ running[t].left > 0
      BY <1>1, <1>6 DEF RunListener
    <2>2. [running[t] EXCEPT !.left = @ - 1] \in Runs
      BY <1>3, <2>1
    <2> QED BY <1>2, <2>1, <2>2
  <1>7. CASE EmitEvent(t)
    <2> DEFINE n == Len(references[running[t].manager])
    <2>1. running' = [running EXCEPT ![t] = [running[t] EXCEPT !.left = n]]
      BY <1>1, <1>7 DEF EmitEvent
    <2>2. n \in Nat
      BY <1>1
    <2>3. [running[t] EXCEPT !.left = n] \in Runs
      BY <1>3, <2>2
    <2> QED BY <1>2, <2>1, <2>3
  <1>8. CASE UNCHANGED running
    BY <1>1, <1>8
  <1>9. Answer(t) => UNCHANGED running \/ Processed(t)
    BY DEF Answer, Constructed, Opened, ApplyFilter, Filtered, GotPacket, Passed,
       OptionalReturned, Decoded, Listed, ReadEntry, DestroyList
  <1> QED BY <1>4, <1>5, <1>6, <1>7, <1>8, <1>9 DEF Quiet, OnEvent, Drop, RawCall, Move

\* What a call does to the heap, the messages and the answers, apart from the
\* object it may create.
LEMMA CallTypes ==
    ASSUME NEW t \in Threads, TypeOK,
           \/ Fails(t, ResultCodes \union Memory) \/ Fails(t, ResultCodes) \/ Fails(t, Memory)
           \/ FailsSilently(t, "TIMEOUT") \/ FailsSilently(t, "NOT_FOUND") \/ FailsSilently(t, "ERROR")
           \/ Succeeds(t) \/ \E kind \in Kinds : New(t, kind)
    PROVE  /\ heap' \in [Handles -> Kinds \union {"free"}]
           /\ lastError' \in [Threads -> Messages]
           /\ returned' \in [Threads -> Returns]
  <1>1. /\ heap \in [Handles -> Kinds \union {"free"}] /\ lastError \in [Threads -> Messages]
        /\ returned \in [Threads -> Returns]
    BY DEF TypeOK
  <1>2. PICK code \in {"OK"} \union ResultCodes \union Memory, h \in Handles \union {NoHandle} :
          returned' = [returned EXCEPT ![t] = [code |-> code, handle |-> h]]
    BY DEF Fails, FailsSilently, Succeeds, New, ReturnCode, ResultCodes
  <1>3. lastError' = [lastError EXCEPT ![t] = [by |-> t, fresh |-> TRUE]]
          \/ lastError' = [lastError EXCEPT ![t] = [by |-> lastError[t].by, fresh |-> FALSE]]
    BY DEF Fails, FailsSilently, Succeeds, New, SetLastError, KeepLastError, Slot
  <1>4. heap' = heap \/ \E kind \in Kinds, g \in Handles : heap' = [heap EXCEPT ![g] = kind]
    BY DEF Fails, FailsSilently, Succeeds, New
  <1>5. returned' \in [Threads -> Returns]
    BY <1>1, <1>2, RecordTypes
  <1>6. lastError' \in [Threads -> Messages]
    BY <1>1, <1>3, RecordTypes
  <1>7. heap' \in [Handles -> Kinds \union {"free"}]
    BY <1>1, <1>4
  <1> QED BY <1>5, <1>6, <1>7

LEMMA EntryType ==
    ASSUME TypeOK, ContextCounts, NEW t \in Threads, Entry(t)
    PROVE  TypeOK'
  <1>1. PICK step \in EntrySteps : Enter(t, step) /\ CallOf(t, step)
    BY EntryCalls
  <1>2. step \in Steps
    BY DEF EntrySteps, Steps
  <1>3. /\ at' \in [Threads -> Steps]
        /\ local' \in [Threads -> Handles \union {NoHandle}]
        /\ own' \in [Threads -> SUBSET Handles]
        /\ report' \in [Threads -> Reports]
    BY <1>1, <1>2, RecordTypes DEF TypeOK, Enter, Go
  <1>4. /\ heap' \in [Handles -> Kinds \union {"free"}]
        /\ lastError' \in [Threads -> Messages]
        /\ returned' \in [Threads -> Returns]
    BY <1>1, CallTypes DEF CallOf
  <1>5. /\ references' \in [Handles -> Seq(Nat)]
        /\ running' \in [Threads -> [manager : Handles \union {NoHandle}, left : Nat]]
    BY EventTypes, RunningTypes
  <1> QED BY <1>3, <1>4, <1>5 DEF TypeOK

LEMMA AnswerType ==
    ASSUME TypeOK, ContextCounts, NEW t \in Threads, Answer(t)
    PROVE  TypeOK'
  <1>1. /\ references' \in [Handles -> Seq(Nat)]
        /\ running' \in [Threads -> [manager : Handles \union {NoHandle}, left : Nat]]
    BY EventTypes, RunningTypes
  <1>2. \A step \in Steps : Go(t, step) => at' \in [Threads -> Steps]
    BY DEF TypeOK, Go
  <1>3. ASSUME Finish(t)
        PROVE  at' \in [Threads -> Steps] /\ returned' \in [Threads -> Returns]
    BY <1>2, <1>3, RecordTypes DEF TypeOK, Finish, Steps
  <1>4. ASSUME ReturnErr(t)
        PROVE  Finish(t) /\ report' \in [Threads -> Reports]
    BY <1>4, RecordTypes DEF TypeOK, ReturnErr
  <1>5. ASSUME NEW h \in Handles \union {NoHandle}, ReturnValue(t, h)
        PROVE  Finish(t) /\ own' \in [Threads -> SUBSET Handles] /\ UNCHANGED report
    <2>1. own \in [Threads -> SUBSET Handles]
      BY DEF TypeOK
    <2> QED BY <1>5, <2>1 DEF ReturnValue
  <1>6. \A h : Delete(h) => heap' \in [Handles -> Kinds \union {"free"}]
    BY DEF TypeOK, Delete
  <1>7. returned[t].handle \in Handles \union {NoHandle} /\ local[t] \in Handles \union {NoHandle}
    BY RecordTypes DEF TypeOK
  <1>8. \A h \in Handles \union {NoHandle} :
          local' = [local EXCEPT ![t] = h] => local' \in [Threads -> Handles \union {NoHandle}]
    BY DEF TypeOK
  <1>9. {"idle", "filter", "filtered", "listing"} \subseteq Steps
    BY DEF Steps
  <1>10. CASE Constructed(t)
    BY <1>1, <1>3, <1>4, <1>5, <1>7, <1>10 DEF TypeOK, Constructed
  <1>11. CASE Opened(t)
    BY <1>1, <1>2, <1>3, <1>4, <1>5, <1>7, <1>8, <1>9, <1>11 DEF TypeOK, Opened
  <1>12. CASE ApplyFilter(t)
    BY <1>1, <1>2, <1>9, <1>12, CallTypes DEF TypeOK, ApplyFilter, wadjet_capture_set_filter
  <1>13. CASE Filtered(t)
    BY <1>1, <1>3, <1>4, <1>5, <1>6, <1>7, <1>8, <1>13 DEF TypeOK, Filtered
  <1>14. CASE GotPacket(t)
    BY <1>1, <1>3, <1>4, <1>5, <1>7, <1>14 DEF TypeOK, GotPacket
  <1>15. CASE Passed(t) \/ Processed(t)
    BY <1>1, <1>3, <1>4, <1>15 DEF TypeOK, Passed, Processed
  <1>16. CASE OptionalReturned(t)
    BY <1>1, <1>3, <1>16 DEF TypeOK, OptionalReturned
  <1>17. CASE Decoded(t)
    <2>1. LayerNotPresent(t) => lastError' \in [Threads -> Messages]
      BY RecordTypes DEF TypeOK, LayerNotPresent, SetLastError, Slot
    <2> QED BY <1>1, <1>3, <1>5, <1>6, <1>7, <1>17, <2>1 DEF TypeOK, Decoded
  <1>18. CASE Listed(t)
    BY <1>1, <1>2, <1>3, <1>4, <1>7, <1>8, <1>9, <1>18 DEF TypeOK, Listed
  <1>19. CASE ReadEntry(t)
    BY <1>1, <1>19, CallTypes DEF TypeOK, ReadEntry, wadjet_device_list_get
  <1>20. CASE DestroyList(t)
    BY <1>1, <1>3, <1>6, <1>8, <1>20 DEF TypeOK, DestroyList
  <1> QED BY <1>10, <1>11, <1>12, <1>13, <1>14, <1>15, <1>16, <1>17, <1>18, <1>19, <1>20 DEF Answer

LEMMA QuietType ==
    ASSUME TypeOK, ContextCounts, NEW t \in Threads, Quiet(t)
    PROVE  TypeOK'
  <1>1. /\ references' \in [Handles -> Seq(Nat)]
        /\ running' \in [Threads -> [manager : Handles \union {NoHandle}, left : Nat]]
    BY EventTypes, RunningTypes
  <1>2. CASE OnEvent(t) \/ EmitEvent(t) \/ RunListener(t)
    BY <1>1, <1>2 DEF TypeOK, OnEvent, EmitEvent, RunListener
  <1>3. CASE Drop(t)
    BY <1>1, <1>3 DEF TypeOK, Drop, Delete
  <1>4. CASE RawCall(t)
    <2>1. lastError' \in [Threads -> Messages]
      BY <1>4, RecordTypes DEF TypeOK, RawCall, NullArgument, wadjet_clear_error,
         wadjet_diagnostic_manager_statistics, wadjet_diagnostic_manager_check_timeouts, SetLastError, KeepLastError, Slot
    <2> QED BY <1>1, <1>4, <2>1 DEF TypeOK, RawCall, NullArgument, wadjet_clear_error,
            wadjet_diagnostic_manager_statistics, wadjet_diagnostic_manager_check_timeouts
  <1>5. ASSUME NEW u \in Threads, Move(t, u) PROVE TypeOK'
    <2>1. PICK h \in own[t] : own' = [own EXCEPT ![t] = @ \ {h}, ![u] = @ \union {h}]
      BY <1>5 DEF Move, Values
    <2>2. own \in [Threads -> SUBSET Handles]
      BY DEF TypeOK
    <2>3. own' \in [Threads -> SUBSET Handles]
      BY <2>1, <2>2
    <2> QED BY <1>1, <1>5, <2>3 DEF TypeOK, Move
  <1> QED BY <1>2, <1>3, <1>4, <1>5 DEF Quiet

LEMMA TypeStep == TypeOK /\ ContextCounts /\ [Next]_vars => TypeOK'
  <1> SUFFICES ASSUME TypeOK, ContextCounts, [Next]_vars PROVE TypeOK'
    OBVIOUS
  <1>1. CASE Next
    BY <1>1, NextSteps, EntryType, AnswerType, QuietType
  <1>2. CASE UNCHANGED vars
    BY <1>2 DEF vars, TypeOK
  <1> QED BY <1>1, <1>2

---------------------------------------------------------------------------
(* The phases of a wrapper.                                                *)

\* A step of thread t leaves what every other thread has alone.
LEMMA OthersKept ==
    ASSUME TypeOK, NEW t \in Threads, Entry(t) \/ Answer(t) \/ Quiet(t),
           NEW u \in Threads, u # t
    PROVE  /\ at'[u] = at[u] /\ local'[u] = local[u] /\ returned'[u] = returned[u]
           /\ lastError'[u] = lastError[u] /\ report'[u] = report[u]
  <1>1. CASE Entry(t)
    <2>1. PICK step \in EntrySteps : Enter(t, step) /\ CallOf(t, step)
      BY <1>1, EntryCalls
    <2> QED BY <2>1 DEF TypeOK, Enter, Go, CallOf, New, Fails, FailsSilently, Succeeds, ReturnCode,
            SetLastError, KeepLastError, Slot
  <1>2. CASE Answer(t)
    BY <1>2 DEF TypeOK, Answer, Constructed, Opened, ApplyFilter, Filtered, GotPacket, Passed,
       OptionalReturned, Decoded, Listed, ReadEntry, DestroyList, Processed, ReturnErr, ReturnValue, Finish,
       Go, LayerNotPresent, wadjet_capture_set_filter, wadjet_device_list_get, Fails, Succeeds, ReturnCode,
       SetLastError, KeepLastError, Slot
  <1>3. CASE Quiet(t)
    BY <1>3 DEF TypeOK, Quiet, OnEvent, EmitEvent, RunListener, Drop, RawCall, Move, NullArgument, wadjet_clear_error,
       wadjet_diagnostic_manager_statistics, wadjet_diagnostic_manager_check_timeouts, SetLastError, KeepLastError, Slot
  <1> QED BY <1>1, <1>2, <1>3

LEMMA WrapperPhaseStep ==
    ASSUME IInv, NEW t \in Threads, Entry(t) \/ Answer(t) \/ Quiet(t)
    PROVE  WrapperPhase'
  <1> USE DEF IInv
  <1> DEFINE Phase ==
        /\ at[t] = "idle" => returned[t] = NoReturn
        /\ at[t] \notin LocalSteps => local[t] = NoHandle
        /\ at[t] \in {"method", "optional", "process", "filtered"} => returned[t].handle = NoHandle
        /\ at[t] \in {"filter", "listing"} =>
             returned[t].code = "OK" /\ returned[t].handle \in {local[t], NoHandle}
        /\ returned[t].code # "OK" => returned[t].handle = NoHandle
  <1>1. SUFFICES Phase'
    BY <1>1, OthersKept DEF WrapperPhase, LocalSteps
  <1>2. Phase
    BY DEF WrapperPhase
  <1>3. CASE Entry(t)
    <2>1. PICK step \in EntrySteps : Enter(t, step) /\ CallOf(t, step)
      BY <1>3, EntryCalls
    <2> QED BY <1>2, <2>1 DEF TypeOK, EntrySteps, LocalSteps, Enter, Go, CallOf, New, Fails, FailsSilently,
            Succeeds, ReturnCode, ResultCodes, Memory
  <1>4. CASE Answer(t)
    <2> USE DEF TypeOK, LocalSteps, Go, Finish, NoReturn
    <2>1. ReturnErr(t) => Finish(t)
      BY DEF ReturnErr
    <2>2. \A h : ReturnValue(t, h) => Finish(t)
      BY DEF ReturnValue
    <2>3. CASE Constructed(t) \/ GotPacket(t) \/ Passed(t) \/ Processed(t) \/ OptionalReturned(t) \/ Decoded(t)
      BY <1>2, <2>1, <2>2, <2>3 DEF Constructed, GotPacket, Passed, Processed, OptionalReturned, Decoded
    <2>4. CASE Opened(t) \/ Listed(t)
      BY <1>2, <2>1, <2>2, <2>4 DEF Opened, Listed
    <2>5. CASE ApplyFilter(t) \/ ReadEntry(t)
      BY <1>2, <2>5 DEF ApplyFilter, ReadEntry, wadjet_capture_set_filter, wadjet_device_list_get, Fails,
         Succeeds, ReturnCode
    <2>6. CASE Filtered(t) \/ DestroyList(t)
      BY <1>2, <2>1, <2>2, <2>6 DEF Filtered, DestroyList
    <2> QED BY <1>4, <2>3, <2>4, <2>5, <2>6 DEF Answer
  <1>5. CASE Quiet(t)
    BY <1>2, <1>5 DEF TypeOK, LocalSteps, Quiet, OnEvent, EmitEvent, RunListener, Drop, RawCall, Move, NullArgument,
       wadjet_clear_error, wadjet_diagnostic_manager_statistics, wadjet_diagnostic_manager_check_timeouts
  <1> QED BY <1>3, <1>4, <1>5

---------------------------------------------------------------------------
(* Messages.                                                               *)

\* A call that fails writes its thread's message, a call that succeeds leaves
\* its author alone.
LEMMA CallMessages ==
    ASSUME TypeOK, NEW t \in Threads
    PROVE  /\ Succeeds(t) \/ (\E kind \in Kinds : New(t, kind)) =>
                returned'[t].code = "OK" /\ lastError'[t].by = lastError[t].by
           /\ \A codes : Fails(t, codes) => lastError'[t] = [by |-> t, fresh |-> TRUE]
           /\ \A code : FailsSilently(t, code) => lastError'[t].by = lastError[t].by
  <1>1. KeepLastError(t) => lastError'[t].by = lastError[t].by
    BY DEF TypeOK, KeepLastError, Slot
  <1>2. SetLastError(t) => lastError'[t] = [by |-> t, fresh |-> TRUE]
    BY DEF TypeOK, SetLastError, Slot
  <1>3. \A h : ReturnCode(t, "OK", h) => returned'[t].code = "OK"
    BY DEF TypeOK, ReturnCode
  <1> QED BY <1>1, <1>2, <1>3 DEF New, Fails, FailsSilently, Succeeds

LEMMA MessagePhaseStep ==
    ASSUME IInv, NEW t \in Threads, Entry(t) \/ Answer(t) \/ Quiet(t)
    PROVE  MessagePhase'
  <1> USE DEF IInv
  <1> DEFINE Phase ==
        /\ lastError[t].by \in {t, "nobody"}
        /\ at[t] = "process" => returned[t].code \in {"OK", "ERROR"}
        /\ at[t] = "next" => returned[t].code \in {"OK", "TIMEOUT", "NOT_FOUND", "OUT_OF_MEMORY"}
        /\ at[t] \in {"construct", "open", "filtered", "method", "devices"} /\ returned[t].code # "OK" =>
             lastError[t] = [by |-> t, fresh |-> TRUE]
  <1>1. SUFFICES Phase'
    <2>1. ASSUME NEW u \in Threads, u # t
          PROVE  at'[u] = at[u] /\ returned'[u] = returned[u] /\ lastError'[u] = lastError[u]
      BY <2>1, OthersKept
    <2>2. ASSUME NEW u \in Threads, u # t
          PROVE  /\ lastError'[u].by \in {u, "nobody"}
                 /\ at'[u] = "process" => returned'[u].code \in {"OK", "ERROR"}
                 /\ at'[u] = "next" => returned'[u].code \in {"OK", "TIMEOUT", "NOT_FOUND", "OUT_OF_MEMORY"}
                 /\ at'[u] \in {"construct", "open", "filtered", "method", "devices"} /\ returned'[u].code # "OK" =>
                      lastError'[u] = [by |-> u, fresh |-> TRUE]
      BY <2>1, <2>2 DEF MessagePhase
    <2> QED BY <1>1, <2>2, Zenon DEF MessagePhase
  <1>2. Phase /\ (at[t] = "idle" => returned[t] = NoReturn) /\ (at[t] = "listing" => returned[t].code = "OK")
    BY DEF MessagePhase, WrapperPhase
  <1>3. CASE Entry(t)
    <2>1. PICK step \in EntrySteps : Enter(t, step) /\ CallOf(t, step)
      BY <1>3, EntryCalls
    <2>2. at'[t] = step
      BY <2>1 DEF TypeOK, Enter, Go
    <2>3. /\ lastError'[t].by \in {t, "nobody"}
          /\ \/ lastError'[t] = [by |-> t, fresh |-> TRUE]
             \/ returned'[t].code = "OK"
             \/ step \in {"next", "process"}
      BY <1>2, <2>1, CallMessages DEF CallOf
    <2>4. /\ step = "process" => returned'[t].code \in {"OK", "ERROR"}
          /\ step = "next" => returned'[t].code \in {"OK", "TIMEOUT", "NOT_FOUND", "OUT_OF_MEMORY"}
      BY <2>1 DEF TypeOK, CallOf, New, Fails, FailsSilently, Succeeds, ReturnCode, Memory
    <2> QED BY <2>2, <2>3, <2>4
  <1>4. CASE Answer(t)
    <2> USE DEF TypeOK, Go, Finish, NoReturn
    <2>1. ReturnErr(t) => Finish(t)
      BY DEF ReturnErr
    <2>2. \A h : ReturnValue(t, h) => Finish(t)
      BY DEF ReturnValue
    <2>3. CASE \/ Constructed(t) \/ GotPacket(t) \/ Passed(t) \/ Processed(t) \/ OptionalReturned(t)
               \/ Opened(t) \/ Listed(t) \/ Filtered(t) \/ DestroyList(t)
      BY <1>2, <2>1, <2>2, <2>3 DEF Constructed, GotPacket, Passed, Processed, OptionalReturned, Opened, Listed,
         Filtered, DestroyList
    <2>4. CASE Decoded(t)
      BY <1>2, <2>2, <2>4 DEF Decoded, LayerNotPresent, SetLastError, Slot
    <2>5. CASE ApplyFilter(t) \/ ReadEntry(t)
      <3>1. Succeeds(t) \/ (ApplyFilter(t) /\ Fails(t, ResultCodes))
        BY <2>5 DEF ApplyFilter, ReadEntry, wadjet_capture_set_filter, wadjet_device_list_get
      <3>2. at'[t] \in {"filtered", "listing"}
        BY <2>5 DEF ApplyFilter, ReadEntry
      <3> QED BY <1>2, <3>1, <3>2, CallMessages
    <2> QED BY <1>4, <2>3, <2>4, <2>5 DEF Answer
  <1>5. CASE Quiet(t)
    BY <1>2, <1>5 DEF TypeOK, Quiet, OnEvent, EmitEvent, RunListener, Drop, RawCall, Move, NullArgument,
       wadjet_clear_error, wadjet_diagnostic_manager_statistics, wadjet_diagnostic_manager_check_timeouts, SetLastError, KeepLastError, Slot, NoMessage,
       NoReturn
  <1> QED BY <1>3, <1>4, <1>5

\* An Err is made from the code and the message its wrapper is about to look
\* at, and stays until the thread enters its next wrapper.
LEMMA MessageStep ==
    ASSUME IInv, NEW t \in Threads, Entry(t) \/ Answer(t) \/ Quiet(t)
    PROVE  MessageOfFailedCall'
  <1> USE DEF IInv
  <1> DEFINE Good(r) ==
        CASE r.from = "none" -> r.message = NoMessage
          [] r.from = "process" -> r.message.by \in {t, "nobody"}
          [] OTHER -> r.message \in {OwnText, [by |-> t, fresh |-> TRUE]}
  <1>1. SUFFICES Good(report'[t])
    BY <1>1, OthersKept DEF MessageOfFailedCall
  <1>2. Good(report[t])
    BY DEF MessageOfFailedCall
  <1>3. Good(NoReport)
    BY DEF NoReport
  <1>4. CASE Entry(t)
    <2>1. report' = [report EXCEPT ![t] = NoReport]
      BY <1>4, EntryCalls DEF Enter
    <2> QED BY <1>3, <2>1 DEF TypeOK
  <1>5. CASE UNCHANGED report
    BY <1>2, <1>5
  <1>6. CASE ReturnErr(t) /\ Answer(t) /\ ~ UNCHANGED report
    <2>1. report'[t] = [from |-> at[t], message |-> ErrorMessage(t)]
      BY <1>6 DEF ReturnErr, TypeOK
    <2>2. /\ at[t] \in {"construct", "open", "filtered", "next", "method", "devices", "process"}
          /\ at[t] = "next" => returned[t].code \notin {"TIMEOUT", "NOT_FOUND"}
      BY <1>6 DEF Answer, Constructed, Opened, ApplyFilter, Filtered, GotPacket, Passed, OptionalReturned,
         Decoded, Listed, ReadEntry, DestroyList, Processed, ReturnValue
    <2>3. returned[t].code # "OK"
      BY <1>6 DEF ReturnErr
    <2>4. Good([from |-> at[t], message |-> ErrorMessage(t)])
      BY <2>2, <2>3 DEF MessagePhase, ErrorMessage, OwnText, Slot
    <2> QED BY <2>1, <2>4
  <1>7. CASE Answer(t) /\ ~ ReturnErr(t)
    BY <1>5, <1>7 DEF Answer, Constructed, Opened, ApplyFilter, Filtered, GotPacket, Passed,
       OptionalReturned, Decoded, Listed, ReadEntry, DestroyList, Processed, ReturnValue
  <1>8. CASE Quiet(t)
    BY <1>5, <1>8 DEF Quiet, OnEvent, EmitEvent, RunListener, Drop, RawCall, Move
  <1> QED BY <1>4, <1>5, <1>6, <1>7, <1>8

---------------------------------------------------------------------------
(* Ownership.                                                              *)

\* What a step does to the objects: none is touched, one is created for the
\* thread, or one that the thread holds is destroyed.
OwnershipEffect(before, after) ==
    \/ heap' = heap /\ after = before
    \/ \E h \in Handles, kind \in Kinds :
         heap[h] = "free" /\ heap' = [heap EXCEPT ![h] = kind] /\ after = before \union {h}
    \/ \E h \in before : heap' = [heap EXCEPT ![h] = "free"] /\ after = before \ {h}

\* Such a step keeps every object in one hand.
LEMMA EffectKeepsOwnership ==
    ASSUME TypeOK, HandlesOwnedOnce, NEW t \in Threads, OwnershipEffect(Held(t), Held(t)'),
           \A u \in Threads : u # t => own'[u] = own[u] /\ local'[u] = local[u] /\ returned'[u] = returned[u],
           {local'[t], returned'[t].handle} \intersect own'[t] = {}
    PROVE  HandlesOwnedOnce'
  <1>1. \A u \in Threads : u # t => Held(u)' = Held(u)
    BY DEF Held
  <1>2. \A u \in Threads : Held(u) \subseteq Handles
    <2> TAKE u \in Threads
    <2>1. own[u] \subseteq Handles /\ local[u] \in Handles \union {NoHandle}
      BY DEF TypeOK
    <2>2. returned[u].handle \in Handles \union {NoHandle}
      BY RecordTypes
    <2> QED BY <2>1, <2>2 DEF Held
  <1>3. /\ \A h \in Handles : heap[h] # "free" <=> \E u \in Threads : h \in Held(u)
        /\ \A u, v \in Threads : u # v => Held(u) \intersect Held(v) = {}
        /\ heap \in [Handles -> Kinds \union {"free"}]
    BY DEF HandlesOwnedOnce, TypeOK
  <1>4. "free" \notin Kinds
    BY DEF Kinds
  <1> DEFINE OneHand ==
        /\ \A h \in Handles : heap'[h] # "free" <=> \E u \in Threads : h \in Held(u)'
        /\ \A u, v \in Threads : u # v => Held(u)' \intersect Held(v)' = {}
  <1>5. OneHand
    <2>1. CASE heap' = heap /\ Held(t)' = Held(t)
      BY <1>1, <1>3, <2>1
    <2>2. ASSUME NEW g \in Handles, NEW kind \in Kinds, heap[g] = "free",
                 heap' = [heap EXCEPT ![g] = kind], Held(t)' = Held(t) \union {g}
          PROVE  OneHand
      <3>1. \A u \in Threads : g \notin Held(u)
        BY <1>3, <2>2
      <3>2. \A h \in Handles : heap'[h] = IF h = g THEN kind ELSE heap[h]
        BY <1>3, <2>2
      <3> QED BY <1>1, <1>2, <1>3, <1>4, <2>2, <3>1, <3>2
    <2>3. ASSUME NEW g \in Held(t), heap' = [heap EXCEPT ![g] = "free"], Held(t)' = Held(t) \ {g}
          PROVE  OneHand
      <3>1. \A u \in Threads : u # t => g \notin Held(u)
        BY <1>3, <2>3
      <3>2. \A h \in Handles : heap'[h] = IF h = g THEN "free" ELSE heap[h]
        BY <1>3, <2>3
      <3> QED BY <1>1, <1>2, <1>3, <2>3, <3>1, <3>2
    <2> QED BY <2>1, <2>2, <2>3 DEF OwnershipEffect
  <1>6. \A u \in Threads : {local'[u], returned'[u].handle} \intersect own'[u] = {}
    BY DEF HandlesOwnedOnce
  <1> QED BY <1>5, <1>6 DEF HandlesOwnedOnce

\* A step other than a move leaves the values of the other threads alone.
LEMMA OthersOwn ==
    ASSUME TypeOK, NEW t \in Threads, Entry(t) \/ Answer(t) \/ Drop(t), NEW u \in Threads, u # t
    PROVE  own'[u] = own[u]
  <1>1. CASE Entry(t)
    BY <1>1, EntryCalls DEF Enter
  <1>2. CASE Answer(t)
    BY <1>2 DEF TypeOK, Answer, Constructed, Opened, ApplyFilter, Filtered, GotPacket, Passed,
       OptionalReturned, Decoded, Listed, ReadEntry, DestroyList, Processed, ReturnValue
  <1>3. CASE Drop(t)
    BY <1>3 DEF TypeOK, Drop
  <1> QED BY <1>1, <1>2, <1>3

\* A wrapper that is entered adds what its call created to what the thread
\* holds.
LEMMA EntryOwnership ==
    ASSUME IInv, NEW t \in Threads, Entry(t)
    PROVE  HandlesOwnedOnce'
  <1> USE DEF IInv
  <1>1. PICK step \in EntrySteps : Enter(t, step) /\ CallOf(t, step)
    BY EntryCalls
  <1>2. at[t] = "idle" /\ UNCHANGED <<own, local>>
    BY <1>1 DEF Enter
  <1>3. local[t] = NoHandle /\ returned[t].handle = NoHandle
    BY <1>2 DEF WrapperPhase, LocalSteps, NoReturn
  <1>4. own[t] \subseteq Handles /\ Held(t) = own[t]
    BY <1>3, NoHandleAssumption DEF TypeOK, Held
  <1>5. CASE \E kind \in Kinds : New(t, kind)
    <2>1. PICK kind \in Kinds, h \in Handles :
            /\ heap[h] = "free" /\ heap' = [heap EXCEPT ![h] = kind]
            /\ returned' = [returned EXCEPT ![t] = [code |-> "OK", handle |-> h]]
      BY <1>5 DEF New, ReturnCode
    <2> returned'[t].handle = h
      BY <2>1 DEF TypeOK
    <2>2. Held(t)' = own[t] \union {h}
      BY <1>2, <1>3, <1>4, <2>1, NoHandleAssumption DEF Held
    <2>3. OwnershipEffect(Held(t), Held(t)')
      BY <1>4, <2>1, <2>2 DEF OwnershipEffect
    <2>4. h \notin own[t]
      BY <1>4, <2>1 DEF HandlesOwnedOnce
    <2>5. {local'[t], returned'[t].handle} \intersect own'[t] = {}
      BY <1>2, <1>3, <1>4, <2>1, <2>4, NoHandleAssumption
    <2> QED BY <2>3, <2>5, OthersKept, OthersOwn, EffectKeepsOwnership
  <1>6. CASE ~ \E kind \in Kinds : New(t, kind)
    <2>1. heap' = heap /\ returned'[t].handle = NoHandle
      BY <1>1, <1>6 DEF CallOf, Fails, FailsSilently, Succeeds, ReturnCode, TypeOK
    <2>2. Held(t)' = own[t]
      BY <1>2, <1>3, <1>4, <2>1, NoHandleAssumption DEF Held
    <2>3. OwnershipEffect(Held(t), Held(t)')
      BY <1>4, <2>1, <2>2 DEF OwnershipEffect
    <2>4. {local'[t], returned'[t].handle} \intersect own'[t] = {}
      BY <1>2, <1>3, <1>4, <2>1, NoHandleAssumption
    <2> QED BY <2>3, <2>4, OthersKept, OthersOwn, EffectKeepsOwnership
  <1> QED BY <1>5, <1>6

\* A wrapper that goes on keeps what its thread holds, hands it over to the
\* caller, or destroys it; an error path destroys it too.
LEMMA AnswerOwnership ==
    ASSUME IInv, NEW t \in Threads, Answer(t)
    PROVE  HandlesOwnedOnce'
  <1> USE DEF IInv
  <1> DEFINE handle == returned[t].handle
  <1>1. /\ own[t] \subseteq Handles /\ local[t] \notin own[t] /\ handle \notin own[t]
        /\ local[t] \in Handles \union {NoHandle} /\ handle \in Handles \union {NoHandle}
    BY RecordTypes DEF TypeOK, HandlesOwnedOnce
  <1>2. Held(t) = (own[t] \union {local[t], handle}) \ {NoHandle}
    BY DEF Held
  <1>3. Held(t)' = (own'[t] \union {local'[t], returned'[t].handle}) \ {NoHandle}
    BY DEF Held
  <1>4. Finish(t) => returned'[t].handle = NoHandle
    BY DEF Finish, NoReturn, TypeOK
  <1>5. ASSUME ReturnErr(t) PROVE handle = NoHandle /\ Finish(t)
    BY <1>5 DEF ReturnErr, WrapperPhase
  <1>6. ASSUME NEW h, ReturnValue(t, h) PROVE Finish(t) /\ own'[t] = own[t] \union ({h} \ {NoHandle})
    BY <1>6 DEF ReturnValue, TypeOK
  <1>7. at[t] \notin LocalSteps => local[t] = NoHandle
    BY DEF WrapperPhase
  <1>8. ASSUME NEW h \in Held(t), Delete(h), Held(t)' = Held(t) \ {h}
        PROVE  OwnershipEffect(Held(t), Held(t)')
    BY <1>8 DEF OwnershipEffect, Delete
  <1>9. ASSUME heap' = heap, Held(t)' = Held(t)
        PROVE  OwnershipEffect(Held(t), Held(t)')
    BY <1>9 DEF OwnershipEffect
  <1>10. SUFFICES /\ OwnershipEffect(Held(t), Held(t)')
                  /\ {local'[t], returned'[t].handle} \intersect own'[t] = {}
    BY <1>10, OthersKept, OthersOwn, EffectKeepsOwnership
  <1> HIDE DEF handle
  <1>11. CASE Constructed(t)
    <2>1. heap' = heap /\ local' = local /\ local[t] = NoHandle /\ returned'[t].handle = NoHandle
      BY <1>4, <1>5, <1>6, <1>7, <1>11 DEF Constructed, LocalSteps
    <2>2. own'[t] = own[t] \union ({handle} \ {NoHandle})
      BY <1>5, <1>6, <1>11 DEF Constructed, handle
    <2> QED BY <1>1, <1>2, <1>3, <1>9, <2>1, <2>2, NoHandleAssumption
  <1>12. CASE GotPacket(t)
    <2>1. heap' = heap /\ local' = local /\ local[t] = NoHandle /\ returned'[t].handle = NoHandle
      BY <1>4, <1>5, <1>6, <1>7, <1>12 DEF GotPacket, LocalSteps
    <2>2. own'[t] = own[t] \union ({handle} \ {NoHandle})
      BY <1>5, <1>6, <1>12 DEF GotPacket, handle
    <2> QED BY <1>1, <1>2, <1>3, <1>9, <2>1, <2>2, NoHandleAssumption
  <1>13. CASE Opened(t)
    <2>1. heap' = heap /\ local[t] = NoHandle
      BY <1>7, <1>13 DEF Opened, LocalSteps
    <2>2. CASE Go(t, "filter")
      <3>1. own' = own /\ local'[t] = handle /\ returned' = returned
        BY <1>13, <2>2 DEF Opened, TypeOK, Go, ReturnErr, ReturnValue, Finish, handle
      <3> QED BY <1>1, <1>2, <1>3, <1>9, <2>1, <3>1, NoHandleAssumption DEF handle
    <2>3. CASE ~ Go(t, "filter")
      <3>1. local' = local /\ returned'[t].handle = NoHandle
        BY <1>4, <1>5, <1>6, <1>13, <2>3 DEF Opened
      <3>2. own'[t] = own[t] \union ({handle} \ {NoHandle})
        BY <1>5, <1>6, <1>13, <2>3 DEF Opened, handle
      <3> QED BY <1>1, <1>2, <1>3, <1>9, <2>1, <3>1, <3>2, NoHandleAssumption
    <2> QED BY <2>2, <2>3
  <1>14. CASE ApplyFilter(t) \/ ReadEntry(t)
    <2>1. heap' = heap /\ local' = local /\ own' = own /\ returned'[t].handle = NoHandle
      BY <1>14 DEF ApplyFilter, ReadEntry, wadjet_capture_set_filter, wadjet_device_list_get, Succeeds, Fails,
         ReturnCode, TypeOK
    <2>2. handle \in {local[t], NoHandle}
      BY <1>14 DEF ApplyFilter, ReadEntry, WrapperPhase, handle
    <2> QED BY <1>1, <1>2, <1>3, <1>9, <2>1, <2>2, NoHandleAssumption
  <1>15. CASE Filtered(t)
    <2>1. local'[t] = NoHandle /\ returned'[t].handle = NoHandle /\ handle = NoHandle
      BY <1>4, <1>5, <1>6, <1>15 DEF Filtered, TypeOK, WrapperPhase, handle
    <2>2. CASE ReturnErr(t) /\ Delete(local[t]) /\ UNCHANGED own
      <3>1. CASE local[t] \in Handles
        BY <1>1, <1>2, <1>3, <1>8, <2>1, <2>2, <3>1, NoHandleAssumption
      <3>2. CASE local[t] = NoHandle
        <4>1. heap' = heap
          BY <2>2, <3>2, NoHandleAssumption DEF Delete, TypeOK
        <4> QED BY <1>1, <1>2, <1>3, <1>9, <2>1, <2>2, <3>2, <4>1, NoHandleAssumption
      <3> QED BY <1>1, <3>1, <3>2
    <2>3. CASE ReturnValue(t, local[t]) /\ UNCHANGED heap
      <3>1. own'[t] = own[t] \union ({local[t]} \ {NoHandle})
        BY <1>6, <2>3
      <3> QED BY <1>1, <1>2, <1>3, <1>9, <2>1, <2>3, <3>1, NoHandleAssumption
    <2> QED BY <1>15, <2>2, <2>3 DEF Filtered
  <1>16. CASE Passed(t) \/ Processed(t) \/ OptionalReturned(t)
    <2>1. heap' = heap /\ local' = local /\ own' = own /\ returned'[t].handle = NoHandle
      BY <1>4, <1>5, <1>16 DEF Passed, Processed, OptionalReturned
    <2>2. handle = NoHandle
      BY <1>16 DEF Passed, Processed, OptionalReturned, WrapperPhase, handle
    <2> QED BY <1>1, <1>2, <1>3, <1>9, <2>1, <2>2, NoHandleAssumption
  <1>17. CASE Decoded(t)
    <2>1. local' = local /\ local[t] = NoHandle /\ returned'[t].handle = NoHandle
      BY <1>4, <1>6, <1>7, <1>17 DEF Decoded, LocalSteps
    <2>2. CASE returned[t].code # "OK" /\ UNCHANGED <<heap, own>>
      <3>1. handle = NoHandle
        BY <2>2 DEF WrapperPhase, handle
      <3> QED BY <1>1, <1>2, <1>3, <1>9, <2>1, <2>2, <3>1, NoHandleAssumption
    <2>3. CASE Delete(handle) /\ UNCHANGED own
      <3>1. CASE handle \in Handles
        BY <1>1, <1>2, <1>3, <1>8, <2>1, <2>3, <3>1, NoHandleAssumption
      <3>2. CASE handle = NoHandle
        <4>1. heap' = heap
          BY <2>3, <3>2, NoHandleAssumption DEF Delete, TypeOK
        <4> QED BY <1>1, <1>2, <1>3, <1>9, <2>1, <2>3, <3>2, <4>1, NoHandleAssumption
      <3> QED BY <1>1, <3>1, <3>2
    <2>4. CASE ReturnValue(t, handle) /\ UNCHANGED heap
      <3>1. own'[t] = own[t] \union ({handle} \ {NoHandle})
        BY <1>6, <2>4
      <3> QED BY <1>1, <1>2, <1>3, <1>9, <2>1, <2>4, <3>1, NoHandleAssumption
    <2> QED BY <1>17, <2>2, <2>3, <2>4 DEF Decoded, handle
  <1>18. CASE Listed(t)
    <2>1. heap' = heap /\ own' = own /\ local[t] = NoHandle
      BY <1>7, <1>18 DEF Listed, LocalSteps
    <2>2. CASE ReturnErr(t) /\ UNCHANGED local
      BY <1>1, <1>2, <1>3, <1>4, <1>5, <1>9, <2>1, <2>2, NoHandleAssumption
    <2>3. CASE local'[t] = handle /\ UNCHANGED returned
      BY <1>1, <1>2, <1>3, <1>9, <2>1, <2>3, NoHandleAssumption DEF handle
    <2> QED BY <1>18, <2>2, <2>3 DEF Listed, TypeOK, handle
  <1>19. CASE DestroyList(t)
    <2>1. own' = own /\ local'[t] = NoHandle /\ returned'[t].handle = NoHandle /\ Delete(local[t])
      BY <1>4, <1>19 DEF DestroyList, TypeOK
    <2>2. handle \in {local[t], NoHandle}
      BY <1>19 DEF DestroyList, WrapperPhase, handle
    <2>3. CASE local[t] \in Handles
      BY <1>1, <1>2, <1>3, <1>8, <2>1, <2>2, <2>3, NoHandleAssumption
    <2>4. CASE local[t] = NoHandle
      <3>1. heap' = heap
        BY <2>1, <2>4, NoHandleAssumption DEF Delete, TypeOK
      <3> QED BY <1>1, <1>2, <1>3, <1>9, <2>1, <2>2, <2>4, <3>1, NoHandleAssumption
    <2> QED BY <1>1, <2>3, <2>4
  <1> QED BY <1>11, <1>12, <1>13, <1>14, <1>15, <1>16, <1>17, <1>18, <1>19 DEF Answer

\* A value that is dropped is destroyed, and one that moves changes hands.
LEMMA QuietOwnership ==
    ASSUME IInv, NEW t \in Threads, Quiet(t)
    PROVE  HandlesOwnedOnce'
  <1> USE DEF IInv
  <1>1. CASE OnEvent(t) \/ EmitEvent(t) \/ RunListener(t) \/ RawCall(t)
    <2>1. UNCHANGED <<heap, own, local, returned>>
      BY <1>1 DEF OnEvent, EmitEvent, RunListener, RawCall, NullArgument, wadjet_clear_error,
         wadjet_diagnostic_manager_statistics, wadjet_diagnostic_manager_check_timeouts
    <2> QED BY <2>1 DEF HandlesOwnedOnce, Held
  <1>2. CASE Drop(t)
    <2>1. PICK h \in own[t] : heap' = [heap EXCEPT ![h] = "free"] /\ own' = [own EXCEPT ![t] = @ \ {h}]
      BY <1>2 DEF Drop, Delete
    <2>2. at[t] = "idle" /\ UNCHANGED <<local, returned>>
      BY <1>2 DEF Drop
    <2>3. local[t] = NoHandle /\ returned[t].handle = NoHandle
      BY <2>2 DEF WrapperPhase, LocalSteps, NoReturn
    <2>4. own[t] \subseteq Handles /\ own'[t] = own[t] \ {h}
      BY <2>1 DEF TypeOK
    <2>5. Held(t) = own[t] /\ Held(t)' = own[t] \ {h}
      BY <2>2, <2>3, <2>4, NoHandleAssumption DEF Held
    <2>6. OwnershipEffect(Held(t), Held(t)')
      BY <2>1, <2>5 DEF OwnershipEffect
    <2>7. {local'[t], returned'[t].handle} \intersect own'[t] = {}
      BY <2>2, <2>3, <2>4, NoHandleAssumption
    <2> QED BY <1>2, <2>6, <2>7, OthersKept, OthersOwn, EffectKeepsOwnership
  <1>3. ASSUME NEW u \in Threads, Move(t, u) PROVE HandlesOwnedOnce'
    <2>1. PICK h \in own[t] : own' = [own EXCEPT ![t] = @ \ {h}, ![u] = @ \union {h}]
      BY <1>3 DEF Move, Values
    <2>2. at[t] = "idle" /\ t # u /\ UNCHANGED <<heap, local, returned>>
      BY <1>3 DEF Move
    <2>3. local[t] = NoHandle /\ returned[t].handle = NoHandle
      BY <2>2 DEF WrapperPhase, LocalSteps, NoReturn
    <2>4. /\ own[t] \subseteq Handles
          /\ own'[t] = own[t] \ {h} /\ own'[u] = own[u] \union {h}
          /\ \A v \in Threads \ {t, u} : own'[v] = own[v]
      BY <2>1, <2>2 DEF TypeOK
    <2>5. Held(t)' = Held(t) \ {h} /\ h \in Held(t)
      BY <2>2, <2>3, <2>4, NoHandleAssumption DEF Held
    <2>6. Held(u)' = Held(u) \union {h}
      BY <2>2, <2>4, NoHandleAssumption DEF Held
    <2>7. \A v \in Threads \ {t, u} : Held(v)' = Held(v)
      BY <2>2, <2>4 DEF Held
    <2>8. /\ \A g \in Handles : heap[g] # "free" <=> \E v \in Threads : g \in Held(v)
          /\ \A v, w \in Threads : v # w => Held(v) \intersect Held(w) = {}
          /\ \A v \in Threads : {local[v], returned[v].handle} \intersect own[v] = {}
      BY DEF HandlesOwnedOnce
    <2>9. h \notin Held(u) /\ h \in Handles
      BY <2>2, <2>4, <2>5, <2>8
    <2>10. \A g \in Handles : (\E v \in Threads : g \in Held(v)') <=> (\E v \in Threads : g \in Held(v))
      BY <2>5, <2>6, <2>7, <2>2
    <2>11. \A v, w \in Threads : v # w => Held(v)' \intersect Held(w)' = {}
      BY <2>5, <2>6, <2>7, <2>8, <2>9
    <2>12. \A v \in Threads : {local'[v], returned'[v].handle} \intersect own'[v] = {}
      <3>1. h # local[u] /\ h # returned[u].handle
        BY <2>9, NoHandleAssumption DEF Held
      <3> QED BY <2>2, <2>4, <2>8, <3>1
    <2> QED BY <2>2, <2>8, <2>10, <2>11, <2>12 DEF HandlesOwnedOnce
  <1> QED BY <1>1, <1>2, <1>3 DEF Quiet

---------------------------------------------------------------------------
(* Listeners.                                                              *)

\* What another thread owns is neither destroyed nor taken from it, and its
\* contexts keep their counts.
LEMMA OthersManagers ==
    ASSUME IInv, NEW t \in Threads, Entry(t) \/ Answer(t) \/ Quiet(t),
           NEW u \in Threads, u # t, NEW h \in own[u], heap[h] # "free"
    PROVE  h \in own'[u] /\ heap'[h] = heap[h] /\ references'[h] = references[h]
  <1> USE DEF IInv
  <1>1. /\ h \in Handles /\ heap \in [Handles -> Kinds \union {"free"}]
        /\ own \in [Threads -> SUBSET Handles] /\ references \in [Handles -> Seq(Nat)]
    BY DEF TypeOK
  <1>2. h \in Held(u) /\ h \notin Held(t)
    BY <1>1, NoHandleAssumption DEF Held, HandlesOwnedOnce
  <1>3. h \notin own[t] /\ h # local[t] /\ h # returned[t].handle
    BY <1>1, <1>2, NoHandleAssumption DEF Held
  <1>4. references'[h] = references[h]
    BY <1>1, <1>3, ReferencesSteps
  <1>5. \A g : Delete(g) /\ g # h => heap'[h] = heap[h]
    BY <1>1 DEF Delete
  <1>6. heap'[h] = heap[h]
    <2>1. CASE Entry(t)
      <3>1. PICK step \in EntrySteps : CallOf(t, step)
        BY <2>1, EntryCalls
      <3>2. CASE \E kind \in Kinds : New(t, kind)
        BY <1>1, <3>2 DEF New
      <3> QED BY <3>1, <3>2 DEF CallOf, Fails, FailsSilently, Succeeds
    <2>2. CASE Answer(t)
      BY <1>3, <1>5, <2>2 DEF Answer, Constructed, Opened, ApplyFilter, Filtered, GotPacket, Passed,
         OptionalReturned, Decoded, Listed, ReadEntry, DestroyList, Processed, wadjet_capture_set_filter,
         wadjet_device_list_get, Fails, Succeeds
    <2>3. CASE Quiet(t)
      BY <1>3, <1>5, <2>3 DEF Quiet, OnEvent, EmitEvent, RunListener, Drop, RawCall, Move, NullArgument,
         wadjet_clear_error, wadjet_diagnostic_manager_statistics, wadjet_diagnostic_manager_check_timeouts
    <2> QED BY <2>1, <2>2, <2>3
  <1>7. h \in own'[u]
    <2>1. CASE Entry(t) \/ Answer(t) \/ Drop(t)
      BY <2>1, OthersOwn
    <2>2. ASSUME NEW v \in Threads, Move(t, v) PROVE h \in own'[u]
      BY <1>1, <2>2 DEF Move
    <2> QED BY <2>1, <2>2 DEF Quiet, OnEvent, EmitEvent, RunListener, RawCall
  <1> QED BY <1>4, <1>6, <1>7

\* A manager stays with the thread whose process() runs its listeners: the
\* thread itself neither drops nor moves it before it is done, and no other
\* thread has it.
LEMMA EventPhaseStep ==
    ASSUME IInv, NEW t \in Threads, Entry(t) \/ Answer(t) \/ Quiet(t)
    PROVE  EventPhase'
  <1> USE DEF IInv
  <1> DEFINE Phase(u) ==
        /\ at[u] # "process" => running[u] = NotRunning
        /\ at[u] = "process" =>
             /\ running[u].manager \in own[u]
             /\ heap[running[u].manager] = "manager"
             /\ running[u].left <= Len(references[running[u].manager])
  <1>1. ASSUME NEW u \in Threads, u # t PROVE Phase(u)'
    <2>1. Phase(u) /\ at'[u] = at[u] /\ running'[u] = running[u]
      BY <1>1, OthersKept, RunningTypes DEF EventPhase
    <2>2. CASE at[u] = "process"
      <3> DEFINE h == running[u].manager
      <3>1. h \in own[u] /\ heap[h] # "free" /\ heap[h] = "manager"
        BY <2>1, <2>2
      <3>2. h \in own'[u] /\ heap'[h] = heap[h] /\ references'[h] = references[h]
        BY <1>1, <3>1, OthersManagers
      <3> QED BY <2>1, <2>2, <3>1, <3>2
    <2> QED BY <2>1, <2>2
  <1>s. SUFFICES Phase(t)'
    <2> HIDE DEF Phase
    <2>1. \A u \in Threads : Phase(u)'
      BY <1>1, <1>s
    <2> QED BY <2>1 DEF EventPhase, Phase
  <1>2. Phase(t) /\ at \in [Threads -> Steps] /\ own \in [Threads -> SUBSET Handles]
        /\ running \in [Threads -> [manager : Handles \union {NoHandle}, left : Nat]]
        /\ references \in [Handles -> Seq(Nat)]
    BY DEF EventPhase, TypeOK
  <1>3. CASE Entry(t)
    <2>1. PICK step \in EntrySteps :
            Enter(t, step) /\ CallOf(t, step) /\ RunsOf(t, step) /\ UNCHANGED references
      BY <1>3, EntryCalls
    <2>2. at[t] = "idle" /\ at'[t] = step /\ own' = own
      BY <1>2, <2>1 DEF Enter, Go
    <2>3. CASE step # "process"
      BY <1>2, <2>1, <2>2, <2>3 DEF RunsOf
    <2>4. CASE step = "process"
      <3>1. heap' = heap
        BY <2>1, <2>4 DEF CallOf, FailsSilently, Succeeds
      <3>2. PICK h \in own[t] : heap[h] = "manager" /\ running' = [running EXCEPT ![t] = [manager |-> h, left |-> 0]]
        BY <2>1, <2>4 DEF RunsOf, Values
      <3>3. running'[t] = [manager |-> h, left |-> 0] /\ Len(references[h]) \in Nat
        BY <1>2, <3>2
      <3> QED BY <2>1, <2>2, <2>4, <3>1, <3>2, <3>3
    <2> QED BY <2>3, <2>4
  <1>4. CASE Processed(t)
    BY <1>2, <1>4 DEF Processed, ReturnErr, Finish, Go
  <1>5. CASE RunListener(t)
    <2> DEFINE run == running[t]
               n == Len(references[run.manager])
    <2>1. /\ at' = at /\ own' = own /\ heap' = heap /\ at[t] = "process"
          /\ running'[t].manager = run.manager /\ running'[t].left = run.left - 1
      BY <1>2, <1>5 DEF RunListener
    <2>2. references' = references
      BY <1>5, ReferencesSteps DEF RunListener, OnEvent, Drop
    <2>3. run.left \in Nat /\ n \in Nat /\ run.left <= n
      BY <1>2, <2>1
    <2>4. run.left - 1 <= n
      BY <2>3
    <2> QED BY <1>2, <2>1, <2>2, <2>4
  <1>6. CASE EmitEvent(t)
    <2> DEFINE run == running[t]
               n == Len(references[run.manager])
    <2>1. UNCHANGED <<at, own, heap, references>> /\ at[t] = "process" /\ running'[t].manager = run.manager
          /\ running'[t].left = n
      BY <1>2, <1>6 DEF EmitEvent
    <2>2. n \in Nat
      BY <1>2, <2>1
    <2> QED BY <1>2, <2>1, <2>2
  <1>7. CASE \/ Answer(t) /\ ~ Processed(t)
             \/ OnEvent(t) \/ Drop(t) \/ RawCall(t) \/ \E u \in Threads : Move(t, u)
    <2>1. at[t] # "process" /\ UNCHANGED running
      BY <1>7 DEF Answer, Constructed, Opened, ApplyFilter, Filtered, GotPacket, Passed, OptionalReturned,
         Decoded, Listed, ReadEntry, DestroyList, OnEvent, Drop, RawCall, Move
    <2>2. at'[t] # "process"
      BY <1>2, <1>7 DEF Answer, Constructed, Opened, ApplyFilter, Filtered, GotPacket, Passed, OptionalReturned,
         Decoded, Listed, ReadEntry, DestroyList, OnEvent, Drop, RawCall, Move, ReturnErr, ReturnValue, Finish, Go
    <2> QED BY <1>2, <2>1, <2>2
  <1> QED BY <1>3, <1>4, <1>5, <1>6, <1>7 DEF Quiet

---------------------------------------------------------------------------
\* The inductive invariant: types, the phases, and the properties themselves.
LEMMA Inductive == Spec => []IInv
  <1>1. ASSUME IInv, [Next]_vars PROVE IInv'
    <2>1. CASE Next
      <3>1. PICK t \in Threads : Entry(t) \/ Answer(t) \/ Quiet(t)
        BY <2>1, NextSteps
      <3>2. TypeOK'
        BY <1>1, TypeStep DEF IInv
      <3>3. HandlesOwnedOnce'
        BY <1>1, <3>1, EntryOwnership, AnswerOwnership, QuietOwnership
      <3> QED BY <1>1, <3>1, <3>2, <3>3, WrapperPhaseStep, MessagePhaseStep, MessageStep,
              EventTypes, EventPhaseStep DEF IInv
    <2>2. CASE UNCHANGED vars
      BY <1>1, <2>2, TypeStep DEF IInv, vars, WrapperPhase, HandlesOwnedOnce, Held, MessagePhase,
         MessageOfFailedCall, ContextCounts, EventPhase
    <2> QED BY <1>1, <2>1, <2>2
  <1> QED BY <1>1, InitIInv, PTL DEF Spec

\* Types of the crate's and the library's state: a code and a handle from
\* every call, and a message that some thread, or nobody, wrote.
THEOREM TypeCorrect == Spec => []TypeOK
  BY Inductive, PTL DEF IInv

\* The wrappers of lib.rs leak nothing and free nothing twice: for any number
\* of threads and handles, on every path through a wrapper and wherever its
\* values have moved, each object of the C library has one owner.
THEOREM OwnedOnce == Spec => []HandlesOwnedOnce
  BY Inductive, PTL DEF IInv

\* check_error reads the message of the call that failed, because the slot of
\* wadjet_get_last_error is thread-local and no wrapper makes another call in
\* between; process() is the only exception.
THEOREM MessageIsOwn == Spec => []MessageOfFailedCall
  BY Inductive, PTL DEF IInv

\* event_trampoline never runs a closure that was freed, and never one of a
\* manager that is gone: for any number of threads, managers, registrations and
\* events, because the C side keeps one reference of the latest context and a
\* manager is with the one thread that is in its process().
THEOREM ClosuresStayAlive == Spec => []ClosureAlive
  <1>1. IInv => ClosureAlive
    <2> SUFFICES ASSUME IInv, NEW t \in Threads, running[t].left > 0
                 PROVE  LET h == running[t].manager
                        IN /\ h \in own[t] /\ heap[h] = "manager"
                           /\ running[t].left <= Len(references[h])
                           /\ Latest(references[h]) > 0
      BY DEF ClosureAlive
    <2> DEFINE h == running[t].manager
               left == running[t].left
               n == Len(references[h])
    <2>1. at[t] = "process"
      BY DEF IInv, EventPhase, NotRunning
    <2>2. h \in own[t] /\ heap[h] = "manager" /\ left <= n
      BY <2>1 DEF IInv, EventPhase
    <2>3. h \in Handles /\ left \in Nat /\ n \in Nat
      BY <2>2 DEF IInv, TypeOK
    <2>4. n > 0
      BY <2>2, <2>3
    <2>5. Latest(references[h]) = NewContext
      BY <2>3, <2>4 DEF IInv, ContextCounts
    <2> QED BY <2>2, <2>5 DEF NewContext
  <1> QED BY <1>1, Inductive, PTL
=============================================================================
