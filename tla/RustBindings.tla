---------------------------- MODULE RustBindings ----------------------------
(***************************************************************************)
(* The Rust crate over the C interface.  A value owns one handle and       *)
(* destroys it when it is dropped; a wrapper makes its C calls one by one  *)
(* and turns a code into a Result in check_error, which reads the last     *)
(* error message only then.  Other threads run between any two steps.      *)
(* The UDS objects have no wrapper: a C program calls them the same way.   *)
(***************************************************************************)
EXTENDS CApi

LOCAL INSTANCE TLC

CONSTANTS MaxRegistrations  \* event callbacks registered with one manager

ASSUME MaxRegistrationsAssumption == MaxRegistrations \in Nat

VARIABLES
    at,             \* the step a thread's wrapper is about to take
    local,          \* the handle in a local of that wrapper
    own,            \* handles of the values each thread owns
    report,         \* the Err a thread's last wrapper returned: from where, with which message
    references,     \* strong counts of the contexts passed to on_event, per manager
    running         \* process() of a thread: its manager, and the listeners still to
                    \* be called for the event at hand

wrapperVars == <<at, local, own, report>>
eventVars == <<references, running>>
vars == <<heap, lastError, returned, at, local, own, report, references, running>>

Symmetry == Permutations(Threads) \union Permutations(Handles)

NoReport == [from |-> "none", message |-> NoMessage]

\* The message of an error that has a text of its own.
OwnText == [by |-> "text", fresh |-> TRUE]

NoReturn == [code |-> "OK", handle |-> NoHandle]

NotRunning == [manager |-> NoHandle, left |-> 0]

Init ==
    /\ heap = [h \in Handles |-> "free"]
    /\ lastError = [t \in Threads |-> NoMessage]
    /\ returned = [t \in Threads |-> NoReturn]
    /\ at = [t \in Threads |-> "idle"]
    /\ local = [t \in Threads |-> NoHandle]
    /\ own = [t \in Threads |-> {}]
    /\ report = [t \in Threads |-> NoReport]
    /\ references = [h \in Handles |-> <<>>]
    /\ running = [t \in Threads |-> NotRunning]

Values(t, kinds) == {h \in own[t] : heap[h] \in kinds}

Go(t, step) == at' = [at EXCEPT ![t] = step]

\* A wrapper is entered with a C call; its earlier error is forgotten.
Enter(t, step) ==
    /\ at[t] = "idle"
    /\ Go(t, step)
    /\ report' = [report EXCEPT ![t] = NoReport]
    /\ UNCHANGED <<local, own>>

\* The message in the Err of check_error; an OUT_OF_MEMORY or a TIMEOUT has
\* a text of its own.
ErrorMessage(t) ==
    IF returned[t].code \in {"OUT_OF_MEMORY", "TIMEOUT"} THEN OwnText ELSE lastError[Slot(t)]

Finish(t) ==
    /\ Go(t, "idle")
    /\ returned' = [returned EXCEPT ![t] = NoReturn]

\* check_error, its Err returned to the caller.
ReturnErr(t) ==
    /\ returned[t].code # "OK"
    /\ report' = [report EXCEPT ![t] = [from |-> at[t], message |-> ErrorMessage(t)]]
    /\ Finish(t)

ReturnValue(t, h) ==
    /\ own' = [own EXCEPT ![t] = @ \union ({h} \ {NoHandle})]
    /\ Finish(t)
    /\ UNCHANGED report

---------------------------------------------------------------------------
\* PcapReader::open, PcapWriter::create, packet_from_data,
\* DiagnosticSessionManager::new, ProtocolValidator::new.
Construct(t) ==
    /\ Enter(t, "construct")
    /\ \/ wadjet_pcap_reader_open(t)
       \/ wadjet_pcap_writer_create(t)
       \/ wadjet_packet_create(t)
       \/ wadjet_diagnostic_manager_create(t)
       \/ wadjet_protocol_validator_create(t)
       \/ wadjet_uds_decoder_create(t)
       \/ wadjet_uds_session_create(t)
    /\ UNCHANGED eventVars

Constructed(t) ==
    /\ at[t] = "construct"
    /\ \/ ReturnErr(t) /\ UNCHANGED own
       \/ returned[t].code = "OK" /\ ReturnValue(t, returned[t].handle)
    /\ UNCHANGED <<heap, lastError, local, references, running>>

\* CaptureSession::open, with or without a filter in its options.
Open(t) == Enter(t, "open") /\ wadjet_capture_create(t) /\ UNCHANGED eventVars

Opened(t) ==
    /\ at[t] = "open"
    /\ \/ ReturnErr(t) /\ UNCHANGED <<own, local>>
       \/ returned[t].code = "OK" /\ ReturnValue(t, returned[t].handle) /\ UNCHANGED local
       \/ /\ returned[t].code = "OK"
          /\ Go(t, "filter")
          /\ local' = [local EXCEPT ![t] = returned[t].handle]
          /\ UNCHANGED <<own, report, returned>>
    /\ UNCHANGED <<heap, lastError, references, running>>

ApplyFilter(t) ==
    /\ at[t] = "filter"
    /\ Go(t, "filtered")
    /\ wadjet_capture_set_filter(t)
    /\ UNCHANGED <<local, own, report, references, running>>

\* The error is made before the session of the early return is dropped.
Filtered(t) ==
    /\ at[t] = "filtered"
    /\ local' = [local EXCEPT ![t] = NoHandle]
    /\ \/ ReturnErr(t) /\ Delete(local[t]) /\ UNCHANGED own
       \/ returned[t].code = "OK" /\ ReturnValue(t, local[t]) /\ UNCHANGED heap
    /\ UNCHANGED <<lastError, references, running>>

\* CaptureSession::next_packet and PcapReader::next_packet, where a timeout
\* and the end of the file are no error.
NextPacket(t) ==
    /\ \/ Values(t, {"capture"}) # {} /\ Enter(t, "next") /\ wadjet_capture_next_packet(t)
       \/ Values(t, {"reader"}) # {} /\ Enter(t, "next") /\ wadjet_pcap_reader_next(t)
    /\ UNCHANGED eventVars

GotPacket(t) ==
    /\ at[t] = "next"
    /\ \/ returned[t].code \notin {"TIMEOUT", "NOT_FOUND"} /\ ReturnErr(t) /\ UNCHANGED own
       \/ /\ returned[t].code \in {"OK", "TIMEOUT", "NOT_FOUND"}
          /\ ReturnValue(t, returned[t].handle)
    /\ UNCHANGED <<heap, lastError, local, references, running>>

\* The methods that only pass a code on.
Method(t) ==
    /\ Enter(t, "method")
    /\ \/ /\ Values(t, {"capture"}) # {}
          /\ wadjet_capture_start(t) \/ wadjet_capture_set_filter(t) \/ wadjet_capture_stats(t)
       \/ Values(t, {"reader"}) # {} /\ wadjet_pcap_reader_reset(t)
       \/ Values(t, {"writer"}) # {} /\ (wadjet_pcap_writer_write(t) \/ wadjet_pcap_writer_flush(t))
       \/ Values(t, {"udsDecoder"}) # {} /\ wadjet_uds_decode(t)
       \/ Values(t, {"udsSession"}) # {} /\ wadjet_uds_session_process(t)
       \/ /\ Values(t, {"packet"}) # {}
          /\ wadjet_packet_data(t) \/ wadjet_packet_timestamp(t) \/ wadjet_packet_view(t)
       \/ /\ Values(t, {"decoded"}) # {}
          /\ wadjet_decode_result_uds(t) \/ wadjet_decode_result_gptp(t)
       \/ wadjet_mac_from_string(t) \/ wadjet_ipv4_from_string(t)
       \/ /\ Values(t, {"validator"}) # {}
          /\ wadjet_protocol_validator_set_mode(t) \/ wadjet_protocol_validator_get_mode(t)
    /\ UNCHANGED eventVars

Passed(t) ==
    /\ at[t] = "method"
    /\ \/ ReturnErr(t)
       \/ returned[t].code = "OK" /\ Finish(t) /\ UNCHANGED report
    /\ UNCHANGED <<heap, lastError, local, own, references, running>>

\* payload_after and get_session turn every code into None.
Optional(t) ==
    /\ Enter(t, "optional")
    /\ \/ Values(t, {"decoded"}) # {} /\ wadjet_decode_result_payload(t)
       \/ Values(t, {"manager"}) # {} /\ wadjet_diagnostic_manager_get_session(t)
    /\ UNCHANGED eventVars

OptionalReturned(t) ==
    /\ at[t] = "optional"
    /\ Finish(t)
    /\ UNCHANGED <<heap, lastError, local, own, report, references, running>>

\* Packet::decode: a decode that failed is destroyed at once; otherwise the
\* headers are copied, and the getter of a missing layer leaves its message
\* (UDP and TCP are never both there).
Decode(t) ==
    /\ Values(t, {"packet"}) # {}
    /\ Enter(t, "decode")
    /\ wadjet_decode_packet(t)
    /\ UNCHANGED eventVars

Decoded(t) ==
    /\ at[t] = "decode"
    /\ \/ returned[t].code # "OK" /\ Finish(t) /\ UNCHANGED <<heap, lastError, own, report>>
       \/ returned[t].code = "OK" /\ Delete(returned[t].handle) /\ Finish(t) /\ UNCHANGED <<lastError, own, report>>
       \/ returned[t].code = "OK" /\ LayerNotPresent(t) /\ ReturnValue(t, returned[t].handle) /\ UNCHANGED heap
    /\ UNCHANGED <<local, references, running>>

\* list_devices: the list is read entry by entry and destroyed.
ListDevices(t) == Enter(t, "devices") /\ wadjet_device_enumerate(t) /\ UNCHANGED eventVars

Listed(t) ==
    /\ at[t] = "devices"
    /\ \/ ReturnErr(t) /\ UNCHANGED local
       \/ /\ returned[t].code = "OK"
          /\ Go(t, "listing")
          /\ local' = [local EXCEPT ![t] = returned[t].handle]
          /\ UNCHANGED <<report, returned>>
    /\ UNCHANGED <<heap, lastError, own, references, running>>

ReadEntry(t) ==
    /\ at[t] = "listing"
    /\ wadjet_device_list_get(t, TRUE)
    /\ UNCHANGED <<at, local, own, report, references, running>>

DestroyList(t) ==
    /\ at[t] = "listing"
    /\ Delete(local[t])
    /\ local' = [local EXCEPT ![t] = NoHandle]
    /\ Finish(t)
    /\ UNCHANGED <<lastError, own, report, references, running>>

---------------------------------------------------------------------------
\* The context of the closure registered last, which the C side calls.
Latest(counts) == counts[Len(counts)]

\* on_event: one reference of the new context goes to the C side as user_data
\* and never comes back, the other replaces the manager's own.
NewContext == 2

OnEvent(t) ==
    /\ at[t] = "idle"
    /\ \E h \in Values(t, {"manager"}) :
         /\ Len(references[h]) < MaxRegistrations
         /\ references' = [references EXCEPT ![h] =
                             [i \in 1..(Len(@) + 1) |-> IF i > Len(@) THEN NewContext
                                                       ELSE IF i = Len(@) THEN @[i] - 1 ELSE @[i]]]
    /\ UNCHANGED <<heap, lastError, returned, at, local, own, report, running>>

\* process: an accepted packet may cause events.
Process(t) ==
    /\ Enter(t, "process")
    /\ wadjet_diagnostic_manager_process(t)
    /\ \E h \in Values(t, {"manager"}) : running' = [running EXCEPT ![t] = [manager |-> h, left |-> 0]]
    /\ UNCHANGED references

\* An event is for all listeners, one from each on_event.
EmitEvent(t) ==
    /\ at[t] = "process" /\ returned[t].code = "OK"
    /\ running[t].left = 0
    /\ running' = [running EXCEPT ![t].left = Len(references[running[t].manager])]
    /\ UNCHANGED <<heap, lastError, returned, at, local, own, report, references>>

\* A trampoline that takes the reference it is called with for its own.
OwningTrampoline(count) == IF count > 0 THEN count - 1 ELSE 0

\* event_trampoline borrows the context.
Trampoline(count) == count

\* A listener calls the callback and the user_data set last.
RunListener(t) ==
    /\ at[t] = "process"
    /\ running[t].left > 0
    /\ LET h == running[t].manager
       IN references' = [references EXCEPT ![h][Len(references[h])] = Trampoline(@)]
    /\ running' = [running EXCEPT ![t].left = @ - 1]
    /\ UNCHANGED <<heap, lastError, returned, at, local, own, report>>

Processed(t) ==
    /\ at[t] = "process"
    /\ running[t].left = 0
    /\ running' = [running EXCEPT ![t] = NotRunning]
    /\ \/ ReturnErr(t)
       \/ returned[t].code = "OK" /\ Finish(t) /\ UNCHANGED report
    /\ UNCHANGED <<heap, lastError, local, own, references>>

---------------------------------------------------------------------------
\* A value goes out of scope, a manager before its context.  The references on
\* the C side are lost: no context is ever freed.
Drop(t) ==
    /\ at[t] = "idle"
    /\ \E h \in own[t] :
         /\ Delete(h)
         /\ own' = [own EXCEPT ![t] = @ \ {h}]
         /\ references' = [references EXCEPT ![h] = <<>>]
    /\ UNCHANGED <<lastError, returned, at, local, report, running>>

\* The types marked Send move to another thread.
Sendable == {"capture", "packet", "reader", "writer", "decoded", "manager"}

Move(t, u) ==
    /\ t # u
    /\ at[t] = "idle"
    /\ \E h \in Values(t, Sendable) :
         own' = [own EXCEPT ![t] = @ \ {h}, ![u] = @ \union {h}]
    /\ UNCHANGED <<heap, lastError, returned, at, local, report, references, running>>

\* A C program passes NULL, reads the counters, checks timeouts or clears the
\* message.
RawCall(t) ==
    /\ at[t] = "idle"
    /\ \/ NullArgument(t) \/ wadjet_clear_error(t)
       \/ /\ Values(t, {"manager"}) # {}
          /\ \/ wadjet_diagnostic_manager_statistics(t)
             \/ wadjet_diagnostic_manager_check_timeouts(t)
    /\ UNCHANGED <<at, local, own, report, references, running>>

Next ==
    \E t \in Threads :
        \/ Construct(t) \/ Constructed(t)
        \/ Open(t) \/ Opened(t) \/ ApplyFilter(t) \/ Filtered(t)
        \/ NextPacket(t) \/ GotPacket(t)
        \/ Method(t) \/ Passed(t)
        \/ Optional(t) \/ OptionalReturned(t)
        \/ Decode(t) \/ Decoded(t)
        \/ ListDevices(t) \/ Listed(t) \/ ReadEntry(t) \/ DestroyList(t)
        \/ OnEvent(t) \/ Process(t) \/ EmitEvent(t) \/ RunListener(t) \/ Processed(t)
        \/ Drop(t) \/ RawCall(t)
        \/ \E u \in Threads : Move(t, u)

Spec == Init /\ [][Next]_vars

---------------------------------------------------------------------------
\* Where a thread's wrapper can be.
Steps == {"idle", "construct", "open", "filter", "filtered", "next", "method", "optional", "decode",
          "devices", "listing", "process"}

Messages == [by : Threads \union {"nobody", "text"}, fresh : BOOLEAN]

Returns == [code : {"OK"} \union ResultCodes \union Memory, handle : Handles \union {NoHandle}]

Reports == [from : Steps \union {"none"}, message : Messages]

TypeOK ==
    /\ heap \in [Handles -> Kinds \union {"free"}]
    /\ lastError \in [Threads -> Messages]
    /\ returned \in [Threads -> Returns]
    /\ at \in [Threads -> Steps]
    /\ local \in [Threads -> Handles \union {NoHandle}]
    /\ own \in [Threads -> SUBSET Handles]
    /\ report \in [Threads -> Reports]
    /\ references \in [Handles -> Seq(Nat)]
    /\ running \in [Threads -> [manager : Handles \union {NoHandle}, left : Nat]]

\* What thread t must free: its values, the local of the wrapper it is in,
\* and a handle a C call has just given it.
Held(t) == (own[t] \union {local[t], returned[t].handle}) \ {NoHandle}

\* Every object of the C library has exactly one owner, in every wrapper at
\* every step and on every error path: none is leaked, and none is destroyed
\* while a value, a local or another thread still refers to it.
HandlesOwnedOnce ==
    /\ \A h \in Handles : heap[h] # "free" <=> \E t \in Threads : h \in Held(t)
    /\ \A t, u \in Threads : t # u => Held(t) \intersect Held(u) = {}
    /\ \A t \in Threads : {local[t], returned[t].handle} \intersect own[t] = {}

\* The message in an Err was written by the C call that failed, on the thread
\* that made it, although it is read in a later step and values move between
\* threads.  Only an error of process() carries the message of an earlier
\* call of its thread, or none.
MessageOfFailedCall ==
    \A t \in Threads :
        LET message == report[t].message
        IN  CASE report[t].from = "none" -> message = NoMessage
              [] report[t].from = "process" -> message.by \in {t, "nobody"}
              [] OTHER -> message \in {OwnText, [by |-> t, fresh |-> TRUE]}

\* While the listeners of an event are called, one after the other and once for
\* each on_event, the manager they read the callback from is neither destroyed
\* nor with another thread, and the closure they are about to call is alive,
\* whatever was registered, called and dropped before.
ClosureAlive ==
    \A t \in Threads : running[t].left > 0 =>
        LET h == running[t].manager
        IN /\ h \in own[t] /\ heap[h] = "manager"
           /\ running[t].left <= Len(references[h])
           /\ Latest(references[h]) > 0

\* Not so: "Only one callback can be registered at a time" (diagnostic.rs:606),
\* but the closure registered last is called once for every on_event.
DeliveredOnce == \A t \in Threads : running[t].left <= 1
=============================================================================
