-------------------------------- MODULE CApi --------------------------------
(***************************************************************************)
(* The C interface: opaque handles on the heap, an error code from every   *)
(* call, and the message of the last failing call in thread-local storage. *)
(* A function is modelled by the codes it may return for arguments that    *)
(* are not NULL, by what it allocates, and by whether it leaves a message. *)
(* A message is known by the thread that wrote it and by whether the call  *)
(* made last on that thread wrote it.                                      *)
(***************************************************************************)
EXTENDS Integers, Sequences

CONSTANTS
    Threads,    \* threads of the calling program
    Handles,    \* addresses a handle may have
    NoHandle    \* nullptr

ASSUME NoHandleAssumption == NoHandle \notin Handles

VARIABLES
    heap,       \* what lives at an address, "free" when nothing does
    lastError,  \* g_last_error of each thread
    returned    \* code and output handle of the last call of each thread

apiVars == <<heap, lastError, returned>>

Kinds == {"capture", "packet", "reader", "writer", "decoded", "devices", "udsDecoder",
          "udsSession", "manager", "validator"}

NoMessage == [by |-> "nobody", fresh |-> FALSE]

\* Codes of handle_result: NOT_FOUND and TIMEOUT are told apart by callers,
\* "ERROR" stands for the other codes that are reported with their message.
ResultCodes == {"NOT_FOUND", "TIMEOUT", "ERROR"}

Memory == {"OUT_OF_MEMORY"}

\* One slot for all threads.
SharedSlot(t) == CHOOSE u \in Threads : TRUE

\* thread_local g_last_error
Slot(t) == t

\* set_last_error
SetLastError(t) == lastError' = [lastError EXCEPT ![Slot(t)] = [by |-> t, fresh |-> TRUE]]

\* A call that sets no message leaves the message of an earlier call.
KeepLastError(t) ==
    lastError' = [lastError EXCEPT ![Slot(t)] = [by |-> @.by, fresh |-> FALSE]]

ReturnCode(t, code, h) == returned' = [returned EXCEPT ![t] = [code |-> code, handle |-> h]]

Fails(t, codes) == \E code \in codes : ReturnCode(t, code, NoHandle) /\ SetLastError(t) /\ UNCHANGED heap

FailsSilently(t, code) == ReturnCode(t, code, NoHandle) /\ KeepLastError(t) /\ UNCHANGED heap

Succeeds(t) == ReturnCode(t, "OK", NoHandle) /\ KeepLastError(t) /\ UNCHANGED heap

New(t, kind) ==
    \E h \in Handles :
        /\ heap[h] = "free"
        /\ heap' = [heap EXCEPT ![h] = kind]
        /\ ReturnCode(t, "OK", h)
        /\ KeepLastError(t)

Delete(h) == heap' = [heap EXCEPT ![h] = "free"]

\* Every function checks its pointers first.
NullArgument(t) == SetLastError(t) /\ UNCHANGED <<heap, returned>>

wadjet_clear_error(t) ==
    /\ lastError' = [lastError EXCEPT ![Slot(t)] = NoMessage]
    /\ UNCHANGED <<heap, returned>>

wadjet_capture_create(t) == New(t, "capture") \/ Fails(t, ResultCodes \union Memory)

wadjet_capture_set_filter(t) == Succeeds(t) \/ Fails(t, ResultCodes)

wadjet_capture_start(t) == Succeeds(t) \/ Fails(t, ResultCodes)

wadjet_capture_next_packet(t) ==
    New(t, "packet") \/ FailsSilently(t, "TIMEOUT") \/ Fails(t, Memory)

wadjet_capture_stats(t) == Succeeds(t)

wadjet_packet_create(t) == New(t, "packet") \/ Fails(t, Memory)

\* The bytes and the time of a packet, and both at once.
wadjet_packet_data(t) == Succeeds(t)

wadjet_packet_timestamp(t) == Succeeds(t)

wadjet_packet_view(t) == Succeeds(t)

wadjet_pcap_reader_open(t) == New(t, "reader") \/ Fails(t, ResultCodes \union Memory)

\* The end of the file, and a record that cannot be read.
wadjet_pcap_reader_next(t) ==
    New(t, "packet") \/ FailsSilently(t, "NOT_FOUND") \/ Fails(t, Memory)

wadjet_pcap_reader_reset(t) == Succeeds(t)

wadjet_pcap_writer_create(t) == New(t, "writer") \/ Fails(t, ResultCodes \union Memory)

wadjet_pcap_writer_write(t) == Succeeds(t) \/ Fails(t, ResultCodes)

\* The result of the flush is dropped.
wadjet_pcap_writer_flush(t) == Succeeds(t)

wadjet_decode_packet(t) == New(t, "decoded") \/ Fails(t, Memory)

\* A header getter whose layer is not there.
LayerNotPresent(t) == SetLastError(t)

wadjet_decode_result_gptp(t) == Succeeds(t) \/ Fails(t, {"NOT_FOUND"})

wadjet_decode_result_payload(t) == Succeeds(t) \/ Fails(t, {"NOT_FOUND"})

wadjet_decode_result_uds(t) == Succeeds(t) \/ Fails(t, {"NOT_FOUND", "ERROR"})

\* The list stays allocated when the devices cannot be read.
EnumerateKeepingList(t) ==
    \/ New(t, "devices")
    \/ \E h \in Handles, code \in ResultCodes :
         /\ heap[h] = "free"
         /\ heap' = [heap EXCEPT ![h] = "devices"]
         /\ ReturnCode(t, code, NoHandle) /\ SetLastError(t)
    \/ Fails(t, Memory)

\* The list is allocated first and deleted when the devices cannot be read.
wadjet_device_enumerate(t) == New(t, "devices") \/ Fails(t, ResultCodes \union Memory)

\* With an index below wadjet_device_list_count, or beyond it.
wadjet_device_list_get(t, inside) == IF inside THEN Succeeds(t) ELSE Fails(t, {"ERROR"})

\* from_string throws away whether its parser understood the text, and throws
\* nothing: a text that is no address is no error.
wadjet_mac_from_string(t) == Succeeds(t)

wadjet_ipv4_from_string(t) == Succeeds(t)

wadjet_uds_decoder_create(t) == New(t, "udsDecoder") \/ Fails(t, Memory)

wadjet_uds_decode(t) == Succeeds(t) \/ Fails(t, {"ERROR"})

wadjet_uds_session_create(t) == New(t, "udsSession") \/ Fails(t, Memory)

wadjet_uds_session_process(t) == Succeeds(t) \/ Fails(t, {"ERROR"})

wadjet_diagnostic_manager_create(t) == New(t, "manager") \/ Fails(t, Memory)

\* A packet that process_doip_raw does not take leaves no message.
wadjet_diagnostic_manager_process(t) == Succeeds(t) \/ FailsSilently(t, "ERROR")

wadjet_diagnostic_manager_get_session(t) == Succeeds(t) \/ Fails(t, {"NOT_FOUND"})

\* The counters of the correlator: no code, no message.
wadjet_diagnostic_manager_statistics(t) == KeepLastError(t) /\ UNCHANGED <<heap, returned>>

\* A timeout comes without a pair, and is told to no listener of the manager.
wadjet_diagnostic_manager_check_timeouts(t) == KeepLastError(t) /\ UNCHANGED <<heap, returned>>

wadjet_protocol_validator_create(t) == New(t, "validator") \/ Fails(t, Memory)

wadjet_protocol_validator_set_mode(t) == Succeeds(t)

wadjet_protocol_validator_get_mode(t) == Succeeds(t)
=============================================================================
