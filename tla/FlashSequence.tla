--------------------------- MODULE FlashSequence ---------------------------
(***************************************************************************)
(* The flash programming tracker (flash_sequence.cpp).  It watches the UDS *)
(* messages between testers and ECUs and keeps, per ECU, the sequence in   *)
(* progress (erase, download or upload, block transfer, verification) and  *)
(* a bounded history of earlier ones.  Every method holds one mutex, so    *)
(* each is one atomic action; the messages come in any order, since the    *)
(* tracker sees whatever was captured.                                     *)
(*                                                                         *)
(* Abstractions.  Every block has the same size and region sizes are left  *)
(* out, as are texts, durations, error codes and expected_sequence_counter *)
(* (nothing reads it).  Download and upload differ only in operation_type. *)
(* The time since start_time is an age that saturates at MaxAge; where the *)
(* code leaves start_time unset the age is MaxAge: the host has been up    *)
(* for longer than sequence_timeout.  process_transfer_exit does nothing.  *)
(***************************************************************************)
EXTENDS Integers, Sequences, FiniteSets

CONSTANTS
  Ecu,                  \* LogicalAddress of an ECU
  Counter,              \* block sequence counters (they wrap around)
  MaxRetries,           \* negative responses to TransferData that are tolerated
  MaxHistory,           \* Options::max_history
  SequenceTimeout,      \* Options::sequence_timeout
  MaxAge,               \* bound: where ages saturate
  TrackErase,           \* Options::track_erase_routines
  TrackVerification,    \* Options::track_verification
  MaxMessages           \* bound: messages and calls in a behaviour

ASSUME FlashAssumption ==
  /\ IsFiniteSet(Ecu)
  /\ MaxRetries \in Nat
  /\ MaxHistory \in Nat
  /\ SequenceTimeout \in Nat
  /\ MaxAge \in Nat
  /\ SequenceTimeout < MaxAge
  /\ TrackErase \in BOOLEAN /\ TrackVerification \in BOOLEAN
  /\ MaxMessages \in Nat

VARIABLES
  active,    \* active_sequences_
  history,   \* history_
  stats,     \* stats_: the outcomes
  forgotten, \* auxiliary: the outcomes counted before the last reset_statistics
  messages   \* messages and calls so far

vars == <<active, history, stats, forgotten, messages>>
-----------------------------------------------------------------------------
FlashSequenceState ==
  {"Idle", "EraseStarted", "EraseComplete", "Downloading", "Transferring",
   "Verifying", "Complete", "Failed", "Aborted"}

FlashBlock == [sequence_counter : Counter, acknowledged : BOOLEAN]

Sequence == [state : FlashSequenceState, blocks : Seq(FlashBlock),
             retry_count : Nat, age : 0 .. MaxAge]

\* What an ECU without a sequence has.
NoSequence == [state |-> "None"]

Outcomes == [completed : Nat, failed : Nat, aborted : Nat]
NoOutcomes == [completed |-> 0, failed |-> 0, aborted |-> 0]

TypeOK ==
  /\ active \in [Ecu -> Sequence \cup {NoSequence}]
  /\ history \in [Ecu -> Seq(Sequence)]
  /\ stats \in Outcomes
  /\ forgotten \in Outcomes
  /\ messages \in 0 .. MaxMessages

Tracked(ecu) == active[ecu] # NoSequence

is_active(seq) == seq.state \in {"Downloading", "Transferring", "Erasing", "Verifying"}

\* Fault variants: plausible slips in the definitions below.
AcknowledgedLast(blocks, counter) ==
  [i \in DOMAIN blocks |->
     IF /\ blocks[i].sequence_counter = counter
        /\ \A j \in DOMAIN blocks : blocks[j].sequence_counter = counter => j <= i
     THEN [blocks[i] EXCEPT !.acknowledged = TRUE] ELSE blocks[i]]
TimedOutUnlessVerifying(seq) ==
  seq.state \in {"Downloading", "Transferring"} /\ seq.age > SequenceTimeout
ReusedWhileTransferring(ecu) ==
  IF active[ecu].state \in {"Transferring", "None"} THEN history
  ELSE [history EXCEPT ![ecu] = Append(@, active[ecu])]
-----------------------------------------------------------------------------
\* history_[ecu] after archive_sequence: appended, then cut to the limit.
Archived(archived, seq) ==
  LET longer == Append(archived, seq)
  IN  IF Len(longer) > MaxHistory THEN Tail(longer) ELSE longer

NewSequence == [state |-> "Idle", blocks |-> <<>>, retry_count |-> 0, age |-> MaxAge]

\* get_or_create_sequence: an active sequence is reused as it is, with its
\* blocks and retries; one that is over is archived and replaced.
get_or_create_sequence(ecu) ==
  IF is_active(active[ecu]) THEN active[ecu] ELSE NewSequence

HistoryAfterGet(ecu) ==
  IF is_active(active[ecu]) \/ ~ Tracked(ecu) THEN history
  ELSE [history EXCEPT ![ecu] = Archived(@, active[ecu])]

\* The first block with this counter that still waits is acknowledged.
Acknowledged(blocks, counter) ==
  LET waits(i) == /\ blocks[i].sequence_counter = counter
                  /\ ~ blocks[i].acknowledged
      first(i) == waits(i) /\ \A j \in DOMAIN blocks : waits(j) => i <= j
  IN  [i \in DOMAIN blocks |->
         IF first(i) THEN [blocks[i] EXCEPT !.acknowledged = TRUE] ELSE blocks[i]]

\* complete_sequence: the statistics it leaves.
Counted(outcome) == [stats EXCEPT ![outcome] = @ + 1]

TimedOut(seq) == is_active(seq) /\ seq.age > SequenceTimeout
-----------------------------------------------------------------------------
Init ==
  /\ active = [ecu \in Ecu |-> NoSequence]
  /\ history = [ecu \in Ecu |-> <<>>]
  /\ stats = NoOutcomes
  /\ forgotten = NoOutcomes
  /\ messages = 0

Receive == messages < MaxMessages /\ messages' = messages + 1

\* RequestDownload and RequestUpload: the clock restarts, nothing else of a
\* sequence that is still active does.
BeginTransfer(ecu) ==
  /\ Receive
  /\ history' = HistoryAfterGet(ecu)
  /\ active' = [active EXCEPT ![ecu] =
                  [get_or_create_sequence(ecu) EXCEPT !.state = "Downloading", !.age = 0]]
  /\ UNCHANGED <<stats, forgotten>>

process_request_download(ecu) == BeginTransfer(ecu)
process_request_upload(ecu) == BeginTransfer(ecu)

\* The positive response to either: whatever state the sequence is in.
AcceptTransfer(ecu) ==
  /\ Receive
  /\ Tracked(ecu)
  /\ active' = [active EXCEPT ![ecu].state = "Transferring"]
  /\ UNCHANGED <<history, stats, forgotten>>

process_request_download_response(ecu) == AcceptTransfer(ecu)
process_request_upload_response(ecu) == AcceptTransfer(ecu)

process_transfer_data(ecu, counter) ==
  /\ Receive
  /\ Tracked(ecu)
  /\ active' = [active EXCEPT ![ecu].blocks =
                  Append(@, [sequence_counter |-> counter, acknowledged |-> FALSE])]
  /\ UNCHANGED <<history, stats, forgotten>>

process_transfer_data_response(ecu, counter) ==
  /\ Receive
  /\ Tracked(ecu)
  /\ active' = [active EXCEPT ![ecu].blocks = Acknowledged(@, counter)]
  /\ UNCHANGED <<history, stats, forgotten>>

process_transfer_exit_response(ecu) ==
  /\ Receive
  /\ Tracked(ecu)
  /\ active' = [active EXCEPT ![ecu].state = "Complete"]
  /\ stats' = Counted("completed")
  /\ UNCHANGED <<history, forgotten>>

\* process_negative_response: a rejected block is a retry, up to the limit; a
\* rejected request or exit ends the sequence.  Other services change nothing.
RejectTransferData(ecu) ==
  /\ Receive
  /\ Tracked(ecu)
  /\ \/ /\ active[ecu].retry_count + 1 > MaxRetries
        /\ active' = [active EXCEPT ![ecu].retry_count = @ + 1, ![ecu].state = "Failed"]
        /\ stats' = Counted("failed")
     \/ /\ active[ecu].retry_count + 1 <= MaxRetries
        /\ active' = [active EXCEPT ![ecu].retry_count = @ + 1]
        /\ UNCHANGED stats
  /\ UNCHANGED <<history, forgotten>>

RejectRequestOrExit(ecu) ==
  /\ Receive
  /\ Tracked(ecu)
  /\ active' = [active EXCEPT ![ecu].state = "Failed"]
  /\ stats' = Counted("failed")
  /\ UNCHANGED <<history, forgotten>>

process_negative_response(ecu) == RejectTransferData(ecu) \/ RejectRequestOrExit(ecu)

\* process_routine_control by routine and control type.
StartErase(ecu) ==
  /\ Receive
  /\ TrackErase
  /\ history' = HistoryAfterGet(ecu)
  /\ active' = [active EXCEPT ![ecu] =
                  [get_or_create_sequence(ecu) EXCEPT !.state = "EraseStarted"]]
  /\ UNCHANGED <<stats, forgotten>>

PollErase(ecu) ==
  /\ Receive
  /\ TrackErase
  /\ history' = HistoryAfterGet(ecu)
  /\ active' = [active EXCEPT ![ecu] = get_or_create_sequence(ecu)]
  /\ UNCHANGED <<stats, forgotten>>

\* Without track_erase_routines the code does not get here either.
StartVerification(ecu) ==
  /\ Receive
  /\ TrackErase /\ TrackVerification
  /\ Tracked(ecu)
  /\ active' = [active EXCEPT ![ecu].state = "Verifying"]
  /\ UNCHANGED <<history, stats, forgotten>>

process_routine_control(ecu) ==
  StartErase(ecu) \/ PollErase(ecu) \/ StartVerification(ecu)

\* Only the erase response changes the state; a verification response leaves
\* the sequence in Verifying.
process_routine_control_response(ecu) ==
  /\ Receive
  /\ Tracked(ecu)
  /\ active[ecu].state = "EraseStarted"
  /\ active' = [active EXCEPT ![ecu].state = "EraseComplete"]
  /\ UNCHANGED <<history, stats, forgotten>>
-----------------------------------------------------------------------------
abort_sequence(ecu) ==
  /\ Receive
  /\ is_active(active[ecu])
  /\ stats' = Counted("aborted")
  /\ history' = [history EXCEPT ![ecu] =
                   Archived(@, [active[ecu] EXCEPT !.state = "Aborted"])]
  /\ active' = [active EXCEPT ![ecu] = NoSequence]
  /\ UNCHANGED forgotten

clear_history(ecu) ==
  /\ history' = [history EXCEPT ![ecu] = <<>>]
  /\ UNCHANGED <<active, stats, forgotten, messages>>

reset ==
  /\ active' = [ecu \in Ecu |-> NoSequence]
  /\ history' = [ecu \in Ecu |-> <<>>]
  /\ stats' = NoOutcomes
  /\ forgotten' = NoOutcomes
  /\ UNCHANGED messages

\* Every overdue sequence fails and is archived, under one lock.
check_timeouts ==
  LET overdue == {ecu \in Ecu : TimedOut(active[ecu])}
  IN  /\ active' = [ecu \in Ecu |-> IF ecu \in overdue THEN NoSequence ELSE active[ecu]]
      /\ history' = [ecu \in Ecu |->
                       IF ecu \in overdue
                       THEN Archived(history[ecu], [active[ecu] EXCEPT !.state = "Failed"])
                       ELSE history[ecu]]
      /\ stats' = [stats EXCEPT !.failed = @ + Cardinality(overdue)]
      /\ UNCHANGED <<forgotten, messages>>

reset_statistics ==
  /\ stats' = NoOutcomes
  /\ forgotten' = [o \in DOMAIN stats |-> forgotten[o] + stats[o]]
  /\ UNCHANGED <<active, history, messages>>

\* The passage of time.
Tick ==
  /\ \E ecu \in Ecu : Tracked(ecu) /\ active[ecu].age < MaxAge
  /\ active' = [ecu \in Ecu |->
                  IF Tracked(ecu) /\ active[ecu].age < MaxAge
                  THEN [active[ecu] EXCEPT !.age = @ + 1] ELSE active[ecu]]
  /\ UNCHANGED <<history, stats, forgotten, messages>>

Message(ecu) ==
  \/ process_request_download(ecu) \/ process_request_upload(ecu)
  \/ process_request_download_response(ecu) \/ process_request_upload_response(ecu)
  \/ \E counter \in Counter : \/ process_transfer_data(ecu, counter)
                              \/ process_transfer_data_response(ecu, counter)
  \/ process_transfer_exit_response(ecu)
  \/ process_negative_response(ecu)
  \/ process_routine_control(ecu)
  \/ process_routine_control_response(ecu)

Next ==
  \/ \E ecu \in Ecu : Message(ecu) \/ abort_sequence(ecu) \/ clear_history(ecu)
  \/ reset \/ check_timeouts \/ reset_statistics \/ Tick

Spec == Init /\ [][Next]_vars

\* The clock runs and the application polls check_timeouts.
FairSpec == Spec /\ WF_vars(Tick) /\ WF_vars(check_timeouts)
-----------------------------------------------------------------------------
\* Nothing is filed while it is still under way: the history of an ECU is
\* bounded and holds no sequence that get_active_sequence would have to
\* return (archive_sequence runs from requests, aborts and timeouts).
HistorySound ==
  \A ecu \in Ecu :
    /\ Len(history[ecu]) <= MaxHistory
    /\ \A i \in DOMAIN history[ecu] :
         history[ecu][i].state \notin {"Downloading", "Transferring", "Verifying"}

\* Blocks with the same counter (a retransmission, or a counter that wrapped
\* around) are acknowledged in the order they were sent, in the sequence in
\* progress and in every archived one.
InOrder(blocks) ==
  \A i, j \in DOMAIN blocks :
    /\ i < j
    /\ blocks[i].sequence_counter = blocks[j].sequence_counter
    /\ blocks[j].acknowledged
    => blocks[i].acknowledged

AcknowledgedInOrder ==
  \A ecu \in Ecu :
    /\ Tracked(ecu) => InOrder(active[ecu].blocks)
    /\ \A i \in DOMAIN history[ecu] : InOrder(history[ecu][i].blocks)

\* No outcome escapes the statistics: the sequences one can still look at that
\* ended as Complete, Failed or Aborted were all counted as such.
Ended(state) ==
  Cardinality({ecu \in Ecu : active[ecu].state = state})
    + Cardinality({p \in Ecu \X (1 .. MaxHistory) :
                     p[2] <= Len(history[p[1]]) /\ history[p[1]][p[2]].state = state})

OutcomesCounted ==
  /\ Ended("Complete") <= stats.completed + forgotten.completed
  /\ Ended("Failed") <= stats.failed + forgotten.failed
  /\ Ended("Aborted") <= stats.aborted + forgotten.aborted

\* As long as check_timeouts is polled, no ECU stays in an active sequence for
\* ever: a verification, too, gives way in the end.
NoSequenceActiveForever ==
  \A ecu \in Ecu : active[ecu].state \in {"Downloading", "Transferring", "Verifying"}
                     ~> active[ecu].state \notin {"Downloading", "Transferring", "Verifying"}

\* Asking for the results of an erase is a "Progress check" in
\* process_routine_control: it leaves the erase that is being tracked alone.
PollKeepsErase ==
  [][\A ecu \in Ecu :
       active[ecu].state = "EraseStarted" /\ PollErase(ecu)
         => active'[ecu].state = "EraseStarted"]_vars
=============================================================================
