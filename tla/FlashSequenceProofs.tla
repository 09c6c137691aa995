------------------------ MODULE FlashSequenceProofs ------------------------
(***************************************************************************)
(* Proofs about the flash programming tracker, for any number of ECUs, any *)
(* counters and limits, and messages in any order: what is filed is over,  *)
(* the history keeps its limit, and blocks with the same counter are       *)
(* acknowledged in the order they were sent.                               *)
(***************************************************************************)
EXTENDS FlashSequence, FiniteSetTheorems, SequenceTheorems, TLAPS

Open == {"Downloading", "Transferring", "Verifying"}

\* A sequence whose blocks are acknowledged in order, one that is over, and a
\* history of those within the limit.
Ordered == {seq \in Sequence : InOrder(seq.blocks)}
Filed == {seq \in Ordered : seq.state \notin Open}
Histories == {h \in Seq(Filed) : Len(h) <= MaxHistory}

\* The inductive invariant.
IInv ==
  /\ active \in [Ecu -> Ordered \cup {NoSequence}]
  /\ history \in [Ecu -> Histories]
  /\ stats \in Outcomes
  /\ forgotten \in Outcomes
  /\ messages \in 0 .. MaxMessages
-----------------------------------------------------------------------------
(* The blocks of a sequence.                                               *)

\* A block that is sent waits behind all others.
LEMMA SentInOrder ==
  ASSUME NEW blocks \in Seq(FlashBlock), InOrder(blocks), NEW counter \in Counter
  PROVE  LET longer == Append(blocks, [sequence_counter |-> counter, acknowledged |-> FALSE])
         IN  longer \in Seq(FlashBlock) /\ InOrder(longer)
  <1> DEFINE block == [sequence_counter |-> counter, acknowledged |-> FALSE]
             longer == Append(blocks, block)
  <1>1. block \in FlashBlock /\ ~ block.acknowledged
    BY DEF FlashBlock
  <1> HIDE DEF block
  <1>2. /\ longer \in Seq(FlashBlock) /\ Len(longer) = Len(blocks) + 1
        /\ \A i \in 1 .. Len(blocks) : longer[i] = blocks[i]
        /\ longer[Len(blocks) + 1] = block
    BY <1>1, AppendProperties
  <1> HIDE DEF longer
  <1>3. DOMAIN blocks = 1 .. Len(blocks) /\ DOMAIN longer = 1 .. Len(blocks) + 1 /\ Len(blocks) \in Nat
    BY <1>2
  <1>4. InOrder(longer)
    BY <1>1, <1>2, <1>3 DEF InOrder
  <1> QED BY <1>2, <1>4 DEF longer, block

\* A response acknowledges the first block that waits for it, so no earlier
\* one with the same counter is left waiting.
LEMMA AcknowledgedInOrderLemma ==
  ASSUME NEW blocks \in Seq(FlashBlock), InOrder(blocks), NEW counter
  PROVE  Acknowledged(blocks, counter) \in Seq(FlashBlock) /\ InOrder(Acknowledged(blocks, counter))
  <1> DEFINE waits(i) == blocks[i].sequence_counter = counter /\ ~ blocks[i].acknowledged
             first(i) == waits(i) /\ \A j \in DOMAIN blocks : waits(j) => i <= j
             next == Acknowledged(blocks, counter)
  <1>1. next = [i \in DOMAIN blocks |->
                  IF first(i) THEN [blocks[i] EXCEPT !.acknowledged = TRUE] ELSE blocks[i]]
    BY DEF Acknowledged
  <1>2. DOMAIN blocks = 1 .. Len(blocks) /\ Len(blocks) \in Nat
        /\ \A i \in DOMAIN blocks : blocks[i] \in FlashBlock
    OBVIOUS
  <1> HIDE DEF next
  <1>3. ASSUME NEW i \in DOMAIN blocks
        PROVE  /\ next[i] \in FlashBlock /\ next[i].sequence_counter = blocks[i].sequence_counter
               /\ blocks[i].acknowledged => next[i].acknowledged
               /\ next[i].acknowledged => blocks[i].acknowledged \/ first(i)
               /\ first(i) => next[i].acknowledged
    <2>1. CASE first(i)
      <3>1. next[i] = [blocks[i] EXCEPT !.acknowledged = TRUE]
        BY <1>1, <2>1
      <3>2. blocks[i] \in FlashBlock
        BY <1>2
      <3>3. next[i] \in FlashBlock /\ next[i].sequence_counter = blocks[i].sequence_counter /\ next[i].acknowledged
        BY <3>1, <3>2 DEF FlashBlock
      <3> QED BY <2>1, <3>3
    <2>2. CASE ~ first(i)
      <3>1. next[i] = blocks[i]
        BY <1>1, <2>2
      <3> QED BY <1>2, <2>2, <3>1
    <2> QED BY <2>1, <2>2
  <1>4. DOMAIN next = DOMAIN blocks
    BY <1>1
  <1>5. next \in Seq(FlashBlock)
    <2>1. next \in [1 .. Len(blocks) -> FlashBlock]
      BY <1>1, <1>2, <1>3, <1>4
    <2> QED BY <1>2, <2>1
  <1>6. ASSUME NEW i \in DOMAIN blocks, NEW j \in DOMAIN blocks, i < j,
               next[i].sequence_counter = next[j].sequence_counter, next[j].acknowledged
        PROVE  next[i].acknowledged
    <2>1. blocks[i].sequence_counter = blocks[j].sequence_counter
      BY <1>3, <1>6
    <2>2. CASE blocks[j].acknowledged
      BY <1>3, <1>6, <2>1, <2>2 DEF InOrder
    <2>3. CASE first(j)
      <3>1. ~ waits(i)
        BY <1>2, <1>6, <2>3
      <3> QED BY <1>3, <2>1, <2>3, <3>1
    <2> QED BY <1>3, <1>6, <2>2, <2>3
  <1> HIDE DEF waits, first
  <1>7. InOrder(next)
    BY <1>4, <1>6 DEF InOrder
  <1> QED BY <1>5, <1>7 DEF next
-----------------------------------------------------------------------------
(* A sequence and a history.                                               *)

LEMMA SequenceFields ==
  ASSUME NEW seq \in Ordered
  PROVE  /\ seq \in Sequence /\ seq.state \in FlashSequenceState /\ seq.blocks \in Seq(FlashBlock)
         /\ seq.retry_count \in Nat /\ seq.age \in 0 .. MaxAge /\ InOrder(seq.blocks)
         /\ seq # NoSequence /\ seq.state # "Erasing"
  BY DEF Ordered, Sequence, NoSequence, FlashSequenceState

LEMMA NewSequenceOrdered == NewSequence \in Ordered
  <1>1. <<>> \in Seq(FlashBlock) /\ InOrder(<<>>)
    BY DEF InOrder
  <1> QED BY <1>1, FlashAssumption DEF NewSequence, Ordered, Sequence, FlashSequenceState

\* A new state, with or without more retries or another age, keeps the blocks.
LEMMA StateChange ==
  ASSUME NEW seq \in Ordered, NEW state \in FlashSequenceState
  PROVE  /\ [seq EXCEPT !.state = state] \in Ordered
         /\ [seq EXCEPT !.state = state].state = state
         /\ [seq EXCEPT !.state = state, !.age = 0] \in Ordered
         /\ [seq EXCEPT !.retry_count = @ + 1] \in Ordered
         /\ [seq EXCEPT !.retry_count = @ + 1, !.state = state] \in Ordered
         /\ seq.age < MaxAge => [seq EXCEPT !.age = @ + 1] \in Ordered
  <1>1. /\ seq \in Sequence /\ InOrder(seq.blocks) /\ seq.retry_count + 1 \in Nat /\ 0 \in 0 .. MaxAge
        /\ seq.age < MaxAge => seq.age + 1 \in 0 .. MaxAge
    BY SequenceFields, FlashAssumption
  <1>2. /\ [seq EXCEPT !.state = state] \in Sequence
        /\ [seq EXCEPT !.state = state].state = state
        /\ [seq EXCEPT !.state = state].blocks = seq.blocks
    BY <1>1 DEF Sequence
  <1>3. /\ [seq EXCEPT !.state = state, !.age = 0] \in Sequence
        /\ [seq EXCEPT !.state = state, !.age = 0].blocks = seq.blocks
    BY <1>1 DEF Sequence
  <1>4. ASSUME NEW n \in Nat
        PROVE  /\ [seq EXCEPT !.retry_count = n] \in Sequence
               /\ [seq EXCEPT !.retry_count = n].blocks = seq.blocks
               /\ [seq EXCEPT !.retry_count = n, !.state = state] \in Sequence
               /\ [seq EXCEPT !.retry_count = n, !.state = state].blocks = seq.blocks
    BY <1>1 DEF Sequence
  <1>5. ASSUME NEW a \in 0 .. MaxAge
        PROVE  [seq EXCEPT !.age = a] \in Sequence /\ [seq EXCEPT !.age = a].blocks = seq.blocks
    BY <1>1 DEF Sequence
  <1>6. \A s \in Sequence : s.blocks = seq.blocks => s \in Ordered
    BY <1>1 DEF Ordered
  <1> QED BY <1>1, <1>2, <1>3, <1>4, <1>5, <1>6

LEMMA BlocksChange ==
  ASSUME NEW seq \in Ordered, NEW blocks \in Seq(FlashBlock), InOrder(blocks)
  PROVE  [seq EXCEPT !.blocks = blocks] \in Ordered
  BY SequenceFields DEF Ordered, Sequence

\* What a request finds or makes; what it archives is over.
LEMMA GetFacts ==
  ASSUME NEW ecu \in Ecu, active[ecu] \in Ordered \cup {NoSequence}
  PROVE  /\ get_or_create_sequence(ecu) \in Ordered
         /\ is_active(active[ecu]) => active[ecu] \in Ordered
         /\ Tracked(ecu) <=> active[ecu] \in Ordered
         /\ Tracked(ecu) /\ ~ is_active(active[ecu]) => active[ecu] \in Filed
  <1>1. ~ is_active(NoSequence)
    BY DEF is_active, NoSequence
  <1> QED BY <1>1, NewSequenceOrdered, SequenceFields DEF get_or_create_sequence, Tracked, Filed, Open, is_active

LEMMA ArchivedFacts ==
  ASSUME NEW h \in Histories, NEW seq \in Filed
  PROVE  Archived(h, seq) \in Histories
  <1> DEFINE longer == Append(h, seq)
  <1>1. h \in Seq(Filed) /\ Len(h) <= MaxHistory /\ Len(h) \in Nat
    BY DEF Histories
  <1>2. longer \in Seq(Filed) /\ longer # <<>> /\ Len(longer) = Len(h) + 1
    BY <1>1, AppendProperties
  <1>3. Tail(longer) \in Seq(Filed) /\ Len(Tail(longer)) = Len(h)
    BY <1>1, <1>2, HeadTailProperties
  <1>4. Archived(h, seq) = IF Len(longer) > MaxHistory THEN Tail(longer) ELSE longer
    BY DEF Archived
  <1> HIDE DEF longer
  <1> QED BY <1>1, <1>2, <1>3, <1>4, FlashAssumption DEF Histories

LEMMA HistoryAfterGetFacts ==
  ASSUME IInv, NEW ecu \in Ecu
  PROVE  HistoryAfterGet(ecu) \in [Ecu -> Histories]
  <1>1. active[ecu] \in Ordered \cup {NoSequence} /\ history[ecu] \in Histories
    BY DEF IInv
  <1>2. CASE is_active(active[ecu]) \/ ~ Tracked(ecu)
    BY <1>2 DEF HistoryAfterGet, IInv
  <1>3. CASE ~ is_active(active[ecu]) /\ Tracked(ecu)
    <2>1. Archived(history[ecu], active[ecu]) \in Histories
      BY <1>1, <1>3, GetFacts, ArchivedFacts
    <2>2. HistoryAfterGet(ecu) = [history EXCEPT ![ecu] = Archived(history[ecu], active[ecu])]
      BY <1>3 DEF HistoryAfterGet
    <2> QED BY <2>1, <2>2 DEF IInv
  <1> QED BY <1>2, <1>3

LEMMA NoOutcomesType == NoOutcomes \in Outcomes
  BY DEF NoOutcomes, Outcomes

LEMMA CountedType ==
  ASSUME stats \in Outcomes, NEW outcome \in {"completed", "failed", "aborted"}
  PROVE  Counted(outcome) \in Outcomes
  BY DEF Counted, Outcomes
-----------------------------------------------------------------------------
(* The steps.                                                              *)

LEMMA InitIInv == Init => IInv
  <1>1. <<>> \in Histories
    BY FlashAssumption DEF Histories
  <1> QED BY <1>1, NoOutcomesType, FlashAssumption DEF Init, IInv

\* A step that gives one ECU another sequence, and leaves the rest of what it
\* changes well formed.
LEMMA SequenceStep ==
  ASSUME IInv, NEW ecu \in Ecu, NEW seq \in Ordered \cup {NoSequence},
         active' = [active EXCEPT ![ecu] = seq], history' \in [Ecu -> Histories],
         stats' \in Outcomes, forgotten' = forgotten, messages' \in 0 .. MaxMessages
  PROVE  IInv'
  BY DEF IInv

LEMMA ReceiveFacts ==
  ASSUME IInv, Receive
  PROVE  messages' \in 0 .. MaxMessages
  BY FlashAssumption DEF IInv, Receive

\* The requests that look a sequence up or make one.
LEMMA RequestStep ==
  ASSUME IInv, NEW ecu \in Ecu, BeginTransfer(ecu) \/ StartErase(ecu) \/ PollErase(ecu)
  PROVE  IInv'
  <1> DEFINE found == get_or_create_sequence(ecu)
  <1>1. active[ecu] \in Ordered \cup {NoSequence}
    BY DEF IInv
  <1>2. found \in Ordered
    BY <1>1, GetFacts
  <1>3. /\ history' \in [Ecu -> Histories] /\ stats' \in Outcomes /\ forgotten' = forgotten
        /\ messages' \in 0 .. MaxMessages
    BY HistoryAfterGetFacts, ReceiveFacts DEF BeginTransfer, StartErase, PollErase, IInv
  <1>4. CASE BeginTransfer(ecu)
    <2>1. [found EXCEPT !.state = "Downloading", !.age = 0] \in Ordered
      BY <1>2, StateChange DEF FlashSequenceState
    <2>2. active' = [active EXCEPT ![ecu] = [found EXCEPT !.state = "Downloading", !.age = 0]]
      BY <1>4 DEF BeginTransfer
    <2> HIDE DEF found
    <2> QED BY <1>3, <2>1, <2>2, SequenceStep
  <1>5. CASE StartErase(ecu)
    <2>1. [found EXCEPT !.state = "EraseStarted"] \in Ordered
      BY <1>2, StateChange DEF FlashSequenceState
    <2>2. active' = [active EXCEPT ![ecu] = [found EXCEPT !.state = "EraseStarted"]]
      BY <1>5 DEF StartErase
    <2> HIDE DEF found
    <2> QED BY <1>3, <2>1, <2>2, SequenceStep
  <1>6. CASE PollErase(ecu)
    <2>1. active' = [active EXCEPT ![ecu] = found]
      BY <1>6 DEF PollErase
    <2> HIDE DEF found
    <2> QED BY <1>2, <1>3, <2>1, SequenceStep
  <1> QED BY <1>4, <1>5, <1>6

\* The messages that only move a tracked sequence to another state.
LEMMA StateStep ==
  ASSUME IInv, NEW ecu \in Ecu, Tracked(ecu), Receive, NEW state \in FlashSequenceState,
         active' = [active EXCEPT ![ecu].state = state], stats' \in Outcomes,
         UNCHANGED <<history, forgotten>>
  PROVE  IInv'
  <1> DEFINE seq == [active[ecu] EXCEPT !.state = state]
  <1>1. active[ecu] \in Ordered
    BY GetFacts DEF IInv
  <1>2. seq \in Ordered
    BY <1>1, StateChange
  <1>3. active' = [active EXCEPT ![ecu] = seq]
    BY DEF IInv
  <1>4. history' \in [Ecu -> Histories] /\ messages' \in 0 .. MaxMessages
    BY ReceiveFacts DEF IInv
  <1> HIDE DEF seq
  <1> QED BY <1>2, <1>3, <1>4, SequenceStep

LEMMA AnswerStep ==
  ASSUME IInv, NEW ecu \in Ecu,
         \/ AcceptTransfer(ecu) \/ process_transfer_exit_response(ecu) \/ RejectRequestOrExit(ecu)
         \/ StartVerification(ecu) \/ process_routine_control_response(ecu)
  PROVE  IInv'
  <1> USE DEF FlashSequenceState
  <1>1. stats \in Outcomes /\ Counted("completed") \in Outcomes /\ Counted("failed") \in Outcomes
    BY CountedType DEF IInv
  <1>2. CASE AcceptTransfer(ecu)
    BY <1>1, <1>2, StateStep DEF AcceptTransfer
  <1>3. CASE process_transfer_exit_response(ecu)
    BY <1>1, <1>3, StateStep DEF process_transfer_exit_response
  <1>4. CASE RejectRequestOrExit(ecu)
    BY <1>1, <1>4, StateStep DEF RejectRequestOrExit
  <1>5. CASE StartVerification(ecu)
    BY <1>1, <1>5, StateStep DEF StartVerification
  <1>6. CASE process_routine_control_response(ecu)
    BY <1>1, <1>6, StateStep DEF process_routine_control_response
  <1> QED BY <1>2, <1>3, <1>4, <1>5, <1>6

LEMMA RetryStep ==
  ASSUME IInv, NEW ecu \in Ecu, RejectTransferData(ecu)
  PROVE  IInv'
  <1> DEFINE retried == [active[ecu] EXCEPT !.retry_count = @ + 1]
             failed == [active[ecu] EXCEPT !.retry_count = @ + 1, !.state = "Failed"]
  <1>1. active[ecu] \in Ordered
    BY GetFacts DEF IInv, RejectTransferData
  <1>2. retried \in Ordered /\ failed \in Ordered
    BY <1>1, StateChange DEF FlashSequenceState
  <1>3. active' = [active EXCEPT ![ecu] = retried] \/ active' = [active EXCEPT ![ecu] = failed]
    BY DEF IInv, RejectTransferData
  <1> HIDE DEF retried, failed
  <1>4. /\ history' \in [Ecu -> Histories] /\ stats' \in Outcomes /\ forgotten' = forgotten
        /\ messages' \in 0 .. MaxMessages
    BY ReceiveFacts, CountedType DEF RejectTransferData, IInv
  <1> QED BY <1>2, <1>3, <1>4, SequenceStep

LEMMA BlockStep ==
  ASSUME IInv, NEW ecu \in Ecu, NEW counter \in Counter,
         process_transfer_data(ecu, counter) \/ process_transfer_data_response(ecu, counter)
  PROVE  IInv'
  <1> DEFINE sent == Append(active[ecu].blocks, [sequence_counter |-> counter, acknowledged |-> FALSE])
             answered == Acknowledged(active[ecu].blocks, counter)
  <1>1. active[ecu] \in Ordered
    BY GetFacts DEF IInv, process_transfer_data, process_transfer_data_response
  <1>2. active[ecu].blocks \in Seq(FlashBlock) /\ InOrder(active[ecu].blocks)
    BY <1>1, SequenceFields
  <1>3. sent \in Seq(FlashBlock) /\ InOrder(sent) /\ answered \in Seq(FlashBlock) /\ InOrder(answered)
    BY <1>2, SentInOrder, AcknowledgedInOrderLemma
  <1>4. \/ active' = [active EXCEPT ![ecu] = [active[ecu] EXCEPT !.blocks = sent]]
        \/ active' = [active EXCEPT ![ecu] = [active[ecu] EXCEPT !.blocks = answered]]
    BY DEF IInv, process_transfer_data, process_transfer_data_response
  <1>5. /\ history' \in [Ecu -> Histories] /\ stats' \in Outcomes /\ forgotten' = forgotten
        /\ messages' \in 0 .. MaxMessages
    BY ReceiveFacts DEF process_transfer_data, process_transfer_data_response, IInv
  <1> HIDE DEF sent, answered
  <1>6. [active[ecu] EXCEPT !.blocks = sent] \in Ordered /\ [active[ecu] EXCEPT !.blocks = answered] \in Ordered
    BY <1>1, <1>3, BlocksChange
  <1> QED BY <1>4, <1>5, <1>6, SequenceStep

\* An aborted sequence is filed as Aborted.
LEMMA AbortStep ==
  ASSUME IInv, NEW ecu \in Ecu, abort_sequence(ecu)
  PROVE  IInv'
  <1> DEFINE seq == [active[ecu] EXCEPT !.state = "Aborted"]
  <1>1. active[ecu] \in Ordered /\ history[ecu] \in Histories
    BY GetFacts DEF IInv, abort_sequence
  <1>2. seq \in Filed
    BY <1>1, StateChange DEF Filed, Open, FlashSequenceState
  <1>3. Archived(history[ecu], seq) \in Histories
    BY <1>1, <1>2, ArchivedFacts
  <1>4. history' = [history EXCEPT ![ecu] = Archived(history[ecu], seq)] /\ active' = [active EXCEPT ![ecu] = NoSequence]
    BY DEF abort_sequence
  <1>5. stats' \in Outcomes /\ forgotten' = forgotten /\ messages' \in 0 .. MaxMessages
    BY ReceiveFacts, CountedType DEF abort_sequence, IInv
  <1> HIDE DEF seq
  <1>6. history' \in [Ecu -> Histories]
    BY <1>3, <1>4 DEF IInv
  <1> QED BY <1>4, <1>5, <1>6, SequenceStep

LEMMA TimeoutStep ==
  ASSUME IInv, check_timeouts
  PROVE  IInv'
  <1> DEFINE overdue == {ecu \in Ecu : TimedOut(active[ecu])}
             failed(ecu) == [active[ecu] EXCEPT !.state = "Failed"]
  <1>1. ASSUME NEW ecu \in Ecu, ecu \in overdue
        PROVE  Archived(history[ecu], failed(ecu)) \in Histories
    <2>1. active[ecu] \in Ordered /\ history[ecu] \in Histories
      BY <1>1, GetFacts DEF IInv, TimedOut
    <2>2. failed(ecu) \in Filed
      BY <2>1, StateChange DEF Filed, Open, FlashSequenceState
    <2> QED BY <2>1, <2>2, ArchivedFacts
  <1>2. Cardinality(overdue) \in Nat
    BY FS_Subset, FS_CardinalityType, FlashAssumption
  <1>3. /\ active' = [ecu \in Ecu |-> IF ecu \in overdue THEN NoSequence ELSE active[ecu]]
        /\ history' = [ecu \in Ecu |-> IF ecu \in overdue THEN Archived(history[ecu], failed(ecu))
                                       ELSE history[ecu]]
        /\ stats' = [stats EXCEPT !.failed = @ + Cardinality(overdue)]
        /\ UNCHANGED <<forgotten, messages>>
    BY DEF check_timeouts
  <1> HIDE DEF overdue, failed
  <1>4. active' \in [Ecu -> Ordered \cup {NoSequence}]
    BY <1>3 DEF IInv
  <1>5. history' \in [Ecu -> Histories]
    BY <1>1, <1>3 DEF IInv
  <1>6. stats' \in Outcomes
    BY <1>2, <1>3 DEF IInv, Outcomes
  <1> QED BY <1>3, <1>4, <1>5, <1>6 DEF IInv

LEMMA ClockStep ==
  ASSUME IInv, Tick
  PROVE  IInv'
  <1>1. ASSUME NEW ecu \in Ecu, Tracked(ecu), active[ecu].age < MaxAge
        PROVE  [active[ecu] EXCEPT !.age = @ + 1] \in Ordered
    <2>1. active[ecu] \in Ordered
      BY <1>1, GetFacts DEF IInv
    <2> QED BY <1>1, <2>1, StateChange DEF FlashSequenceState
  <1>2. active' \in [Ecu -> Ordered \cup {NoSequence}]
    BY <1>1 DEF Tick, IInv
  <1> QED BY <1>2 DEF Tick, IInv

\* clear_history, reset and reset_statistics.
LEMMA ClearStep ==
  ASSUME IInv, reset \/ reset_statistics \/ \E ecu \in Ecu : clear_history(ecu)
  PROVE  IInv'
  <1>1. <<>> \in Histories
    BY FlashAssumption DEF Histories
  <1>2. CASE reset
    BY <1>1, <1>2, NoOutcomesType DEF reset, IInv
  <1>3. CASE reset_statistics
    <2>1. forgotten' \in Outcomes
      BY <1>3 DEF reset_statistics, IInv, Outcomes
    <2> QED BY <1>3, <2>1, NoOutcomesType DEF reset_statistics, IInv
  <1>4. ASSUME NEW ecu \in Ecu, clear_history(ecu)
        PROVE  IInv'
    BY <1>1, <1>4 DEF clear_history, IInv
  <1> QED BY <1>2, <1>3, <1>4

LEMMA NextIInv ==
  ASSUME IInv, [Next]_vars
  PROVE  IInv'
  <1>1. CASE UNCHANGED vars
    BY <1>1 DEF vars, IInv
  <1>2. ASSUME NEW ecu \in Ecu, Message(ecu)
        PROVE  IInv'
    BY <1>2, RequestStep, AnswerStep, RetryStep, BlockStep
       DEF Message, process_request_download, process_request_upload, process_request_download_response,
           process_request_upload_response, process_negative_response, process_routine_control
  <1>3. ASSUME NEW ecu \in Ecu, abort_sequence(ecu) \/ clear_history(ecu)
        PROVE  IInv'
    BY <1>3, AbortStep, ClearStep
  <1> QED BY <1>1, <1>2, <1>3, ClearStep, TimeoutStep, ClockStep DEF Next

LEMMA Invariance == Spec => []IInv
  <1>1. IInv /\ [Next]_vars => IInv'
    BY NextIInv
  <1> QED BY <1>1, InitIInv, PTL DEF Spec

LEMMA HistoryFacts ==
  ASSUME IInv, NEW ecu \in Ecu
  PROVE  /\ history[ecu] \in Seq(Filed) /\ Len(history[ecu]) <= MaxHistory
         /\ \A i \in DOMAIN history[ecu] : history[ecu][i] \in Filed
  BY DEF IInv, Histories

\* The tracker's state keeps its type, the counted outcomes included.
THEOREM TypeCorrect == Spec => []TypeOK
  <1>1. ASSUME IInv PROVE TypeOK
    <2>1. active \in [Ecu -> Sequence \cup {NoSequence}]
      BY <1>1 DEF IInv, Ordered
    <2>2. ASSUME NEW ecu \in Ecu PROVE history[ecu] \in Seq(Sequence)
      <3>1. Filed \subseteq Sequence
        BY DEF Filed, Ordered
      <3>2. history[ecu] \in Seq(Filed)
        BY <1>1, HistoryFacts
      <3>3. history[ecu] \in [1 .. Len(history[ecu]) -> Sequence] /\ Len(history[ecu]) \in Nat
        BY <3>1, <3>2
      <3> QED BY <3>3
    <2>3. history \in [Ecu -> Seq(Sequence)]
      BY <1>1, <2>2 DEF IInv
    <2> QED BY <1>1, <2>1, <2>3 DEF IInv, TypeOK
  <1> QED BY <1>1, Invariance, PTL

\* For any number of ECUs and any limit: a history never grows beyond the
\* limit, and what archive_sequence files is never a sequence under way,
\* whether a request, an abort or a timeout files it.
THEOREM HistoryIsSound == Spec => []HistorySound
  <1>1. IInv => HistorySound
    BY HistoryFacts DEF HistorySound, Filed, Open
  <1> QED BY <1>1, Invariance, PTL

\* For any counters, retransmitted or wrapped around: blocks with the same
\* counter are acknowledged in the order they were sent.
THEOREM AcknowledgedAsSent == Spec => []AcknowledgedInOrder
  <1>1. ASSUME IInv PROVE AcknowledgedInOrder
    <2>1. ASSUME NEW ecu \in Ecu, Tracked(ecu) PROVE InOrder(active[ecu].blocks)
      BY <1>1, <2>1, GetFacts, SequenceFields DEF IInv
    <2>2. ASSUME NEW ecu \in Ecu, NEW i \in DOMAIN history[ecu] PROVE InOrder(history[ecu][i].blocks)
      BY <1>1, HistoryFacts DEF Filed, Ordered
    <2> QED BY <2>1, <2>2 DEF AcknowledgedInOrder
  <1> QED BY <1>1, Invariance, PTL
=============================================================================
