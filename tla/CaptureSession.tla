--------------------------- MODULE CaptureSession ---------------------------
(***************************************************************************)
(* The AF_PACKET capture session (capture_session.cpp): the memory-mapped  *)
(* ring that the kernel fills and next_packet drains, the capture loop,    *)
(* and the life of the session object, as three concurrent parties: the    *)
(* kernel, the thread that consumes packets, and the owner that creates,   *)
(* starts, stops and destroys the session.                                 *)
(*                                                                         *)
(* Abstractions.  A TPACKET_V2 ring is a ring of frames with one packet    *)
(* each, a TPACKET_V3 ring a ring of blocks with up to BlockCapacity; both *)
(* are slots here, and remaining is 1 while a frame is being read.  A      *)
(* session without a ring reads its socket with recvfrom; the slots are    *)
(* the socket's receive queue then, one packet each.  A                    *)
(* packet is its number in order of arrival and whether its header passes  *)
(* the validity test.  The owner destroys the session by running its       *)
(* destructor; as in any C++ program, no call starts once that has begun.  *)
(***************************************************************************)
EXTENDS Integers, Sequences

CONSTANTS
  Slots,               \* frame_count or block_count
  BlockCapacity,       \* packets that fit a TPACKET_V3 block
  MaxArrivals,         \* bound: packets that arrive in a behaviour
  MaxEmptyBlocks,      \* bound: blocks the kernel passes on without a packet
  MaxPacketsChoices,   \* values of capture_loop's max_packets (0: unlimited)
  DestroyDuringEntry   \* may the destructor start while a call is being entered?

ASSUME CaptureAssumption ==
  /\ Slots \in Nat \ {0}
  /\ BlockCapacity \in Nat \ {0}
  /\ MaxArrivals \in Nat
  /\ MaxEmptyBlocks \in Nat
  /\ MaxPacketsChoices \subseteq Nat
  /\ DestroyDuringEntry \in BOOLEAN

VARIABLES
  tpacket_version,   \* Impl::tpacket_version, "none" without a ring
  arrived,           \* packets that reached the interface
  empty_blocks,      \* blocks passed on without a packet
  slot,              \* the ring: status word and packets of every slot
  head,              \* the slot the kernel fills next
  current,           \* current_frame or current_block
  remaining,         \* packets_remaining_in_block
  consumed,          \* packets returned by next_packet
  running,           \* running_
  in_capture_loop,   \* in_capture_loop_
  thread,            \* where the consumer thread is
  looping,           \* is the thread inside capture_loop (or a bare next_packet)?
  count,             \* capture_loop's local count
  max_packets,       \* capture_loop's parameter
  thrown,            \* auxiliary: the callback threw, and no loop has ended since
  owner,             \* where the owner is
  socket_fd,         \* -1, an open descriptor, or the number of a closed one
  closed_twice,      \* has a number been closed that was closed before?
  mapped             \* ring_buffer is mapped

ringVars == <<slot, current, remaining>>
kernelVars == <<arrived, empty_blocks, head>>
loopVars == <<running, in_capture_loop, looping, count, max_packets, thrown>>
descriptorVars == <<socket_fd, closed_twice>>
ownerVars == <<owner, descriptorVars, mapped>>
vars == <<tpacket_version, ringVars, kernelVars, consumed, loopVars, thread, ownerVars>>
-----------------------------------------------------------------------------
Packet == [number : 1 .. MaxArrivals, valid : BOOLEAN]

SlotIndex == 0 .. Slots - 1

Slot == [status : {"kernel", "user"}, packets : Seq(Packet)]

ThreadState == {"outside", "entering", "entered", "test", "socket", "check",
                "poll", "recheck", "extract", "receive", "callback", "leaving"}

OwnerState == {"creating", "binding", "mapping", "using", "waiting", "closing", "unmapping", "destroyed"}

TypeOK ==
  /\ tpacket_version \in {"V2", "V3", "none"}
  /\ arrived \in 0 .. MaxArrivals
  /\ empty_blocks \in 0 .. MaxEmptyBlocks
  /\ slot \in [SlotIndex -> Slot]
  /\ head \in SlotIndex
  /\ current \in SlotIndex
  /\ remaining \in 0 .. BlockCapacity
  /\ consumed \in Seq(Packet)
  /\ running \in BOOLEAN /\ in_capture_loop \in BOOLEAN
  /\ thread \in ThreadState
  /\ looping \in BOOLEAN
  /\ count \in Nat
  /\ max_packets \in MaxPacketsChoices \cup {0}
  /\ thrown \in BOOLEAN
  /\ owner \in OwnerState
  /\ socket_fd \in {"none", "open", "closed"}
  /\ closed_twice \in BOOLEAN /\ mapped \in BOOLEAN

FreeSlot == [status |-> "kernel", packets |-> <<>>]

Advance(i) == (i + 1) % Slots

Capacity == IF tpacket_version = "V3" THEN BlockCapacity ELSE 1

Init ==
  /\ tpacket_version = "none"
  /\ arrived = 0 /\ empty_blocks = 0
  /\ slot = [i \in SlotIndex |-> FreeSlot]
  /\ head = 0 /\ current = 0 /\ remaining = 0
  /\ consumed = <<>>
  /\ running = FALSE /\ in_capture_loop = FALSE
  /\ thread = "outside" /\ looping = FALSE
  /\ count = 0 /\ max_packets = 0 /\ thrown = FALSE
  /\ owner = "creating" /\ socket_fd = "none" /\ closed_twice = FALSE /\ mapped = FALSE
-----------------------------------------------------------------------------
(* create.  The caller gets the session or an error; with an error the     *)
(* local object is destroyed, by the same destructor.                      *)

CreateSocket ==
  /\ owner = "creating"
  /\ \/ socket_fd' = "open" /\ owner' = "binding"
     \/ owner' = "waiting" /\ UNCHANGED socket_fd
  /\ UNCHANGED <<tpacket_version, ringVars, kernelVars, consumed, loopVars, thread,
                 closed_twice, mapped>>

\* Interface index and bind.  On failure the socket is closed, and socket_fd
\* keeps the number.
BindInterface ==
  /\ owner = "binding"
  /\ \/ owner' = "mapping" /\ UNCHANGED socket_fd
     \/ owner' = "waiting" /\ socket_fd' = "closed"
  /\ UNCHANGED <<tpacket_version, ringVars, kernelVars, consumed, loopVars, thread,
                 closed_twice, mapped>>

\* V3 if it is wanted and can be set up, else V2, else no ring at all; what
\* else create configures may fail without consequence.
SetUpRing ==
  /\ owner = "mapping"
  /\ owner' = "using"
  /\ tpacket_version' \in {"V3", "V2", "none"}
  /\ mapped' = (tpacket_version' # "none")
  /\ UNCHANGED <<ringVars, kernelVars, consumed, loopVars, thread, descriptorVars>>
-----------------------------------------------------------------------------
(* The kernel (external): it fills the slots it owns, in ring order, and   *)
(* passes a slot to the user when it is full or, for a block, when the     *)
(* retire timeout is over; a packet that finds no slot is dropped.  Linux  *)
(* restarts the timer of an empty block; next_packet_v3 is ready for one   *)
(* all the same, so a few may be passed on.  Only a ring has headers that  *)
(* can be invalid.                                                         *)

Receiving == socket_fd = "open" /\ owner \notin {"binding", "mapping"}

Arrive(valid) ==
  /\ Receiving
  /\ arrived < MaxArrivals
  /\ valid \/ tpacket_version # "none"
  /\ arrived' = arrived + 1
  /\ \/ /\ slot[head].status = "user"
        /\ UNCHANGED <<slot, head>>
     \/ /\ slot[head].status = "kernel"
        /\ LET packets == Append(slot[head].packets,
                                 [number |-> arrived + 1, valid |-> valid])
               full == Len(packets) = Capacity
           IN  /\ slot' = [slot EXCEPT ![head] =
                             [status |-> IF full THEN "user" ELSE "kernel",
                              packets |-> packets]]
               /\ head' = IF full THEN Advance(head) ELSE head
  /\ UNCHANGED <<tpacket_version, empty_blocks, current, remaining, consumed,
                 loopVars, thread, ownerVars>>

RetireBlock ==
  /\ Receiving
  /\ tpacket_version = "V3"
  /\ slot[head].status = "kernel"
  /\ \/ /\ slot[head].packets # <<>>
        /\ UNCHANGED empty_blocks
     \/ /\ slot[head].packets = <<>>
        /\ empty_blocks < MaxEmptyBlocks
        /\ empty_blocks' = empty_blocks + 1
  /\ slot' = [slot EXCEPT ![head] = [status |-> "user", packets |-> @.packets]]
  /\ head' = Advance(head)
  /\ UNCHANGED <<tpacket_version, arrived, current, remaining, consumed,
                 loopVars, thread, ownerVars>>
-----------------------------------------------------------------------------
(* next_packet, called bare or from capture_loop.                          *)

\* Fault variants: plausible slips in the steps below.
ReleasedAfterEachPacket(left) == TRUE
LeaveWithoutReset ==
  /\ thread = "leaving"
  /\ thread' = "outside"
  /\ looping' = FALSE
  /\ UNCHANGED <<tpacket_version, ringVars, kernelVars, consumed, running,
                 in_capture_loop, count, max_packets, thrown, ownerVars>>
EmptyBlockKept ==
  /\ thread' = IF slot[current].packets = <<>> THEN "check" ELSE "extract"
  /\ remaining' = Len(slot[current].packets)
  /\ current' = IF slot[current].packets = <<>> THEN (current + 1) % Slots ELSE current
  /\ UNCHANGED slot
DestructorWithoutWait ==
  /\ owner = "waiting"
  /\ owner' = "closing"
  /\ UNCHANGED <<tpacket_version, ringVars, kernelVars, consumed, loopVars, thread,
                 descriptorVars, mapped>>
-----------------------------------------------------------------------------
\* Where a next_packet call returns to.
Caller == IF looping THEN "test" ELSE "outside"

\* The status word of the current slot says it belongs to the user.
Ready == slot[current].status = "user"

\* Give the current slot back to the kernel and move on to the next one.
ReleaseSlot ==
  /\ slot' = [slot EXCEPT ![current] = FreeSlot]
  /\ current' = Advance(current)

\* Is the current slot done once left packets of it remain?  The code also
\* tests tp_next_offset, which the kernel leaves 0 in the last packet only.
LastOfSlot(left) == left = 0

next_packet ==
  /\ thread = "outside"
  /\ owner = "using"
  /\ thread' = "socket"
  /\ UNCHANGED <<tpacket_version, ringVars, kernelVars, consumed, loopVars, ownerVars>>

\* next_packet_impl: without a socket there is nothing to read, and without a
\* ring poll comes first.
CheckSocket ==
  /\ thread = "socket"
  /\ thread' = CASE socket_fd = "none" -> Caller
                 [] socket_fd # "none" /\ mapped -> "check"
                 [] OTHER -> "poll"
  /\ UNCHANGED <<tpacket_version, ringVars, kernelVars, consumed, loopVars, ownerVars>>

\* A slot that the kernel has passed on: a frame is read at once; a block is
\* read from its first packet, or released when it is empty, and then the
\* next block is looked at.
OpenSlot ==
  IF tpacket_version = "V3" /\ slot[current].packets = <<>>
  THEN /\ ReleaseSlot
       /\ thread' = "check"
       /\ UNCHANGED remaining
  ELSE /\ thread' = "extract"
       /\ remaining' = Len(slot[current].packets)
       /\ UNCHANGED <<slot, current>>

CheckSlot ==
  /\ thread = "check"
  /\ \/ /\ remaining > 0
        /\ thread' = "extract"
        /\ UNCHANGED ringVars
     \/ /\ remaining = 0
        /\ Ready
        /\ OpenSlot
     \/ /\ remaining = 0
        /\ ~ Ready
        /\ thread' = "poll"
        /\ UNCHANGED ringVars
  /\ UNCHANGED <<tpacket_version, kernelVars, consumed, loopVars, ownerVars>>

\* poll returns because of data (or an error), or after timeout_ms.
Poll ==
  /\ thread = "poll"
  /\ thread' \in {Caller, IF tpacket_version = "none" THEN "receive" ELSE "recheck"}
  /\ UNCHANGED <<tpacket_version, ringVars, kernelVars, consumed, loopVars, ownerVars>>

Recheck ==
  /\ thread = "recheck"
  /\ \/ /\ Ready
        /\ OpenSlot
     \/ /\ ~ Ready
        /\ thread' = Caller
        /\ UNCHANGED ringVars
  /\ UNCHANGED <<tpacket_version, kernelVars, consumed, loopVars, ownerVars>>

\* An invalid header gives the whole slot back; a packet is copied out, and the
\* slot given back after its last one.
Extract ==
  LET packets == slot[current].packets
      packet == packets[Len(packets) - remaining + 1]
  IN  /\ thread = "extract"
      /\ \/ /\ ~ packet.valid
            /\ ReleaseSlot
            /\ remaining' = 0
            /\ thread' = Caller
            /\ UNCHANGED consumed
         \/ /\ packet.valid
            /\ consumed' = Append(consumed, packet)
            /\ \/ /\ LastOfSlot(remaining - 1)
                  /\ ReleaseSlot
                  /\ remaining' = 0
               \/ /\ ~ LastOfSlot(remaining - 1)
                  /\ remaining' = remaining - 1
                  /\ UNCHANGED <<slot, current>>
            /\ thread' = IF looping THEN "callback" ELSE "outside"
      /\ UNCHANGED <<tpacket_version, kernelVars, loopVars, ownerVars>>

\* recvfrom on the non-blocking socket: the oldest packet, or none.
Receive ==
  /\ thread = "receive"
  /\ \/ /\ socket_fd = "open" /\ Ready
        /\ consumed' = Append(consumed, slot[current].packets[1])
        /\ ReleaseSlot
        /\ thread' = IF looping THEN "callback" ELSE "outside"
     \/ /\ ~ (socket_fd = "open" /\ Ready)
        /\ thread' = Caller
        /\ UNCHANGED <<consumed, slot, current>>
  /\ UNCHANGED <<tpacket_version, kernelVars, remaining, loopVars, ownerVars>>
-----------------------------------------------------------------------------
(* capture_loop.  Its two stores on entry are separate steps.              *)

capture_loop(max) ==
  /\ thread = "outside"
  /\ owner = "using"
  /\ looping' = TRUE
  /\ count' = 0
  /\ max_packets' = max
  /\ thread' = "entering"
  /\ UNCHANGED <<tpacket_version, ringVars, kernelVars, consumed, running,
                 in_capture_loop, thrown, ownerVars>>

SetRunning ==
  /\ thread = "entering"
  /\ running' = TRUE
  /\ thread' = "entered"
  /\ UNCHANGED <<tpacket_version, ringVars, kernelVars, consumed, in_capture_loop,
                 looping, count, max_packets, thrown, ownerVars>>

SetInCaptureLoop ==
  /\ thread = "entered"
  /\ in_capture_loop' = TRUE
  /\ thread' = "test"
  /\ UNCHANGED <<tpacket_version, ringVars, kernelVars, consumed, running,
                 looping, count, max_packets, thrown, ownerVars>>

TestLoop ==
  /\ thread = "test"
  /\ thread' = IF running /\ (max_packets = 0 \/ count < max_packets)
               THEN "socket" ELSE "leaving"
  /\ UNCHANGED <<tpacket_version, ringVars, kernelVars, consumed, loopVars, ownerVars>>

\* The user's callback may stop the session.
Callback ==
  /\ thread = "callback"
  /\ running' \in {running, FALSE}
  /\ count' = count + 1
  /\ thread' = "test"
  /\ UNCHANGED <<tpacket_version, ringVars, kernelVars, consumed, in_capture_loop,
                 looping, max_packets, thrown, ownerVars>>

\* The callback's exception leaves capture_loop past the statement that clears
\* in_capture_loop_; whoever called the loop catches it.
CallbackThrows ==
  /\ thread = "callback"
  /\ running' \in {running, FALSE}
  /\ thread' = "outside"
  /\ looping' = FALSE
  /\ count' = 0 /\ max_packets' = 0
  /\ thrown' = TRUE
  /\ UNCHANGED <<tpacket_version, ringVars, kernelVars, consumed, in_capture_loop, ownerVars>>

\* The last thing the loop does; running_ keeps its value.
LeaveLoop ==
  /\ thread = "leaving"
  /\ in_capture_loop' = FALSE
  /\ thread' = "outside"
  /\ looping' = FALSE
  /\ count' = 0 /\ max_packets' = 0 /\ thrown' = FALSE
  /\ UNCHANGED <<tpacket_version, ringVars, kernelVars, consumed, running, ownerVars>>
-----------------------------------------------------------------------------
(* The owner.                                                              *)

start ==
  /\ owner = "using"
  /\ running' = TRUE
  /\ UNCHANGED <<tpacket_version, ringVars, kernelVars, consumed, in_capture_loop,
                 looping, count, max_packets, thrown, thread, ownerVars>>

stop ==
  /\ owner = "using"
  /\ running' = FALSE
  /\ UNCHANGED <<tpacket_version, ringVars, kernelVars, consumed, in_capture_loop,
                 looping, count, max_packets, thrown, thread, ownerVars>>

\* The destructor may run while a capture loop does: it is meant to wait for it.
MayDestroy ==
  \/ thread = "outside"
  \/ looping /\ (DestroyDuringEntry \/ thread \notin {"entering", "entered"})

Destroy ==
  /\ owner = "using"
  /\ MayDestroy
  /\ owner' = "waiting"
  /\ running' = FALSE
  /\ UNCHANGED <<tpacket_version, ringVars, kernelVars, consumed, in_capture_loop,
                 looping, count, max_packets, thrown, thread, descriptorVars, mapped>>

AwaitLoopExit ==
  /\ owner = "waiting"
  /\ ~ in_capture_loop
  /\ owner' = "closing"
  /\ UNCHANGED <<tpacket_version, ringVars, kernelVars, consumed, loopVars, thread,
                 descriptorVars, mapped>>

\* Whatever number socket_fd holds is closed.
CloseSocket ==
  /\ owner = "closing"
  /\ socket_fd' = "none"
  /\ closed_twice' = (socket_fd = "closed")
  /\ owner' = "unmapping"
  /\ UNCHANGED <<tpacket_version, ringVars, kernelVars, consumed, loopVars, thread, mapped>>

UnmapRing ==
  /\ owner = "unmapping"
  /\ mapped' = FALSE
  /\ owner' = "destroyed"
  /\ UNCHANGED <<tpacket_version, ringVars, kernelVars, consumed, loopVars, thread, descriptorVars>>
-----------------------------------------------------------------------------
Create == CreateSocket \/ BindInterface \/ SetUpRing

Kernel == (\E valid \in BOOLEAN : Arrive(valid)) \/ RetireBlock

Enter == next_packet \/ \E max \in MaxPacketsChoices : capture_loop(max)

ThreadStep ==
  \/ CheckSocket \/ CheckSlot \/ Poll \/ Recheck \/ Extract \/ Receive
  \/ SetRunning \/ SetInCaptureLoop \/ TestLoop \/ Callback \/ CallbackThrows \/ LeaveLoop

DestructorStep == AwaitLoopExit \/ CloseSocket \/ UnmapRing

Next == Create \/ Kernel \/ Enter \/ ThreadStep \/ start \/ stop \/ Destroy \/ DestructorStep

Spec == Init /\ [][Next]_vars

\* Both threads keep being scheduled, poll returns within timeout_ms, and the
\* callback returns or throws.  Nobody has to start, stop or destroy anything.
FairSpec == Spec /\ WF_vars(ThreadStep) /\ WF_vars(DestructorStep)
-----------------------------------------------------------------------------
\* The promise in the destructor's comment: the ring is mapped whenever the
\* thread reads a status word, a block header or a packet in it, so the
\* destructor's unmapping never faults the capture thread.
RingMappedWhileRead ==
  thread \in {"check", "recheck", "extract"} => mapped

\* Kernel and consumer stay in step around the ring: the slots that belong to
\* the user are exactly those from current up to head, so the consumer never
\* waits at a slot of the kernel's while packets wait in another one, and
\* while it reads a block that block is not the kernel's.
RingInStep ==
  /\ \E n \in 0 .. Slots :
       /\ head = (current + n) % Slots
       /\ \A k \in 0 .. Slots - 1 :
            (slot[(current + k) % Slots].status = "user") <=> (k < n)
  /\ thread = "extract" \/ remaining > 0 =>
       Ready /\ remaining \in 1 .. Len(slot[current].packets)

\* What is left of the current slot, and the packets of every other slot.
FirstUnread(i) == IF i = current /\ remaining > 0 THEN Len(slot[i].packets) - remaining + 1 ELSE 1

Unread == UNION {{slot[i].packets[k] : k \in FirstUnread(i) .. Len(slot[i].packets)} : i \in SlotIndex}

Channel == INSTANCE PacketChannel
             WITH channel <- Unread, Malformed <- {p \in Packet : ~ p.valid}

\* The ring is a FIFO channel from the kernel to the callers of next_packet:
\* whatever the interleaving of frames, retired blocks, polls and stops,
\* packets are returned in order and at most once, and none the kernel put
\* into the ring is lost except with an invalid one ahead of it in its block.
ImplementsChannel == Channel!Spec

\* Unless a callback threw, the destructor does not spin for ever on
\* in_capture_loop_, and leaves neither the socket nor the ring behind.  A flag
\* that a throwing callback left set is cleared by the end of a later loop.
DestructorTerminates ==
  owner = "waiting" ~> \/ owner = "destroyed" /\ socket_fd = "none" /\ ~ mapped
                       \/ thrown

\* Refuted (README, section 6): the destructor's wait always ends.  After an
\* exception of the callback nothing clears the flag it waits for.
DestructorAlwaysTerminates == owner = "waiting" ~> owner = "destroyed"

\* A descriptor is closed once, on the error paths of create too: a second
\* close would hit whatever the process has opened under that number since.
DescriptorClosedOnce == ~ closed_twice
=============================================================================
