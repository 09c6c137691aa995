------------------------ MODULE CaptureSessionProofs ------------------------
(***************************************************************************)
(* Proofs about the capture session, for every number and capacity of      *)
(* slots and for any number of packets: the ring stays mapped while it is  *)
(* read, kernel and consumer stay in step around it, and the ring is a     *)
(* FIFO channel.                                                           *)
(***************************************************************************)
EXTENDS CaptureSession, TLAPS

Creating == {"creating", "binding", "mapping"}

\* Where the thread is inside next_packet.
Reading == {"socket", "check", "poll", "recheck", "extract", "receive"}

\* The life of the session object: no call before create is done, a loop is
\* announced in in_capture_loop_ while it runs (and for good when its callback
\* threw), and the descriptor is closed before the ring is unmapped.
LifeCycle ==
  /\ owner \in Creating => thread = "outside" /\ tpacket_version = "none" /\ ~ mapped
  /\ thread = "outside" => ~ looping
  /\ thread \notin Reading \cup {"outside"} => looping
  /\ in_capture_loop <=> thrown \/ (looping /\ thread \notin {"entering", "entered"})
  /\ owner \in {"unmapping", "destroyed"} => socket_fd = "none"
  /\ owner \notin {"unmapping", "destroyed"} => (mapped <=> tpacket_version # "none")
  /\ mapped => tpacket_version # "none"
  /\ owner = "destroyed" => ~ mapped
  /\ socket_fd = "open" => owner \notin {"creating", "destroyed"}

\* The destructor goes on only without a reader: a session is destroyed when
\* nobody is in a call, or while a loop announces itself.
DestructorWaits ==
  /\ owner = "waiting" => thread = "outside" \/ in_capture_loop
  /\ owner \in {"closing", "unmapping", "destroyed"} => thread = "outside"

\* The thread reads the ring if there is one, and the socket if there is none;
\* it does not poll with a packet in hand.
ReadingPhase ==
  /\ thread \in {"check", "recheck", "extract"} => tpacket_version # "none"
  /\ thread = "receive" => tpacket_version = "none"
  /\ thread \in {"poll", "recheck", "receive"} => remaining = 0
  /\ tpacket_version = "none" => remaining = 0

\* The place of slot i, counted from slot c in ring order.
Place(c, i) == IF i >= c THEN i - c ELSE i + Slots - c

Wrap(i) == IF i < Slots THEN i ELSE i - Slots

\* The first n slots from current on belong to the user, and the kernel is at
\* the slot behind them.
UserSlots(n) ==
  /\ n \in 0 .. Slots
  /\ head = Wrap(current + n)
  /\ \A i \in SlotIndex : slot[i].status = "user" <=> Place(current, i) < n

InStep == \E n \in 0 .. Slots : UserSlots(n)

\* How full a slot is: only the slot the kernel is at may be begun, and a frame
\* is passed on with its packet.
Filled ==
  \A i \in SlotIndex :
    /\ Len(slot[i].packets) <= Capacity
    /\ slot[i].status = "kernel" /\ i # head => slot[i].packets = <<>>
    /\ slot[i].status = "kernel" => Len(slot[i].packets) < Capacity
    /\ slot[i].status = "user" /\ tpacket_version # "V3" => Len(slot[i].packets) = 1

InHand ==
  thread = "extract" \/ remaining > 0 => Ready /\ remaining \in 1 .. Len(slot[current].packets)

\* Packets lie in the ring in the order of their arrival, and no number is
\* beyond the last arrival.
Ordered ==
  /\ \A i \in SlotIndex : \A k \in 1 .. Len(slot[i].packets) :
       /\ slot[i].packets[k].number <= arrived
       /\ tpacket_version = "none" => slot[i].packets[k].valid
       /\ \A l \in 1 .. Len(slot[i].packets) :
            k < l => slot[i].packets[k].number < slot[i].packets[l].number
  /\ \A i, j \in SlotIndex : Place(current, i) < Place(current, j) =>
       \A k \in 1 .. Len(slot[i].packets), l \in 1 .. Len(slot[j].packets) :
         slot[i].packets[k].number < slot[j].packets[l].number
  /\ \A k \in 1 .. Len(consumed) : consumed[k].number <= arrived

EmptyAtFirst ==
  owner \in Creating => arrived = 0 /\ head = 0 /\ current = 0 /\ \A i \in SlotIndex : slot[i] = FreeSlot

RingInv == LifeCycle /\ ReadingPhase /\ EmptyAtFirst /\ InStep /\ Filled /\ InHand /\ Ordered

IInv == TypeOK /\ RingInv
-----------------------------------------------------------------------------
(* Arithmetic of the ring.                                                 *)

LEMMA ModWrap ==
  ASSUME NEW x \in SlotIndex, NEW k \in 0 .. Slots
  PROVE  (x + k) % Slots = Wrap(x + k)
  BY CaptureAssumption DEF SlotIndex, Wrap

LEMMA AdvanceWraps ==
  ASSUME NEW c \in SlotIndex
  PROVE  Advance(c) = Wrap(c + 1) /\ Advance(c) \in SlotIndex
  <1>1. (c + 1) % Slots = Wrap(c + 1)
    BY ModWrap, CaptureAssumption
  <1> QED BY <1>1, CaptureAssumption DEF Advance, Wrap, SlotIndex

\* Places are distinct; moving on by one brings every slot one place nearer
\* and the slot left behind to the last place.
LEMMA Places ==
  ASSUME NEW c \in SlotIndex
  PROVE  /\ \A i \in SlotIndex : Place(c, i) \in 0 .. Slots - 1 /\ (Place(c, i) = 0 <=> i = c)
         /\ \A i, j \in SlotIndex : Place(c, i) = Place(c, j) => i = j
         /\ \A i \in SlotIndex : Place(Wrap(c + 1), i) = IF i = c THEN Slots - 1 ELSE Place(c, i) - 1
         /\ \A n \in 0 .. Slots - 1 : Wrap(c + n) \in SlotIndex /\ Place(c, Wrap(c + n)) = n
  BY CaptureAssumption DEF SlotIndex, Place, Wrap

\* Moving on by one leaves the end of a stretch of n slots where it was, and a
\* stretch of n + 1 ends one slot further on.
LEMMA Stretches ==
  ASSUME NEW c \in SlotIndex
  PROVE  /\ \A n \in 1 .. Slots : Wrap(Wrap(c + 1) + (n - 1)) = Wrap(c + n)
         /\ \A n \in 0 .. Slots - 1 : Wrap(Wrap(c + n) + 1) = Wrap(c + (n + 1))
  BY CaptureAssumption DEF SlotIndex, Wrap
-----------------------------------------------------------------------------
(* The life of the session object.                                         *)

LEMMA InitIInv == Init => IInv /\ DestructorWaits
  <1> SUFFICES ASSUME Init PROVE IInv /\ DestructorWaits
    OBVIOUS
  <1>1. TypeOK
    BY CaptureAssumption DEF Init, TypeOK, SlotIndex, Slot, FreeSlot, ThreadState, OwnerState
  <1>2. LifeCycle /\ ReadingPhase /\ EmptyAtFirst /\ InHand /\ DestructorWaits
    BY DEF Init, LifeCycle, ReadingPhase, EmptyAtFirst, InHand, DestructorWaits, Creating, Reading
  <1>3. UserSlots(0)
    <2>1. current \in SlotIndex
      BY CaptureAssumption DEF Init, SlotIndex
    <2>2. \A i \in SlotIndex : ~ (Place(current, i) < 0)
      BY <2>1, Places, CaptureAssumption
    <2>3. \A i \in SlotIndex : slot[i].status = "kernel"
      BY DEF Init, FreeSlot
    <2> QED BY <2>2, <2>3, CaptureAssumption DEF Init, UserSlots, Wrap
  <1>4. InStep
    BY <1>3, CaptureAssumption DEF InStep
  <1>5. Filled /\ Ordered
    BY CaptureAssumption DEF Init, Filled, Ordered, FreeSlot, Capacity
  <1> QED BY <1>1, <1>2, <1>4, <1>5 DEF IInv, RingInv

\* The steps that leave the ring, the channel and the kernel alone.
Aside ==
  \/ CreateSocket \/ BindInterface \/ Enter \/ CheckSocket \/ Poll \/ SetRunning \/ SetInCaptureLoop
  \/ TestLoop \/ Callback \/ CallbackThrows \/ LeaveLoop \/ start \/ stop \/ Destroy \/ DestructorStep

LEMMA NextSteps ==
  ASSUME Next
  PROVE  Aside \/ SetUpRing \/ Kernel \/ CheckSlot \/ Recheck \/ Extract \/ Receive
  BY DEF Next, Aside, Create, ThreadStep

LEMMA AsideKeeps ==
  ASSUME Aside
  PROVE  UNCHANGED <<tpacket_version, ringVars, kernelVars, consumed>>
  BY DEF Aside, CreateSocket, BindInterface, Enter, next_packet, capture_loop, CheckSocket, Poll, SetRunning,
     SetInCaptureLoop, TestLoop, Callback, CallbackThrows, LeaveLoop, start, stop, Destroy, DestructorStep, AwaitLoopExit,
     CloseSocket, UnmapRing

LEMMA LifeCycleStep ==
  ASSUME IInv, [Next]_vars
  PROVE  LifeCycle'
  <1> LifeCycle /\ in_capture_loop \in BOOLEAN /\ thrown \in BOOLEAN /\ looping \in BOOLEAN /\ mapped \in BOOLEAN
    BY DEF IInv, RingInv, TypeOK
  <1> USE DEF LifeCycle, Creating, Reading
  <1>1. CASE CreateSocket \/ BindInterface \/ SetUpRing
    <2>1. CASE CreateSocket \/ BindInterface
      BY <2>1 DEF CreateSocket, BindInterface, loopVars
    <2>2. CASE SetUpRing
      BY <2>2 DEF SetUpRing, loopVars, descriptorVars
    <2> QED BY <1>1, <2>1, <2>2
  <1>2. CASE Enter
    BY <1>2 DEF Enter, next_packet, capture_loop, loopVars, ownerVars, descriptorVars
  <1>3. CASE CheckSocket \/ Poll \/ TestLoop
    BY <1>3 DEF CheckSocket, Poll, TestLoop, Caller, loopVars, ownerVars, descriptorVars
  <1>4. CASE CheckSlot \/ Recheck
    BY <1>4 DEF CheckSlot, Recheck, OpenSlot, Caller, loopVars, ownerVars, descriptorVars
  <1>5. CASE Extract \/ Receive
    BY <1>5 DEF Extract, Receive, Caller, loopVars, ownerVars, descriptorVars
  <1>6. CASE SetRunning \/ SetInCaptureLoop \/ Callback \/ CallbackThrows \/ LeaveLoop
    <2>1. CASE SetRunning \/ Callback
      <3>1. /\ UNCHANGED <<tpacket_version, in_capture_loop, looping, thrown, ownerVars>>
            /\ \/ thread = "entering" /\ thread' = "entered"
               \/ thread = "callback" /\ thread' = "test"
        BY <2>1 DEF SetRunning, Callback
      <3> QED BY <3>1 DEF ownerVars, descriptorVars
    <2>2. CASE SetInCaptureLoop
      BY <2>2 DEF SetInCaptureLoop, ownerVars, descriptorVars
    <2>3. CASE LeaveLoop
      BY <2>3 DEF LeaveLoop, ownerVars, descriptorVars
    <2>4. CASE CallbackThrows
      <3>1. /\ UNCHANGED <<tpacket_version, in_capture_loop, ownerVars>>
            /\ thread = "callback" /\ thread' = "outside" /\ looping' = FALSE /\ thrown' = TRUE
        BY <2>4 DEF CallbackThrows
      <3> QED BY <3>1 DEF ownerVars, descriptorVars
    <2> QED BY <1>6, <2>1, <2>2, <2>3, <2>4
  <1>7. CASE start \/ stop \/ Destroy
    BY <1>7 DEF start, stop, Destroy, ownerVars, descriptorVars
  <1>8. CASE DestructorStep
    BY <1>8 DEF DestructorStep, AwaitLoopExit, CloseSocket, UnmapRing, loopVars, descriptorVars
  <1>9. CASE Kernel
    <2>1. UNCHANGED <<tpacket_version, loopVars, thread, ownerVars>>
      BY <1>9 DEF Kernel, Arrive, RetireBlock
    <2> QED BY <2>1 DEF loopVars, ownerVars, descriptorVars
  <1>10. CASE UNCHANGED vars
    BY <1>10 DEF vars, loopVars, ownerVars, descriptorVars
  <1> QED BY <1>1, <1>2, <1>3, <1>4, <1>5, <1>6, <1>7, <1>8, <1>9, <1>10, NextSteps DEF Aside

LEMMA DestructorWaitsStep ==
  ASSUME ~ DestroyDuringEntry, IInv, DestructorWaits, [Next]_vars
  PROVE  DestructorWaits'
  <1> USE DEF IInv, RingInv, LifeCycle, DestructorWaits, Reading, Creating
  <1>1. CASE CreateSocket \/ BindInterface \/ SetUpRing
    BY <1>1 DEF CreateSocket, BindInterface, SetUpRing, loopVars, descriptorVars
  <1>2. CASE Enter
    BY <1>2 DEF Enter, next_packet, capture_loop, loopVars, ownerVars, descriptorVars
  <1>3. CASE CheckSocket \/ Poll \/ TestLoop
    BY <1>3 DEF CheckSocket, Poll, TestLoop, Caller, loopVars, ownerVars, descriptorVars
  <1>4. CASE CheckSlot \/ Recheck
    BY <1>4 DEF CheckSlot, Recheck, OpenSlot, Caller, loopVars, ownerVars, descriptorVars
  <1>5. CASE Extract \/ Receive
    BY <1>5 DEF Extract, Receive, Caller, loopVars, ownerVars, descriptorVars
  <1>6. CASE SetRunning \/ SetInCaptureLoop \/ Callback \/ CallbackThrows \/ LeaveLoop
    BY <1>6 DEF SetRunning, SetInCaptureLoop, Callback, CallbackThrows, LeaveLoop, ownerVars, descriptorVars
  <1>7. CASE start \/ stop \/ Destroy
    BY <1>7 DEF start, stop, Destroy, MayDestroy, ownerVars, descriptorVars
  <1>8. CASE DestructorStep
    BY <1>8 DEF DestructorStep, AwaitLoopExit, CloseSocket, UnmapRing, loopVars, descriptorVars
  <1>9. CASE Kernel
    BY <1>9 DEF Kernel, Arrive, RetireBlock, loopVars, ownerVars, descriptorVars
  <1>10. CASE UNCHANGED vars
    BY <1>10 DEF vars, loopVars, ownerVars, descriptorVars
  <1> QED BY <1>1, <1>2, <1>3, <1>4, <1>5, <1>6, <1>7, <1>8, <1>9, <1>10, NextSteps DEF Aside

LEMMA ReadingPhaseStep ==
  ASSUME IInv, [Next]_vars
  PROVE  ReadingPhase'
  <1> USE DEF IInv, RingInv, LifeCycle, ReadingPhase, Reading, Creating
  <1> remaining \in 0 .. BlockCapacity /\ socket_fd \in {"none", "open", "closed"} /\ BlockCapacity \in Nat
      /\ Slots \in Nat
    BY CaptureAssumption DEF TypeOK
  <1>1. CASE CreateSocket \/ BindInterface \/ SetUpRing
    BY <1>1 DEF CreateSocket, BindInterface, SetUpRing, ringVars
  <1>2. CASE Enter
    BY <1>2 DEF Enter, next_packet, capture_loop, ringVars
  <1>3. CASE CheckSocket \/ Poll \/ TestLoop
    BY <1>3 DEF CheckSocket, Poll, TestLoop, Caller, ringVars
  <1>4. CASE CheckSlot \/ Recheck
    BY <1>4 DEF CheckSlot, Recheck, OpenSlot, Caller, ringVars, ReleaseSlot
  <1>5. CASE Extract \/ Receive
    BY <1>5 DEF Extract, Receive, Caller
  <1>6. CASE SetRunning \/ SetInCaptureLoop \/ Callback \/ CallbackThrows \/ LeaveLoop
    BY <1>6 DEF SetRunning, SetInCaptureLoop, Callback, CallbackThrows, LeaveLoop, ringVars
  <1>7. CASE start \/ stop \/ Destroy
    BY <1>7 DEF start, stop, Destroy, ringVars
  <1>8. CASE DestructorStep
    BY <1>8 DEF DestructorStep, AwaitLoopExit, CloseSocket, UnmapRing, ringVars
  <1>9. CASE Kernel
    BY <1>9 DEF Kernel, Arrive, RetireBlock
  <1>10. CASE UNCHANGED vars
    BY <1>10 DEF vars, ringVars
  <1> QED BY <1>1, <1>2, <1>3, <1>4, <1>5, <1>6, <1>7, <1>8, <1>9, <1>10, NextSteps DEF Aside
-----------------------------------------------------------------------------
(* The ring.                                                               *)

LEMMA RingFacts ==
  ASSUME IInv
  PROVE  /\ slot \in [SlotIndex -> Slot]
         /\ head \in SlotIndex /\ current \in SlotIndex
         /\ remaining \in 0 .. BlockCapacity /\ arrived \in 0 .. MaxArrivals
         /\ Slots \in Nat \ {0} /\ BlockCapacity \in Nat \ {0} /\ MaxArrivals \in Nat
         /\ Capacity \in 1 .. BlockCapacity
         /\ \A i \in SlotIndex : /\ slot[i].status \in {"kernel", "user"}
                                 /\ slot[i].packets \in Seq(Packet)
                                 /\ Len(slot[i].packets) \in Nat
  <1>1. slot \in [SlotIndex -> Slot] /\ head \in SlotIndex /\ current \in SlotIndex
        /\ remaining \in 0 .. BlockCapacity /\ arrived \in 0 .. MaxArrivals
    BY DEF IInv, TypeOK
  <1>2. \A i \in SlotIndex : slot[i].status \in {"kernel", "user"} /\ slot[i].packets \in Seq(Packet)
    BY <1>1 DEF Slot
  <1> QED BY <1>1, <1>2, CaptureAssumption DEF Capacity

\* The packets in the ring and those consumed are packets.
LEMMA PacketFacts ==
  ASSUME IInv
  PROVE  /\ \A p \in Packet : p.number \in 1 .. MaxArrivals /\ p.number \in Int /\ p.valid \in BOOLEAN
         /\ \A i \in SlotIndex : \A k \in 1 .. Len(slot[i].packets) : slot[i].packets[k] \in Packet
         /\ \A k \in 1 .. Len(consumed) : consumed[k] \in Packet
  <1>1. \A p \in Packet : p.number \in 1 .. MaxArrivals /\ p.number \in Int /\ p.valid \in BOOLEAN
    BY CaptureAssumption DEF Packet
  <1>2. ASSUME NEW i \in SlotIndex, NEW k \in 1 .. Len(slot[i].packets)
        PROVE  slot[i].packets[k] \in Packet
    <2>1. slot[i].packets \in Seq(Packet)
      BY RingFacts
    <2> QED BY <2>1
  <1>3. consumed \in Seq(Packet)
    BY DEF IInv, TypeOK
  <1> QED BY <1>1, <1>2, <1>3

\* ReleaseSlot, seen slot by slot.
LEMMA Released ==
  ASSUME IInv, ReleaseSlot
  PROVE  /\ current' = Wrap(current + 1) /\ current' \in SlotIndex
         /\ slot' \in [SlotIndex -> Slot]
         /\ slot'[current].status = "kernel" /\ slot'[current].packets = <<>>
         /\ \A i \in SlotIndex : i # current => slot'[i] = slot[i]
         /\ \A i \in SlotIndex : Place(current', i) = IF i = current THEN Slots - 1 ELSE Place(current, i) - 1
  <1>1. FreeSlot \in Slot /\ FreeSlot.status = "kernel" /\ FreeSlot.packets = <<>>
    BY DEF FreeSlot, Slot
  <1>2. slot \in [SlotIndex -> Slot] /\ current \in SlotIndex
    BY RingFacts
  <1>3. current' = Wrap(current + 1) /\ current' \in SlotIndex
    BY <1>2, AdvanceWraps DEF ReleaseSlot
  <1>4. \A i \in SlotIndex : Place(Wrap(current + 1), i) = IF i = current THEN Slots - 1 ELSE Place(current, i) - 1
    BY <1>2, Places
  <1>5. /\ slot' \in [SlotIndex -> Slot]
        /\ slot'[current].status = "kernel" /\ slot'[current].packets = <<>>
        /\ \A i \in SlotIndex : i # current => slot'[i] = slot[i]
    BY <1>1, <1>2 DEF ReleaseSlot
  <1> QED BY <1>3, <1>4, <1>5

\* Giving the current slot back keeps the ring in step.
LEMMA ReleaseKeepsRing ==
  ASSUME IInv, ReleaseSlot, Ready, UNCHANGED <<head, tpacket_version>>
  PROVE  InStep' /\ Filled'
  <1>1. PICK n \in 0 .. Slots : UserSlots(n)
    BY DEF IInv, RingInv, InStep
  <1>2. n \in 1 .. Slots
    BY <1>1, RingFacts, Places DEF UserSlots, Ready
  <1>3. UserSlots(n - 1)'
    <2>1. head' = Wrap(current' + (n - 1))
      BY <1>1, <1>2, Released, RingFacts, Stretches DEF UserSlots
    <2>2. ASSUME NEW i \in SlotIndex
          PROVE  slot'[i].status = "user" <=> Place(current', i) < n - 1
      <3>1. Place(current', i) = IF i = current THEN Slots - 1 ELSE Place(current, i) - 1
        BY Released
      <3>2. slot[i].status = "user" <=> Place(current, i) < n
        BY <1>1 DEF UserSlots
      <3>3. Place(current, i) \in 0 .. Slots - 1
        BY RingFacts, Places
      <3>4. CASE i = current
        BY <1>2, <3>1, <3>4, Released, RingFacts
      <3>5. CASE i # current
        BY <1>2, <3>1, <3>2, <3>3, <3>5, Released, RingFacts
      <3> QED BY <3>4, <3>5
    <2> QED BY <1>2, <2>1, <2>2, RingFacts DEF UserSlots
  <1>4. InStep'
    BY <1>2, <1>3, RingFacts DEF InStep
  <1>5. Capacity' = Capacity
    BY DEF Capacity
  <1>6. Filled'
    <2> SUFFICES ASSUME NEW i \in SlotIndex
                 PROVE  (/\ Len(slot[i].packets) <= Capacity
                         /\ slot[i].status = "kernel" /\ i # head => slot[i].packets = <<>>
                         /\ slot[i].status = "kernel" => Len(slot[i].packets) < Capacity
                         /\ slot[i].status = "user" /\ tpacket_version # "V3" => Len(slot[i].packets) = 1)'
      BY DEF Filled
    <2>1. CASE i = current
      BY <1>5, <2>1, Released, RingFacts
    <2>2. CASE i # current
      BY <1>5, <2>2, Released DEF Filled, IInv, RingInv
    <2> QED BY <2>1, <2>2
  <1> QED BY <1>4, <1>6

\* ... and the packets in order.
LEMMA ReleaseKeepsOrder ==
  ASSUME IInv, ReleaseSlot, UNCHANGED <<tpacket_version, arrived>>,
         \A k \in 1 .. Len(consumed') : consumed'[k].number <= arrived
  PROVE  Ordered'
  <1>1. Ordered
    BY DEF IInv, RingInv
  <1>2. ASSUME NEW i \in SlotIndex, NEW k \in 1 .. Len(slot'[i].packets)
        PROVE  i # current /\ slot'[i] = slot[i]
    BY <1>2, Released
  <1>3. ASSUME NEW i \in SlotIndex, NEW k \in 1 .. Len(slot'[i].packets)
        PROVE  /\ slot'[i].packets[k].number <= arrived'
               /\ tpacket_version' = "none" => slot'[i].packets[k].valid
               /\ \A l \in 1 .. Len(slot'[i].packets) :
                    k < l => slot'[i].packets[k].number < slot'[i].packets[l].number
    BY <1>1, <1>2, <1>3 DEF Ordered
  <1>4. ASSUME NEW i \in SlotIndex, NEW j \in SlotIndex, Place(current', i) < Place(current', j),
               NEW k \in 1 .. Len(slot'[i].packets), NEW l \in 1 .. Len(slot'[j].packets)
        PROVE  slot'[i].packets[k].number < slot'[j].packets[l].number
    <2>1. i # current /\ j # current /\ slot'[i] = slot[i] /\ slot'[j] = slot[j]
      BY <1>2
    <2>2. Place(current', i) = Place(current, i) - 1 /\ Place(current', j) = Place(current, j) - 1
      BY <2>1, Released
    <2>3. Place(current, i) \in Int /\ Place(current, j) \in Int
      BY RingFacts, Places
    <2>4. Place(current, i) < Place(current, j)
      BY <1>4, <2>2, <2>3
    <2> QED BY <1>1, <2>1, <2>4 DEF Ordered
  <1> QED BY <1>3, <1>4 DEF Ordered

LEMMA EmptyAtFirstStep ==
  ASSUME IInv, [Next]_vars
  PROVE  EmptyAtFirst'
  <1> USE DEF EmptyAtFirst, Creating
  <1>1. EmptyAtFirst /\ LifeCycle
    BY DEF IInv, RingInv
  <1>2. CASE Aside
    <2>1. owner' \in Creating => owner \in Creating
      BY <1>2 DEF Aside, CreateSocket, BindInterface, Enter, next_packet, capture_loop, CheckSocket, Poll,
         SetRunning, SetInCaptureLoop, TestLoop, Callback, CallbackThrows, LeaveLoop, start, stop, Destroy, DestructorStep,
         AwaitLoopExit, CloseSocket, UnmapRing, ownerVars
    <2> QED BY <1>1, <1>2, <2>1, AsideKeeps DEF ringVars, kernelVars
  <1>3. CASE SetUpRing
    BY <1>3 DEF SetUpRing
  <1>4. CASE Kernel
    <2>1. owner' = owner /\ owner \notin Creating
      BY <1>1, <1>4 DEF Kernel, Arrive, RetireBlock, Receiving, ownerVars, LifeCycle
    <2> QED BY <2>1
  <1>5. CASE CheckSlot \/ Recheck \/ Extract \/ Receive
    <2>1. owner' = owner /\ thread # "outside"
      BY <1>5 DEF CheckSlot, Recheck, Extract, Receive, ownerVars
    <2> QED BY <1>1, <2>1 DEF LifeCycle
  <1>6. CASE UNCHANGED vars
    BY <1>1, <1>6 DEF vars, ringVars, kernelVars, ownerVars
  <1> QED BY <1>2, <1>3, <1>4, <1>5, <1>6, NextSteps

\* The slot the kernel is at, when it owns one, and what passing it on does.
LEMMA KernelSlot ==
  ASSUME IInv, slot[head].status = "kernel"
  PROVE  \E n \in 0 .. Slots - 1 :
           /\ UserSlots(n)
           /\ Place(current, head) = n
           /\ \A j \in SlotIndex : Place(current, j) > n => slot[j].packets = <<>>
  <1>1. PICK n \in 0 .. Slots : UserSlots(n)
    BY DEF IInv, RingInv, InStep
  <1>2. \A j \in SlotIndex : Place(current, j) \in 0 .. Slots - 1
    BY RingFacts, Places
  <1>3. n \in 0 .. Slots - 1
    BY <1>1, <1>2, RingFacts DEF UserSlots
  <1>4. Place(current, head) = n
    BY <1>1, <1>3, RingFacts, Places DEF UserSlots
  <1>5. ASSUME NEW j \in SlotIndex, Place(current, j) > n
        PROVE  slot[j].packets = <<>>
    <2>1. j # head /\ slot[j].status # "user"
      BY <1>1, <1>2, <1>3, <1>4, <1>5 DEF UserSlots
    <2> QED BY <2>1, RingFacts DEF IInv, RingInv, Filled
  <1> QED BY <1>1, <1>3, <1>4, <1>5

\* Passing the kernel's slot on keeps the ring in step.
LEMMA PassOnKeepsStep ==
  ASSUME IInv, slot[head].status = "kernel", current' = current, head' = Advance(head),
         slot'[head].status = "user", \A i \in SlotIndex : i # head => slot'[i] = slot[i]
  PROVE  InStep'
  <1>1. PICK n \in 0 .. Slots - 1 : UserSlots(n) /\ Place(current, head) = n
    BY KernelSlot
  <1>2. head' = Wrap(current + (n + 1))
    BY <1>1, RingFacts, AdvanceWraps, Stretches DEF UserSlots
  <1>3. \A i \in SlotIndex : Place(current, i) \in 0 .. Slots - 1 /\ (Place(current, i) = n => i = head)
    BY <1>1, RingFacts, Places
  <1>4. ASSUME NEW i \in SlotIndex
        PROVE  slot'[i].status = "user" <=> Place(current, i) < n + 1
    <2>1. CASE i = head
      BY <1>1, <2>1
    <2>2. CASE i # head
      BY <1>1, <1>3, <2>2 DEF UserSlots
    <2> QED BY <2>1, <2>2
  <1>5. UserSlots(n + 1)'
    BY <1>1, <1>2, <1>4, RingFacts DEF UserSlots
  <1> QED BY <1>1, <1>5, RingFacts DEF InStep

\* The ring after a packet that found room, seen slot by slot.
LEMMA ArrivedAt ==
  ASSUME IInv, NEW valid \in BOOLEAN, Arrive(valid), slot[head].status = "kernel"
  PROVE  LET packet == [number |-> arrived + 1, valid |-> valid]
             full == Len(slot[head].packets) + 1 = Capacity
         IN  /\ packet \in Packet /\ packet.number = arrived + 1 /\ packet.valid = valid
             /\ arrived' = arrived + 1 /\ arrived' \in 1 .. MaxArrivals
             /\ slot' \in [SlotIndex -> Slot]
             /\ slot'[head].packets = Append(slot[head].packets, packet)
             /\ slot'[head].status = IF full THEN "user" ELSE "kernel"
             /\ \A i \in SlotIndex : i # head => slot'[i] = slot[i]
             /\ head' = IF full THEN Advance(head) ELSE head
             /\ UNCHANGED <<current, remaining, consumed, thread, tpacket_version, owner>>
  <1> DEFINE packet == [number |-> arrived + 1, valid |-> valid]
             packets == Append(slot[head].packets, packet)
             full == Len(packets) = Capacity
             new == [status |-> IF full THEN "user" ELSE "kernel", packets |-> packets]
  <1>1. arrived \in 0 .. MaxArrivals /\ arrived < MaxArrivals /\ MaxArrivals \in Nat
    BY RingFacts DEF Arrive
  <1>2. packet \in Packet /\ packet.number = arrived + 1 /\ packet.valid = valid
    BY <1>1 DEF Packet
  <1>3. /\ slot[head].packets \in Seq(Packet) /\ head \in SlotIndex /\ slot \in [SlotIndex -> Slot]
    BY RingFacts
  <1> HIDE DEF packet
  <1>4. packets \in Seq(Packet) /\ Len(packets) = Len(slot[head].packets) + 1
    BY <1>2, <1>3
  <1>5. /\ slot' = [slot EXCEPT ![head] = new]
        /\ head' = IF full THEN Advance(head) ELSE head
        /\ arrived' = arrived + 1
        /\ UNCHANGED <<current, remaining, consumed, thread, tpacket_version, owner>>
    BY DEF Arrive, packet, ownerVars
  <1> HIDE DEF packets
  <1>6. new \in Slot /\ new.packets = packets /\ new.status = IF full THEN "user" ELSE "kernel"
    BY <1>4 DEF Slot
  <1> HIDE DEF new
  <1>7. /\ slot' \in [SlotIndex -> Slot] /\ slot'[head] = new
        /\ \A i \in SlotIndex : i # head => slot'[i] = slot[i]
    BY <1>3, <1>5, <1>6
  <1>8. full <=> Len(slot[head].packets) + 1 = Capacity
    BY <1>4
  <1>9. arrived' \in 1 .. MaxArrivals
    BY <1>1, <1>5
  <1>10. slot'[head].packets = Append(slot[head].packets, packet)
    BY <1>6, <1>7 DEF packets
  <1> QED BY <1>2, <1>5, <1>6, <1>7, <1>8, <1>9, <1>10 DEF packet

LEMMA ArriveStep ==
  ASSUME IInv, NEW valid \in BOOLEAN, Arrive(valid), slot[head].status = "kernel"
  PROVE  InStep' /\ Filled' /\ InHand' /\ Ordered'
  <1> DEFINE packet == [number |-> arrived + 1, valid |-> valid]
             full == Len(slot[head].packets) + 1 = Capacity
             before == Len(slot[head].packets)
  <1>1. /\ packet.number = arrived + 1 /\ packet.valid = valid
        /\ arrived' = arrived + 1
        /\ slot'[head].packets = Append(slot[head].packets, packet)
        /\ slot'[head].status = IF full THEN "user" ELSE "kernel"
        /\ \A i \in SlotIndex : i # head => slot'[i] = slot[i]
        /\ head' = IF full THEN Advance(head) ELSE head
        /\ UNCHANGED <<current, remaining, consumed, thread, tpacket_version>>
    BY ArrivedAt
  <1>2. /\ slot[head].packets \in Seq(Packet) /\ head \in SlotIndex /\ current \in SlotIndex
        /\ Capacity \in Nat /\ arrived \in Nat /\ before \in Nat
    BY RingFacts
  <1> HIDE DEF packet
  <1>3. Len(slot'[head].packets) = before + 1
    BY <1>1, <1>2
  <1>4. /\ \A k \in 1 .. before : slot'[head].packets[k] = slot[head].packets[k]
        /\ slot'[head].packets[before + 1] = packet
    BY <1>1, <1>2
  <1>5. Capacity' = Capacity
    BY <1>1 DEF Capacity
  <1>6. before < Capacity
    BY <1>2 DEF IInv, RingInv, Filled
  <1>7. InStep'
    <2>1. CASE full
      BY <1>1, <2>1, PassOnKeepsStep
    <2>2. CASE ~ full
      <3>1. /\ head' = head /\ current' = current
            /\ \A i \in SlotIndex : slot'[i].status = slot[i].status
        BY <1>1, <2>2
      <3> QED BY <3>1 DEF IInv, RingInv, InStep, UserSlots
    <2> QED BY <2>1, <2>2
  <1>8. Filled'
    <2> SUFFICES ASSUME NEW i \in SlotIndex
                 PROVE  /\ Len(slot'[i].packets) <= Capacity'
                        /\ slot'[i].status = "kernel" /\ i # head' => slot'[i].packets = <<>>
                        /\ slot'[i].status = "kernel" => Len(slot'[i].packets) < Capacity'
                        /\ slot'[i].status = "user" /\ tpacket_version' # "V3" => Len(slot'[i].packets) = 1
      BY DEF Filled
    <2>1. CASE i = head
      <3>1. tpacket_version' # "V3" => Capacity = 1
        BY <1>1 DEF Capacity
      <3>2. Len(slot'[i].packets) = before + 1 /\ before + 1 <= Capacity
        BY <1>2, <1>3, <1>6, <2>1
      <3>3. slot'[i].status = "user" => before + 1 = Capacity
        BY <1>1, <2>1
      <3>4. slot'[i].status = "kernel" => before + 1 # Capacity /\ head' = i
        BY <1>1, <2>1
      <3> HIDE DEF before
      <3> QED BY <1>2, <1>5, <1>6, <3>1, <3>2, <3>3, <3>4
    <2>2. CASE i # head
      BY <1>1, <1>5, <2>2 DEF IInv, RingInv, Filled
    <2> QED BY <2>1, <2>2
  <1>9. InHand'
    <2>1. CASE thread = "extract" \/ remaining > 0
      <3>1. Ready /\ remaining \in 1 .. Len(slot[current].packets)
        BY <2>1 DEF IInv, RingInv, InHand
      <3>2. current # head
        BY <3>1 DEF Ready
      <3> QED BY <1>1, <1>2, <3>1, <3>2 DEF InHand, Ready
    <2>2. CASE ~ (thread = "extract" \/ remaining > 0)
      BY <1>1, <2>2 DEF InHand
    <2> QED BY <2>1, <2>2
  <1>10. Ordered'
    <2> USE DEF Ordered
    <2>1. Ordered
      BY DEF IInv, RingInv
    <2>2. ASSUME NEW i \in SlotIndex, NEW k \in 1 .. Len(slot'[i].packets)
          PROVE  /\ slot'[i].packets[k].number <= arrived'
                 /\ tpacket_version' = "none" => slot'[i].packets[k].valid
                 /\ \A l \in 1 .. Len(slot'[i].packets) :
                      k < l => slot'[i].packets[k].number < slot'[i].packets[l].number
      <3>1. \A l \in 1 .. Len(slot[i].packets) : slot[i].packets[l].number \in Int
        BY PacketFacts
      <3>2. CASE i # head
        <4>1. slot'[i] = slot[i] /\ arrived' = arrived + 1 /\ tpacket_version' = tpacket_version
          BY <1>1, <3>2
        <4>2. /\ slot[i].packets[k].number <= arrived
              /\ tpacket_version = "none" => slot[i].packets[k].valid
              /\ \A l \in 1 .. Len(slot[i].packets) :
                   k < l => slot[i].packets[k].number < slot[i].packets[l].number
          BY <2>1, <2>2, <4>1
        <4>3. slot[i].packets[k].number \in Int
          BY <2>2, <3>1, <4>1
        <4> HIDE DEF Ordered
        <4> QED BY <1>2, <4>1, <4>2, <4>3
      <3>3. CASE i = head /\ k <= before
        <4>1. k \in 1 .. before /\ slot'[i].packets[k] = slot[i].packets[k]
          BY <1>2, <1>3, <1>4, <2>2, <3>3
        <4>2. slot[i].packets[k].number <= arrived /\ slot[i].packets[k].number \in Int
          BY <2>1, <3>1, <3>3, <4>1
        <4>3. ASSUME NEW l \in 1 .. Len(slot'[i].packets), k < l
              PROVE  slot'[i].packets[k].number < slot'[i].packets[l].number
          <5>1. CASE l \in 1 .. before
            BY <1>4, <2>1, <3>3, <4>1, <4>3, <5>1
          <5>2. CASE l = before + 1
            <6>1. slot'[i].packets[l].number = arrived + 1
              BY <1>1, <1>4, <3>3, <5>2
            <6> QED BY <1>2, <4>1, <4>2, <6>1
          <5> QED BY <1>2, <1>3, <3>3, <4>3, <5>1, <5>2
        <4>4. tpacket_version' = "none" => slot'[i].packets[k].valid
          BY <1>1, <2>1, <3>3, <4>1
        <4>5. slot'[i].packets[k].number <= arrived'
          BY <1>1, <1>2, <4>1, <4>2
        <4> QED BY <4>3, <4>4, <4>5
      <3>4. CASE i = head /\ k = before + 1
        <4>1. tpacket_version' = "none" => valid
          BY <1>1 DEF Arrive
        <4> QED BY <1>1, <1>2, <1>3, <1>4, <2>2, <3>4, <4>1
      <3> QED BY <1>2, <1>3, <2>2, <3>2, <3>3, <3>4
    <2>3. PICK n \in 0 .. Slots - 1 :
            /\ Place(current, head) = n
            /\ \A j \in SlotIndex : Place(current, j) > n => slot[j].packets = <<>>
      BY KernelSlot
    <2>4. ASSUME NEW i \in SlotIndex, NEW j \in SlotIndex, Place(current', i) < Place(current', j),
                 NEW k \in 1 .. Len(slot'[i].packets), NEW l \in 1 .. Len(slot'[j].packets)
          PROVE  slot'[i].packets[k].number < slot'[j].packets[l].number
      <3>1. Place(current, i) < Place(current, j) /\ Place(current, i) \in Int /\ Place(current, j) \in Int
        BY <1>1, <2>4, RingFacts, Places
      <3>2. i # j
        BY <3>1
      <3>3. i # head
        <4>1. CASE i = head
          <5>1. slot[j].packets = <<>> /\ slot'[j] = slot[j]
            BY <1>1, <2>3, <3>1, <3>2, <4>1
          <5> QED BY <2>4, <5>1
        <4> QED BY <4>1
      <3>4. slot'[i] = slot[i] /\ k \in 1 .. Len(slot[i].packets)
        BY <1>1, <3>3
      <3>5. slot[i].packets[k].number <= arrived /\ slot[i].packets[k].number \in Int
        BY <2>1, <3>4, PacketFacts
      <3>6. CASE j # head
        BY <1>1, <2>1, <2>4, <3>1, <3>4, <3>6
      <3>7. CASE j = head /\ l <= before
        <4>1. l \in 1 .. Len(slot[j].packets) /\ slot'[j].packets[l] = slot[j].packets[l]
          BY <1>2, <1>3, <1>4, <2>4, <3>7
        <4> QED BY <2>1, <3>1, <3>4, <4>1
      <3>8. CASE j = head /\ l = before + 1
        <4>1. slot'[j].packets[l].number = arrived + 1
          BY <1>1, <1>4, <3>8
        <4> QED BY <1>2, <3>4, <3>5, <4>1
      <3> QED BY <1>2, <1>3, <2>4, <3>6, <3>7, <3>8
    <2>5. \A k \in 1 .. Len(consumed') : consumed'[k].number <= arrived'
      <3>1. \A k \in 1 .. Len(consumed) : consumed[k] \in Packet
        BY DEF IInv, TypeOK
      <3> QED BY <1>1, <1>2, <2>1, <3>1 DEF Packet
    <2> QED BY <2>2, <2>4, <2>5
  <1> QED BY <1>7, <1>8, <1>9, <1>10

\* A block that is retired, seen slot by slot.
LEMMA Retired ==
  ASSUME IInv, RetireBlock
  PROVE  /\ slot' \in [SlotIndex -> Slot]
         /\ slot[head].status = "kernel" /\ slot'[head].status = "user"
         /\ \A i \in SlotIndex : slot'[i].packets = slot[i].packets
         /\ \A i \in SlotIndex : i # head => slot'[i] = slot[i]
         /\ head' = Advance(head) /\ tpacket_version = "V3"
         /\ UNCHANGED <<current, remaining, consumed, thread, tpacket_version, arrived, owner>>
  <1> DEFINE new == [status |-> "user", packets |-> slot[head].packets]
  <1>1. /\ slot[head].packets \in Seq(Packet) /\ head \in SlotIndex /\ slot \in [SlotIndex -> Slot]
    BY RingFacts
  <1>2. /\ slot' = [slot EXCEPT ![head] = new]
        /\ slot[head].status = "kernel" /\ head' = Advance(head) /\ tpacket_version = "V3"
        /\ UNCHANGED <<current, remaining, consumed, thread, tpacket_version, arrived, owner>>
    BY DEF RetireBlock, ownerVars
  <1>3. new \in Slot /\ new.status = "user" /\ new.packets = slot[head].packets
    BY <1>1 DEF Slot
  <1> HIDE DEF new
  <1>4. /\ slot' \in [SlotIndex -> Slot] /\ slot'[head] = new
        /\ \A i \in SlotIndex : i # head => slot'[i] = slot[i]
    BY <1>1, <1>2, <1>3
  <1> QED BY <1>2, <1>3, <1>4

LEMMA RetireStep ==
  ASSUME IInv, RetireBlock
  PROVE  InStep' /\ Filled' /\ InHand' /\ Ordered'
  <1>1. InStep'
    BY Retired, PassOnKeepsStep
  <1>2. Filled'
    <2>1. Filled /\ Capacity' = Capacity /\ Capacity \in Nat
      BY Retired, RingFacts DEF IInv, RingInv, Capacity
    <2> SUFFICES ASSUME NEW i \in SlotIndex
                 PROVE  /\ Len(slot'[i].packets) <= Capacity'
                        /\ slot'[i].status = "kernel" /\ i # head' => slot'[i].packets = <<>>
                        /\ slot'[i].status = "kernel" => Len(slot'[i].packets) < Capacity'
                        /\ slot'[i].status = "user" /\ tpacket_version' # "V3" => Len(slot'[i].packets) = 1
      BY DEF Filled
    <2>2. CASE i = head
      BY <2>1, <2>2, Retired DEF Filled
    <2>3. CASE i # head
      BY <2>1, <2>3, Retired DEF Filled
    <2> QED BY <2>2, <2>3
  <1>3. InHand'
    <2>1. CASE thread = "extract" \/ remaining > 0
      <3>1. Ready /\ remaining \in 1 .. Len(slot[current].packets)
        BY <2>1 DEF IInv, RingInv, InHand
      <3>2. current # head /\ current \in SlotIndex
        BY <3>1, Retired, RingFacts DEF Ready
      <3> QED BY <3>1, <3>2, Retired DEF InHand, Ready
    <2>2. CASE ~ (thread = "extract" \/ remaining > 0)
      BY <2>2, Retired DEF InHand
    <2> QED BY <2>1, <2>2
  <1>4. Ordered'
    <2>1. Ordered
      BY DEF IInv, RingInv
    <2>2. /\ \A i \in SlotIndex : slot'[i].packets = slot[i].packets
          /\ UNCHANGED <<current, consumed, tpacket_version, arrived>>
      BY Retired
    <2> QED BY <2>1, <2>2 DEF Ordered
  <1> QED BY <1>1, <1>2, <1>3, <1>4

\* Looking at a slot of the user's: an empty block is released, and otherwise
\* its packets are taken in hand.
LEMMA OpenSlotStep ==
  ASSUME IInv, Ready, OpenSlot, remaining = 0, UNCHANGED <<tpacket_version, kernelVars, consumed>>
  PROVE  InStep' /\ Filled' /\ InHand' /\ Ordered'
  <1> UNCHANGED <<head, arrived>>
    BY DEF kernelVars
  <1>1. CASE tpacket_version = "V3" /\ slot[current].packets = <<>>
    <2>1. ReleaseSlot /\ remaining' = 0 /\ thread' = "check"
      BY <1>1 DEF OpenSlot
    <2>2. InHand'
      BY <2>1 DEF InHand
    <2>3. \A k \in 1 .. Len(consumed') : consumed'[k].number <= arrived
      BY DEF IInv, RingInv, Ordered
    <2> QED BY <2>1, <2>2, <2>3, ReleaseKeepsRing, ReleaseKeepsOrder
  <1>2. CASE ~ (tpacket_version = "V3" /\ slot[current].packets = <<>>)
    <2>1. thread' = "extract" /\ remaining' = Len(slot[current].packets) /\ UNCHANGED <<slot, current>>
      BY <1>2 DEF OpenSlot
    <2>2. Len(slot[current].packets) \in Nat \ {0}
      <3>1. current \in SlotIndex /\ slot[current].packets \in Seq(Packet)
        BY RingFacts
      <3>2. tpacket_version # "V3" => Len(slot[current].packets) = 1
        BY <3>1 DEF Ready, IInv, RingInv, Filled
      <3> QED BY <1>2, <3>1, <3>2
    <2>3. InHand'
      BY <2>1, <2>2 DEF InHand, Ready
    <2>4. InStep' /\ Filled' /\ Ordered'
      BY <2>1 DEF IInv, RingInv, InStep, UserSlots, Filled, Capacity, Ordered
    <2> QED BY <2>3, <2>4
  <1> QED BY <1>1, <1>2

\* The packet in hand, and what is left of its slot once it is taken.
LEMMA PacketInHand ==
  ASSUME IInv, thread = "extract"
  PROVE  /\ Ready /\ remaining \in 1 .. Len(slot[current].packets)
         /\ Len(slot[current].packets) - remaining + 1 \in 1 .. Len(slot[current].packets)
         /\ slot[current].packets[Len(slot[current].packets) - remaining + 1] \in Packet
         /\ slot[current].packets[Len(slot[current].packets) - remaining + 1].number <= arrived
  <1>1. Ready /\ remaining \in 1 .. Len(slot[current].packets)
    BY DEF IInv, RingInv, InHand
  <1>2. current \in SlotIndex /\ Len(slot[current].packets) \in Nat
    BY RingFacts
  <1>3. Len(slot[current].packets) - remaining + 1 \in 1 .. Len(slot[current].packets)
    BY <1>1, <1>2
  <1> QED BY <1>1, <1>2, <1>3, PacketFacts DEF IInv, RingInv, Ordered

\* Handing a packet to the consumer keeps the numbers in bounds.
LEMMA ConsumedBounded ==
  ASSUME IInv, NEW packet \in Packet, packet.number <= arrived, consumed' = Append(consumed, packet)
  PROVE  /\ consumed' \in Seq(Packet)
         /\ \A k \in 1 .. Len(consumed') : consumed'[k].number <= arrived
  <1>1. consumed \in Seq(Packet) /\ \A k \in 1 .. Len(consumed) : consumed[k].number <= arrived
    BY DEF IInv, TypeOK, RingInv, Ordered
  <1> QED BY <1>1

LEMMA ExtractStep ==
  ASSUME IInv, Extract
  PROVE  InStep' /\ Filled' /\ InHand' /\ Ordered' /\ consumed' \in Seq(Packet)
  <1> DEFINE packets == slot[current].packets
             packet == packets[Len(packets) - remaining + 1]
  <1>1. thread = "extract" /\ UNCHANGED <<tpacket_version, head, arrived>>
    BY DEF Extract, kernelVars
  <1>2. /\ Ready /\ remaining \in 1 .. Len(packets) /\ packet \in Packet /\ packet.number <= arrived
        /\ Len(packets) \in Nat /\ current \in SlotIndex
    BY <1>1, PacketInHand, RingFacts
  <1>3. thread' # "extract"
    BY DEF Extract, Caller
  <1>4. consumed' = consumed \/ consumed' = Append(consumed, packet)
    BY DEF Extract
  <1>5. consumed' \in Seq(Packet) /\ \A k \in 1 .. Len(consumed') : consumed'[k].number <= arrived
    <2>1. CASE consumed' = consumed
      BY <2>1 DEF IInv, TypeOK, RingInv, Ordered
    <2> QED BY <1>2, <1>4, <2>1, ConsumedBounded
  <1>6. CASE ReleaseSlot /\ remaining' = 0
    <2>1. InHand'
      BY <1>3, <1>6 DEF InHand
    <2> QED BY <1>1, <1>2, <1>5, <1>6, <2>1, ReleaseKeepsRing, ReleaseKeepsOrder
  <1>7. CASE ~ LastOfSlot(remaining - 1) /\ remaining' = remaining - 1 /\ UNCHANGED <<slot, current>>
    <2>1. remaining' \in 1 .. Len(packets)
      BY <1>2, <1>7 DEF LastOfSlot
    <2>2. InHand'
      BY <1>2, <1>7, <2>1 DEF InHand, Ready
    <2>3. InStep' /\ Filled'
      BY <1>1, <1>7 DEF IInv, RingInv, InStep, UserSlots, Filled, Capacity
    <2>4. Ordered'
      BY <1>1, <1>5, <1>7 DEF IInv, RingInv, Ordered
    <2> QED BY <1>5, <2>2, <2>3, <2>4
  <1> QED BY <1>6, <1>7 DEF Extract

\* recvfrom returns the oldest packet of a session without a ring.
LEMMA ReceiveStep ==
  ASSUME IInv, Receive
  PROVE  InStep' /\ Filled' /\ InHand' /\ Ordered' /\ consumed' \in Seq(Packet)
  <1>1. /\ thread = "receive" /\ UNCHANGED <<tpacket_version, head, arrived, remaining>>
        /\ tpacket_version = "none" /\ remaining = 0
    BY DEF Receive, kernelVars, IInv, RingInv, ReadingPhase
  <1>2. InHand'
    <2>1. thread' # "extract"
      BY DEF Receive, Caller
    <2> QED BY <1>1, <2>1 DEF InHand
  <1>3. CASE Ready /\ ReleaseSlot /\ consumed' = Append(consumed, slot[current].packets[1])
    <2>1. current \in SlotIndex
      BY RingFacts
    <2>2. Len(slot[current].packets) = 1
      BY <1>1, <1>3, <2>1 DEF Ready, IInv, RingInv, Filled
    <2>3. slot[current].packets[1] \in Packet /\ slot[current].packets[1].number <= arrived
      BY <2>1, <2>2, PacketFacts DEF IInv, RingInv, Ordered
    <2> QED BY <1>1, <1>2, <1>3, <2>3, ConsumedBounded, ReleaseKeepsRing, ReleaseKeepsOrder
  <1>4. CASE UNCHANGED <<consumed, slot, current>>
    BY <1>1, <1>2, <1>4 DEF IInv, RingInv, InStep, UserSlots, Filled, Capacity, Ordered, TypeOK
  <1> QED BY <1>3, <1>4 DEF Receive

\* A packet that finds the kernel's next slot still with the user is dropped.
LEMMA DroppedKeeps ==
  ASSUME IInv, NEW valid \in BOOLEAN, Arrive(valid), slot[head].status = "user"
  PROVE  /\ UNCHANGED <<slot, head, current, remaining, consumed, thread, tpacket_version, owner>>
         /\ arrived' = arrived + 1 /\ arrived' \in 0 .. MaxArrivals
         /\ Ordered'
  <1>1. /\ UNCHANGED <<slot, head, current, remaining, consumed, thread, tpacket_version, owner>>
        /\ arrived' = arrived + 1 /\ arrived < MaxArrivals
    BY DEF Arrive, ownerVars
  <1>2. arrived' \in 0 .. MaxArrivals
    BY <1>1, RingFacts
  <1>3. Ordered'
    <2>1. Ordered /\ arrived \in Int
      BY RingFacts DEF IInv, RingInv
    <2>2. \A i \in SlotIndex : \A k \in 1 .. Len(slot[i].packets) : slot[i].packets[k].number <= arrived + 1
      BY <2>1, PacketFacts DEF Ordered
    <2>3. \A k \in 1 .. Len(consumed) : consumed[k].number <= arrived + 1
      BY <2>1, PacketFacts DEF Ordered
    <2> QED BY <1>1, <2>1, <2>2, <2>3 DEF Ordered
  <1> QED BY <1>1, <1>2, <1>3

\* Setting up the ring finds every slot free.
LEMMA SetUpStep ==
  ASSUME IInv, SetUpRing
  PROVE  InStep' /\ Filled' /\ InHand' /\ Ordered'
  <1>1. /\ UNCHANGED <<slot, head, current, remaining, consumed, thread, arrived>>
        /\ owner \in Creating
    BY DEF SetUpRing, ringVars, kernelVars, Creating
  <1>2. \A i \in SlotIndex : slot[i].status = "kernel" /\ slot[i].packets = <<>>
    BY <1>1 DEF IInv, RingInv, EmptyAtFirst, FreeSlot
  <1>3. InStep' /\ InHand'
    BY <1>1 DEF IInv, RingInv, InStep, UserSlots, InHand, Ready
  <1>4. Filled'
    <2>1. Capacity' \in Nat \ {0}
      BY CaptureAssumption DEF Capacity
    <2> QED BY <1>1, <1>2, <2>1 DEF Filled
  <1>5. Ordered'
    BY <1>1, <1>2 DEF IInv, RingInv, Ordered
  <1> QED BY <1>3, <1>4, <1>5

LEMMA RingStep ==
  ASSUME IInv, [Next]_vars
  PROVE  InStep' /\ Filled' /\ InHand' /\ Ordered'
  <1>1. ASSUME UNCHANGED <<tpacket_version, ringVars, kernelVars, consumed>>, thread' = "extract" => thread = "extract"
        PROVE  InStep' /\ Filled' /\ InHand' /\ Ordered'
    <2>1. UNCHANGED <<slot, head, current, remaining, consumed, tpacket_version, arrived>>
      BY <1>1 DEF ringVars, kernelVars
    <2> QED BY <1>1, <2>1 DEF IInv, RingInv, InStep, UserSlots, Filled, Capacity, InHand, Ready, Ordered
  <1>2. CASE Aside
    <2>1. thread' = "extract" => thread = "extract"
      BY <1>2 DEF Aside, CreateSocket, BindInterface, Enter, next_packet, capture_loop, CheckSocket, Poll, Caller,
         SetRunning, SetInCaptureLoop, TestLoop, Callback, CallbackThrows, LeaveLoop, start, stop, Destroy, DestructorStep,
         AwaitLoopExit, CloseSocket, UnmapRing
    <2> QED BY <1>1, <1>2, <2>1, AsideKeeps
  <1>3. CASE SetUpRing
    BY <1>3, SetUpStep
  <1>4. ASSUME NEW valid \in BOOLEAN, Arrive(valid)
        PROVE  InStep' /\ Filled' /\ InHand' /\ Ordered'
    <2>1. CASE slot[head].status = "user"
      BY <1>4, <2>1, DroppedKeeps DEF IInv, RingInv, InStep, UserSlots, Filled, Capacity, InHand, Ready
    <2>2. CASE slot[head].status = "kernel"
      BY <1>4, <2>2, ArriveStep
    <2> QED BY <2>1, <2>2, RingFacts
  <1>5. CASE RetireBlock
    BY <1>5, RetireStep
  <1>6. CASE CheckSlot \/ Recheck
    <2>1. UNCHANGED <<tpacket_version, kernelVars, consumed>>
      BY <1>6 DEF CheckSlot, Recheck
    <2>2. CASE Ready /\ OpenSlot /\ remaining = 0
      BY <2>1, <2>2, OpenSlotStep
    <2>3. CASE remaining > 0 /\ UNCHANGED ringVars
      <3>1. UNCHANGED <<slot, head, current, remaining, consumed, tpacket_version, arrived>>
        BY <2>1, <2>3 DEF ringVars, kernelVars
      <3> QED BY <2>3, <3>1 DEF IInv, RingInv, InStep, UserSlots, Filled, Capacity, InHand, Ready, Ordered
    <2>4. CASE thread' # "extract" /\ UNCHANGED ringVars
      BY <1>1, <2>1, <2>4
    <2>5. Recheck => remaining = 0
      BY DEF Recheck, IInv, RingInv, ReadingPhase
    <2> QED BY <1>6, <2>2, <2>3, <2>4, <2>5 DEF CheckSlot, Recheck, Caller
  <1>7. CASE Extract \/ Receive
    BY <1>7, ExtractStep, ReceiveStep
  <1>8. CASE UNCHANGED vars
    BY <1>1, <1>8 DEF vars
  <1> QED BY <1>2, <1>3, <1>4, <1>5, <1>6, <1>7, <1>8, NextSteps DEF Kernel

LEMMA TypeStep ==
  ASSUME IInv, [Next]_vars
  PROVE  TypeOK'
  <1> DEFINE RingTypes ==
        /\ slot \in [SlotIndex -> Slot] /\ current \in SlotIndex /\ remaining \in 0 .. BlockCapacity
        /\ head \in SlotIndex /\ arrived \in 0 .. MaxArrivals /\ empty_blocks \in 0 .. MaxEmptyBlocks
        /\ consumed \in Seq(Packet)
             LoopTypes ==
        /\ running \in BOOLEAN /\ in_capture_loop \in BOOLEAN /\ looping \in BOOLEAN /\ thrown \in BOOLEAN
        /\ count \in Nat /\ max_packets \in MaxPacketsChoices \cup {0} /\ thread \in ThreadState
             OwnerTypes ==
        /\ tpacket_version \in {"V2", "V3", "none"}
        /\ owner \in OwnerState /\ socket_fd \in {"none", "open", "closed"}
        /\ closed_twice \in BOOLEAN /\ mapped \in BOOLEAN
  <1> SUFFICES RingTypes' /\ LoopTypes' /\ OwnerTypes'
    BY DEF TypeOK
  <1>1. RingTypes /\ LoopTypes /\ OwnerTypes
    BY DEF IInv, TypeOK
  <1>2. RingTypes'
    <2>1. CASE UNCHANGED <<ringVars, kernelVars, consumed>>
      BY <1>1, <2>1 DEF ringVars, kernelVars
    <2>2. ASSUME NEW valid \in BOOLEAN, Arrive(valid) PROVE RingTypes'
      <3>1. empty_blocks' = empty_blocks
        BY <2>2 DEF Arrive
      <3>2. CASE slot[head].status = "user"
        BY <1>1, <2>2, <3>1, <3>2, DroppedKeeps
      <3>3. CASE slot[head].status = "kernel"
        <4>1. /\ slot' \in [SlotIndex -> Slot] /\ arrived' \in 1 .. MaxArrivals
              /\ head' \in {head, Advance(head)} /\ UNCHANGED <<current, remaining, consumed>>
          BY <2>2, <3>3, ArrivedAt
        <4>2. head' \in SlotIndex
          BY <1>1, <4>1, AdvanceWraps
        <4> QED BY <1>1, <3>1, <4>1, <4>2, CaptureAssumption
      <3> QED BY <3>2, <3>3, RingFacts
    <2>3. CASE RetireBlock
      <3>1. empty_blocks' \in 0 .. MaxEmptyBlocks
        BY <1>1, <2>3, CaptureAssumption DEF RetireBlock
      <3>2. head' \in SlotIndex
        BY <1>1, <2>3, Retired, AdvanceWraps
      <3> QED BY <1>1, <2>3, <3>1, <3>2, Retired
    <2>4. CASE CheckSlot \/ Recheck \/ Extract \/ Receive
      <3>1. UNCHANGED kernelVars
        BY <2>4 DEF CheckSlot, Recheck, Extract, Receive
      <3>2. consumed' \in Seq(Packet)
        BY <1>1, <2>4, ExtractStep, ReceiveStep DEF CheckSlot, Recheck
      <3>3. slot' \in [SlotIndex -> Slot] /\ current' \in SlotIndex
        BY <1>1, <2>4, Released DEF CheckSlot, Recheck, Extract, Receive, OpenSlot, ringVars
      <3>4. remaining' \in 0 .. BlockCapacity
        <4>1. Len(slot[current].packets) \in 0 .. BlockCapacity
          BY <1>1, RingFacts DEF IInv, RingInv, Filled
        <4>2. CASE CheckSlot \/ Recheck
          BY <1>1, <4>1, <4>2 DEF CheckSlot, Recheck, OpenSlot, ringVars
        <4>3. CASE Extract
          <5>1. remaining \in 1 .. Len(slot[current].packets)
            BY <4>3, PacketInHand DEF Extract
          <5>2. remaining' = 0 \/ remaining' = remaining - 1
            BY <4>3 DEF Extract
          <5> QED BY <1>1, <5>1, <5>2, CaptureAssumption
        <4>4. CASE Receive
          BY <1>1, <4>4 DEF Receive
        <4> QED BY <2>4, <4>2, <4>3, <4>4
      <3> QED BY <1>1, <3>1, <3>2, <3>3, <3>4 DEF kernelVars
    <2>5. Aside \/ SetUpRing => UNCHANGED <<ringVars, kernelVars, consumed>>
      BY AsideKeeps DEF SetUpRing
    <2>6. UNCHANGED vars => UNCHANGED <<ringVars, kernelVars, consumed>>
      BY DEF vars
    <2> QED BY <2>1, <2>2, <2>3, <2>4, <2>5, <2>6, NextSteps DEF Kernel
  <1>3. LoopTypes'
    <2> USE DEF ThreadState
    <2>1. CASE UNCHANGED <<loopVars, thread>>
      BY <1>1, <2>1 DEF loopVars
    <2>2. CASE Enter
      <3>1. CASE next_packet
        BY <1>1, <3>1 DEF next_packet, loopVars
      <3>2. ASSUME NEW max \in MaxPacketsChoices, capture_loop(max) PROVE LoopTypes'
        BY <1>1, <3>2 DEF capture_loop
      <3> QED BY <2>2, <3>1, <3>2 DEF Enter
    <2>3. CASE CheckSocket \/ Poll \/ TestLoop
      <3>1. thread' \in ThreadState /\ UNCHANGED loopVars
        BY <2>3 DEF CheckSocket, Poll, TestLoop, Caller
      <3> QED BY <1>1, <3>1 DEF loopVars
    <2>4. CASE CheckSlot \/ Recheck
      <3>1. thread' \in ThreadState /\ UNCHANGED loopVars
        BY <2>4 DEF CheckSlot, Recheck, OpenSlot, Caller
      <3> QED BY <1>1, <3>1 DEF loopVars
    <2>5. CASE Extract \/ Receive
      <3>1. thread' \in ThreadState /\ UNCHANGED loopVars
        BY <2>5 DEF Extract, Receive, Caller
      <3> QED BY <1>1, <3>1 DEF loopVars
    <2>6. CASE SetRunning \/ SetInCaptureLoop
      BY <1>1, <2>6 DEF SetRunning, SetInCaptureLoop
    <2>7. CASE Callback
      <3>1. running' \in BOOLEAN
        BY <1>1, <2>7 DEF Callback
      <3>2. count' \in Nat
        BY <1>1, <2>7 DEF Callback
      <3>3. thread' \in ThreadState /\ UNCHANGED <<in_capture_loop, looping, max_packets, thrown>>
        BY <2>7 DEF Callback
      <3> QED BY <1>1, <3>1, <3>2, <3>3
    <2>8. CASE LeaveLoop \/ CallbackThrows
      <3>1. running' \in BOOLEAN /\ in_capture_loop' \in BOOLEAN
        BY <1>1, <2>8 DEF LeaveLoop, CallbackThrows
      <3>2. thread' = "outside" /\ looping' = FALSE /\ count' = 0 /\ max_packets' = 0 /\ thrown' \in BOOLEAN
        BY <2>8 DEF LeaveLoop, CallbackThrows
      <3> QED BY <1>1, <3>1, <3>2
    <2>9. CASE start \/ stop \/ Destroy
      BY <1>1, <2>9 DEF start, stop, Destroy
    <2>10. CreateSocket \/ BindInterface \/ SetUpRing \/ DestructorStep \/ Kernel => UNCHANGED <<loopVars, thread>>
      BY DEF CreateSocket, BindInterface, SetUpRing, DestructorStep, AwaitLoopExit, CloseSocket, UnmapRing, Kernel,
         Arrive, RetireBlock
    <2>11. UNCHANGED vars => UNCHANGED <<loopVars, thread>>
      BY DEF vars
    <2> QED BY <2>1, <2>2, <2>3, <2>4, <2>5, <2>6, <2>7, <2>8, <2>9, <2>10, <2>11, NextSteps DEF Aside
  <1>4. OwnerTypes'
    <2> USE DEF OwnerState
    <2>1. CASE UNCHANGED <<tpacket_version, ownerVars>>
      BY <1>1, <2>1 DEF ownerVars, descriptorVars
    <2>2. CASE CreateSocket \/ BindInterface
      BY <1>1, <2>2 DEF CreateSocket, BindInterface
    <2>3. CASE SetUpRing
      <3>1. mapped' \in BOOLEAN
        BY <2>3 DEF SetUpRing
      <3>2. tpacket_version' \in {"V2", "V3", "none"} /\ owner' \in OwnerState /\ UNCHANGED descriptorVars
        BY <2>3 DEF SetUpRing
      <3> QED BY <1>1, <3>1, <3>2 DEF descriptorVars
    <2>4. CASE Destroy
      BY <1>1, <2>4 DEF Destroy, descriptorVars
    <2>5. CASE DestructorStep
      <3>1. CloseSocket => closed_twice' \in BOOLEAN
        BY DEF CloseSocket
      <3>2. CASE CloseSocket
        BY <1>1, <3>1, <3>2 DEF CloseSocket
      <3>3. CASE AwaitLoopExit \/ UnmapRing
        BY <1>1, <3>3 DEF AwaitLoopExit, UnmapRing, descriptorVars
      <3> QED BY <2>5, <3>2, <3>3 DEF DestructorStep
    <2>6. CheckSlot \/ Recheck \/ Extract \/ Receive \/ Kernel => UNCHANGED <<tpacket_version, ownerVars>>
      BY DEF CheckSlot, Recheck, Extract, Receive, Kernel, Arrive, RetireBlock
    <2>7. Enter \/ CheckSocket \/ Poll \/ SetRunning \/ SetInCaptureLoop \/ TestLoop \/ Callback \/ CallbackThrows \/ LeaveLoop
             \/ start \/ stop => UNCHANGED <<tpacket_version, ownerVars>>
      BY DEF Enter, next_packet, capture_loop, CheckSocket, Poll, SetRunning, SetInCaptureLoop, TestLoop, Callback,
         CallbackThrows, LeaveLoop, start, stop
    <2>8. UNCHANGED vars => UNCHANGED <<tpacket_version, ownerVars>>
      BY DEF vars
    <2> QED BY <2>1, <2>2, <2>3, <2>4, <2>5, <2>6, <2>7, <2>8, NextSteps DEF Aside
  <1> QED BY <1>2, <1>3, <1>4
-----------------------------------------------------------------------------
(* The invariants.                                                         *)

LEMMA Inductive == Spec => []IInv
  <1>1. IInv /\ [Next]_vars => IInv'
    BY TypeStep, LifeCycleStep, ReadingPhaseStep, EmptyAtFirstStep, RingStep DEF IInv, RingInv
  <1> QED BY <1>1, InitIInv, PTL DEF Spec

\* Types, for every ring: in particular the read position never leaves the
\* ring, and what next_packet returns are packets that arrived.
THEOREM TypeCorrect == Spec => []TypeOK
  BY Inductive, PTL DEF IInv

\* The destructor never unmaps the ring under a reader, provided it does not
\* start while a call is just being entered: the loop announces itself before
\* it reads, the destructor waits for it to leave, and nobody enters anew.
THEOREM MappedWhileRead ==
  ASSUME ~ DestroyDuringEntry
  PROVE  Spec => []RingMappedWhileRead
  <1>1. DestructorWaits /\ IInv /\ [Next]_vars => DestructorWaits'
    BY DestructorWaitsStep
  <1>2. IInv /\ DestructorWaits => RingMappedWhileRead
    BY DEF IInv, RingInv, TypeOK, OwnerState, LifeCycle, ReadingPhase, DestructorWaits, RingMappedWhileRead
  <1> QED BY <1>1, <1>2, InitIInv, Inductive, PTL DEF Spec

\* Kernel and consumer stay in step around a ring of any size, whatever the
\* destructor does meanwhile: current_frame and current_block always point at
\* the oldest slot that belongs to the user.
THEOREM StaysInStep == Spec => []RingInStep
  <1>1. ASSUME IInv PROVE RingInStep
    <2>1. PICK n \in 0 .. Slots : UserSlots(n)
      BY <1>1 DEF IInv, RingInv, InStep
    <2>2. current \in SlotIndex /\ Slots \in Nat \ {0}
      BY <1>1, RingFacts
    <2>3. head = (current + n) % Slots
      BY <2>1, <2>2, ModWrap DEF UserSlots
    <2>4. ASSUME NEW k \in 0 .. Slots - 1
          PROVE  (slot[(current + k) % Slots].status = "user") <=> (k < n)
      <3>1. k \in 0 .. Slots
        BY <2>2
      <3>2. (current + k) % Slots = Wrap(current + k)
        BY <2>2, <3>1, ModWrap
      <3>3. Wrap(current + k) \in SlotIndex /\ Place(current, Wrap(current + k)) = k
        BY <2>2, Places
      <3> QED BY <2>1, <3>2, <3>3 DEF UserSlots
    <2>5. InHand
      BY <1>1 DEF IInv, RingInv
    <2> QED BY <2>3, <2>4, <2>5 DEF RingInStep, InHand
  <1> QED BY <1>1, Inductive, PTL
-----------------------------------------------------------------------------
(* The refinement: the packets in the ring are the channel's.              *)

\* Unread of a ring s that is read at slot c with r packets in hand, and the
\* same packet by packet.
UnreadOf(s, c, r) ==
  UNION {{s[i].packets[k] : k \in (IF i = c /\ r > 0 THEN Len(s[i].packets) - r + 1 ELSE 1) .. Len(s[i].packets)} :
           i \in SlotIndex}

LiesIn(p, s, c, r) ==
  \E i \in SlotIndex : \E k \in 1 .. Len(s[i].packets) :
    (i = c /\ r > 0 => k >= Len(s[i].packets) - r + 1) /\ p = s[i].packets[k]

LEMMA UnreadMembers ==
  ASSUME NEW s, NEW c \in SlotIndex, NEW r \in Nat,
         \A i \in SlotIndex : Len(s[i].packets) \in Nat,
         r <= Len(s[c].packets)
  PROVE  \A p : p \in UnreadOf(s, c, r) <=> LiesIn(p, s, c, r)
  <1> DEFINE from(i) == IF i = c /\ r > 0 THEN Len(s[i].packets) - r + 1 ELSE 1
  <1>1. \A i \in SlotIndex : from(i) \in Nat /\ from(i) >= 1
    OBVIOUS
  <1>2. ASSUME NEW p
        PROVE  p \in UnreadOf(s, c, r) <=>
                 \E i \in SlotIndex : \E k \in from(i) .. Len(s[i].packets) : p = s[i].packets[k]
    BY DEF UnreadOf
  <1>3. ASSUME NEW i \in SlotIndex, NEW k
        PROVE  k \in from(i) .. Len(s[i].packets) <=>
                 k \in 1 .. Len(s[i].packets) /\ (i = c /\ r > 0 => k >= Len(s[i].packets) - r + 1)
    BY <1>1
  <1> HIDE DEF from
  <1> QED BY <1>2, <1>3 DEF LiesIn

LEMMA UnreadDefs ==
  Unread = UnreadOf(slot, current, remaining) /\ Unread' = UnreadOf(slot', current', remaining')
  BY DEF Unread, UnreadOf, FirstUnread

\* Both channels of a step, packet by packet.
LEMMA UnreadIs ==
  ASSUME IInv, IInv'
  PROVE  /\ \A p : p \in Unread <=> LiesIn(p, slot, current, remaining)
         /\ \A p : p \in Unread' <=> LiesIn(p, slot', current', remaining')
  <1>1. /\ current \in SlotIndex /\ remaining \in Nat /\ \A i \in SlotIndex : Len(slot[i].packets) \in Nat
        /\ remaining <= Len(slot[current].packets)
    BY RingFacts DEF IInv, RingInv, InHand
  <1>2. slot' \in [SlotIndex -> Slot] /\ current' \in SlotIndex /\ remaining' \in Nat
    BY CaptureAssumption DEF IInv, TypeOK
  <1>3. \A i \in SlotIndex : Len(slot'[i].packets) \in Nat
    BY <1>2 DEF Slot
  <1>4. remaining' <= Len(slot'[current'].packets)
    BY <1>2, <1>3 DEF IInv, RingInv, InHand
  <1> QED BY <1>1, <1>2, <1>3, <1>4, UnreadMembers, UnreadDefs

\* Every packet of a later place arrived later.
LEMMA NumbersIncrease ==
  ASSUME IInv
  PROVE  /\ \A i \in SlotIndex : \A k, l \in 1 .. Len(slot[i].packets) :
              k < l => slot[i].packets[k].number < slot[i].packets[l].number
         /\ \A j \in SlotIndex \ {current} :
              \A k \in 1 .. Len(slot[current].packets), l \in 1 .. Len(slot[j].packets) :
                slot[current].packets[k].number < slot[j].packets[l].number
  <1>1. Ordered /\ current \in SlotIndex
    BY RingFacts DEF IInv, RingInv
  <1>2. \A j \in SlotIndex \ {current} : Place(current, current) < Place(current, j)
    BY <1>1, Places, CaptureAssumption
  <1> QED BY <1>1, <1>2 DEF Ordered

\* The packet at the read position is the first of the channel.
LEMMA FrontIsFirst ==
  ASSUME IInv, IInv', NEW f \in 1 .. Len(slot[current].packets),
         f = IF remaining > 0 THEN Len(slot[current].packets) - remaining + 1 ELSE 1
  PROVE  LET front == slot[current].packets[f]
         IN  /\ front \in Packet
             /\ Channel!First(front)
             /\ \A p \in Unread : p # front => front.number < p.number
  <1> DEFINE front == slot[current].packets[f]
  <1>1. current \in SlotIndex /\ front \in Packet /\ remaining \in Nat /\ Len(slot[current].packets) \in Nat
    BY RingFacts, PacketFacts
  <1>2. front \in Unread
    <2>1. LiesIn(front, slot, current, remaining)
      BY <1>1 DEF LiesIn
    <2> QED BY <2>1, UnreadIs
  <1>3. ASSUME NEW p \in Unread, p # front
        PROVE  front.number < p.number
    <2>1. PICK i \in SlotIndex : \E k \in 1 .. Len(slot[i].packets) :
            (i = current /\ remaining > 0 => k >= Len(slot[i].packets) - remaining + 1) /\ p = slot[i].packets[k]
      BY UnreadIs DEF LiesIn
    <2>2. PICK k \in 1 .. Len(slot[i].packets) :
            (i = current /\ remaining > 0 => k >= Len(slot[i].packets) - remaining + 1) /\ p = slot[i].packets[k]
      BY <2>1
    <2>3. CASE i # current
      BY <2>2, <2>3, NumbersIncrease
    <2>4. CASE i = current
      <3>1. k # f
        BY <1>3, <2>2, <2>4
      <3>2. f < k
        BY <1>1, <2>2, <2>4, <3>1
      <3> QED BY <1>1, <2>2, <2>4, <3>2, NumbersIncrease
    <2> QED BY <2>3, <2>4
  <1> QED BY <1>1, <1>2, <1>3 DEF Channel!First, Channel!Before

\* Steps that leave every packet where it is, whether they take the current
\* slot in hand or not.
LEMMA UnreadKept ==
  ASSUME IInv, IInv', current' = current,
         \A i \in SlotIndex : slot'[i].packets = slot[i].packets,
         remaining' = remaining \/ (remaining = 0 /\ remaining' = Len(slot[current].packets))
  PROVE  Unread' = Unread
  <1>1. current \in SlotIndex /\ Len(slot[current].packets) \in Nat /\ remaining \in Nat
    BY RingFacts
  <1>2. ASSUME NEW i \in SlotIndex, NEW k \in 1 .. Len(slot[i].packets)
        PROVE  (i = current /\ remaining > 0 => k >= Len(slot[i].packets) - remaining + 1) <=>
                 (i = current /\ remaining' > 0 => k >= Len(slot[i].packets) - remaining' + 1)
    BY <1>1
  <1>3. \A p : LiesIn(p, slot', current', remaining') <=> LiesIn(p, slot, current, remaining)
    BY <1>2 DEF LiesIn
  <1> QED BY <1>3, UnreadIs

\* Giving the current slot back leaves the packets of the other slots, which
\* all arrived after those of the current one.
LEMMA UnreadReleased ==
  ASSUME IInv, IInv', ReleaseSlot, remaining' = 0
  PROVE  /\ \A p : p \in Unread' <=>
                     \E i \in SlotIndex \ {current} : \E k \in 1 .. Len(slot[i].packets) : p = slot[i].packets[k]
         /\ Unread' \subseteq Unread
         /\ \A k \in 1 .. Len(slot[current].packets) : \A q \in Unread' :
              slot[current].packets[k].number < q.number
  <1>1. /\ slot'[current].packets = <<>> /\ current \in SlotIndex
        /\ \A i \in SlotIndex : i # current => slot'[i] = slot[i]
    BY Released, RingFacts
  <1>2. ASSUME NEW p
        PROVE  p \in Unread' <=>
                 \E i \in SlotIndex \ {current} : \E k \in 1 .. Len(slot[i].packets) : p = slot[i].packets[k]
    <2>1. LiesIn(p, slot', current', remaining') <=>
            \E i \in SlotIndex : \E k \in 1 .. Len(slot'[i].packets) : p = slot'[i].packets[k]
      BY DEF LiesIn
    <2> QED BY <1>1, <2>1, UnreadIs
  <1>3. ASSUME NEW p \in Unread'
        PROVE  p \in Unread
    <2>1. LiesIn(p, slot, current, remaining)
      BY <1>2 DEF LiesIn
    <2> QED BY <2>1, UnreadIs
  <1>4. ASSUME NEW k \in 1 .. Len(slot[current].packets), NEW q \in Unread'
        PROVE  slot[current].packets[k].number < q.number
    BY <1>2, NumbersIncrease
  <1> QED BY <1>2, <1>3, <1>4

\* A packet that finds room joins the channel as its youngest.
LEMMA CaptureStep ==
  ASSUME IInv, IInv', NEW valid \in BOOLEAN, Arrive(valid), slot[head].status = "kernel"
  PROVE  Channel!Capture
  <1> DEFINE packet == [number |-> arrived + 1, valid |-> valid]
             before == Len(slot[head].packets)
  <1>1. /\ packet \in Packet /\ packet.number = arrived + 1
        /\ slot'[head].packets = Append(slot[head].packets, packet)
        /\ \A i \in SlotIndex : i # head => slot'[i] = slot[i]
        /\ UNCHANGED <<current, remaining, consumed>>
    BY ArrivedAt
  <1>2. /\ slot[head].packets \in Seq(Packet) /\ head \in SlotIndex /\ current \in SlotIndex
        /\ arrived \in Nat /\ before \in Nat /\ remaining \in Nat
    BY RingFacts
  <1> HIDE DEF packet
  <1>3. /\ Len(slot'[head].packets) = before + 1
        /\ \A k \in 1 .. before : slot'[head].packets[k] = slot[head].packets[k]
        /\ slot'[head].packets[before + 1] = packet
    BY <1>1, <1>2
  <1>4. head = current => remaining = 0
    BY <1>2 DEF IInv, RingInv, InHand, Ready
  <1>5. ASSUME NEW p, LiesIn(p, slot, current, remaining)
        PROVE  p \in Unread'
    <2>1. PICK i \in SlotIndex : \E k \in 1 .. Len(slot[i].packets) :
            (i = current /\ remaining > 0 => k >= Len(slot[i].packets) - remaining + 1) /\ p = slot[i].packets[k]
      BY <1>5 DEF LiesIn
    <2>2. PICK k \in 1 .. Len(slot[i].packets) :
            (i = current /\ remaining > 0 => k >= Len(slot[i].packets) - remaining + 1) /\ p = slot[i].packets[k]
      BY <2>1
    <2>3. CASE i # head
      <3>1. LiesIn(p, slot', current', remaining')
        BY <1>1, <2>2, <2>3 DEF LiesIn
      <3> QED BY <3>1, UnreadIs
    <2>4. CASE i = head
      <3>1. k \in 1 .. Len(slot'[i].packets) /\ p = slot'[i].packets[k]
        BY <1>2, <1>3, <2>2, <2>4
      <3>2. LiesIn(p, slot', current', remaining')
        BY <1>1, <1>2, <1>4, <2>4, <3>1 DEF LiesIn
      <3> QED BY <3>2, UnreadIs
    <2> QED BY <2>3, <2>4
  <1>6. packet \in Unread'
    <2>1. before + 1 \in 1 .. Len(slot'[head].packets)
      BY <1>2, <1>3
    <2>2. LiesIn(packet, slot', current', remaining')
      BY <1>1, <1>2, <1>3, <1>4, <2>1 DEF LiesIn
    <2> QED BY <2>2, UnreadIs
  <1>7. ASSUME NEW p, LiesIn(p, slot', current', remaining')
        PROVE  p \in Unread \cup {packet}
    <2>1. PICK i \in SlotIndex : \E k \in 1 .. Len(slot'[i].packets) :
            (i = current /\ remaining > 0 => k >= Len(slot'[i].packets) - remaining + 1) /\ p = slot'[i].packets[k]
      BY <1>1, <1>7 DEF LiesIn
    <2>2. PICK k \in 1 .. Len(slot'[i].packets) :
            (i = current /\ remaining > 0 => k >= Len(slot'[i].packets) - remaining + 1) /\ p = slot'[i].packets[k]
      BY <2>1
    <2>3. CASE i # head
      <3>1. LiesIn(p, slot, current, remaining)
        BY <1>1, <2>2, <2>3 DEF LiesIn
      <3> QED BY <3>1, UnreadIs
    <2>4. CASE i = head /\ k = before + 1
      BY <1>3, <2>2, <2>4
    <2>5. CASE i = head /\ k # before + 1
      <3>1. k \in 1 .. Len(slot[i].packets) /\ p = slot[i].packets[k]
        BY <1>2, <1>3, <2>2, <2>5
      <3>2. LiesIn(p, slot, current, remaining)
        BY <1>2, <1>4, <2>5, <3>1 DEF LiesIn
      <3> QED BY <3>2, UnreadIs
    <2> QED BY <2>3, <2>4, <2>5
  <1>8. Unread' = Unread \cup {packet}
    BY <1>5, <1>6, <1>7, UnreadIs
  <1>9. Channel!Before(Unread \cup Channel!Delivered, {packet})
    <2>1. \A p \in Unread : p.number <= arrived /\ p.number \in Int
      BY UnreadIs, PacketFacts DEF LiesIn, IInv, RingInv, Ordered
    <2>2. \A p \in Channel!Delivered : p.number <= arrived /\ p.number \in Int
      BY PacketFacts DEF Channel!Delivered, IInv, RingInv, Ordered
    <2> QED BY <1>1, <1>2, <2>1, <2>2 DEF Channel!Before
  <1> QED BY <1>1, <1>8, <1>9 DEF Channel!Capture

\* Taking the packet in hand: a valid one is delivered, an invalid one is
\* discarded with the rest of its slot.
LEMMA ExtractImplements ==
  ASSUME IInv, IInv', Extract
  PROVE  Channel!Deliver \/ Channel!Discard
  <1> DEFINE packets == slot[current].packets
             f == Len(packets) - remaining + 1
             front == packets[f]
  <1>1. thread = "extract"
    BY DEF Extract
  <1>2. remaining \in 1 .. Len(packets) /\ f \in 1 .. Len(packets) /\ Len(packets) \in Nat /\ current \in SlotIndex
    BY <1>1, PacketInHand, RingFacts
  <1>3. /\ front \in Packet /\ Channel!First(front)
        /\ \A p \in Unread : p # front => front.number < p.number
    BY <1>2, FrontIsFirst
  <1>4. front.number \in Int /\ front.valid \in BOOLEAN
    BY <1>3, PacketFacts
  <1>5. CASE ~ front.valid
    <2>1. ReleaseSlot /\ remaining' = 0 /\ consumed' = consumed
      BY <1>5 DEF Extract
    <2>2. Unread' \subseteq Unread
      BY <2>1, UnreadReleased
    <2>3. front \notin Unread'
      <3>1. \A q \in Unread' : front.number < q.number
        BY <1>2, <2>1, UnreadReleased
      <3> QED BY <1>4, <3>1
    <2>4. ASSUME NEW p \in Unread \ Unread', NEW q \in Unread'
          PROVE  p.number < q.number
      <3>1. PICK i \in SlotIndex : \E k \in 1 .. Len(slot[i].packets) : p = slot[i].packets[k]
        BY UnreadIs DEF LiesIn
      <3>2. i = current
        BY <2>1, <3>1, UnreadReleased
      <3> QED BY <2>1, <3>1, <3>2, UnreadReleased
    <2>5. front \in {p \in Packet : ~ p.valid}
      BY <1>3, <1>5
    <2> QED BY <1>3, <2>1, <2>2, <2>3, <2>4, <2>5 DEF Channel!Discard, Channel!Before
  <1>6. CASE front.valid
    <2>1. consumed' = Append(consumed, front)
      BY <1>6 DEF Extract
    <2>2. Unread' = Unread \ {front}
      <3>1. CASE remaining = 1 /\ ReleaseSlot /\ remaining' = 0
        <4>1. ASSUME NEW p \in Unread, p # front
              PROVE  p \in Unread'
          <5>1. PICK i \in SlotIndex : \E k \in 1 .. Len(slot[i].packets) :
                  (i = current /\ remaining > 0 => k >= Len(slot[i].packets) - remaining + 1) /\ p = slot[i].packets[k]
            BY UnreadIs DEF LiesIn
          <5>2. i # current
            BY <1>2, <3>1, <4>1, <5>1
          <5> QED BY <3>1, <5>1, <5>2, UnreadReleased
        <4>2. Unread' \subseteq Unread /\ \A q \in Unread' : front.number < q.number
          BY <1>2, <3>1, UnreadReleased
        <4> QED BY <1>4, <4>1, <4>2
      <3>2. CASE remaining > 1 /\ remaining' = remaining - 1 /\ UNCHANGED <<slot, current>>
        <4>1. ASSUME NEW p \in Unread, p # front
              PROVE  p \in Unread'
          <5>1. PICK i \in SlotIndex : \E k \in 1 .. Len(slot[i].packets) :
                  (i = current /\ remaining > 0 => k >= Len(slot[i].packets) - remaining + 1) /\ p = slot[i].packets[k]
            BY UnreadIs DEF LiesIn
          <5>2. PICK k \in 1 .. Len(slot[i].packets) :
                  (i = current /\ remaining > 0 => k >= Len(slot[i].packets) - remaining + 1) /\ p = slot[i].packets[k]
            BY <5>1
          <5>3. i = current => k # f
            BY <4>1, <5>2
          <5>4. i = current /\ remaining' > 0 => k >= Len(slot[i].packets) - remaining' + 1
            BY <1>2, <3>2, <5>2, <5>3
          <5>5. LiesIn(p, slot', current', remaining')
            BY <3>2, <5>2, <5>4 DEF LiesIn
          <5> QED BY <5>5, UnreadIs
        <4>2. ASSUME NEW p \in Unread'
              PROVE  p \in Unread /\ p # front
          <5>1. PICK i \in SlotIndex : \E k \in 1 .. Len(slot[i].packets) :
                  (i = current /\ remaining' > 0 => k >= Len(slot[i].packets) - remaining' + 1) /\ p = slot[i].packets[k]
            BY <3>2, UnreadIs DEF LiesIn
          <5>2. PICK k \in 1 .. Len(slot[i].packets) :
                  (i = current /\ remaining' > 0 => k >= Len(slot[i].packets) - remaining' + 1) /\ p = slot[i].packets[k]
            BY <5>1
          <5>3. i = current => k > f
            BY <1>2, <3>2, <5>2
          <5>4. front.number < p.number
            BY <1>2, <5>2, <5>3, NumbersIncrease
          <5>5. LiesIn(p, slot, current, remaining)
            BY <1>2, <5>2, <5>3 DEF LiesIn
          <5> QED BY <1>4, <5>4, <5>5, UnreadIs
        <4> QED BY <4>1, <4>2
      <3> QED BY <1>2, <1>6, <3>1, <3>2 DEF Extract, LastOfSlot
    <2>3. front \in Packet \ {p \in Packet : ~ p.valid}
      BY <1>3, <1>6
    <2> QED BY <1>3, <2>1, <2>2, <2>3 DEF Channel!Deliver
  <1> QED BY <1>4, <1>5, <1>6

\* recvfrom delivers the front of the socket's queue.
LEMMA ReceiveImplements ==
  ASSUME IInv, IInv', Receive
  PROVE  Channel!Deliver \/ UNCHANGED <<Unread, consumed>>
  <1> DEFINE front == slot[current].packets[1]
  <1>1. thread = "receive" /\ tpacket_version = "none" /\ remaining = 0 /\ remaining' = 0 /\ current \in SlotIndex
    BY RingFacts DEF Receive, IInv, RingInv, ReadingPhase
  <1>2. CASE Ready /\ ReleaseSlot /\ consumed' = Append(consumed, front)
    <2>1. Len(slot[current].packets) = 1
      BY <1>1, <1>2 DEF Ready, IInv, RingInv, Filled
    <2>2. /\ front \in Packet /\ Channel!First(front)
          /\ \A p \in Unread : p # front => front.number < p.number
      BY <1>1, <2>1, FrontIsFirst
    <2>3. front.valid /\ front.number \in Int
      BY <1>1, <2>1, <2>2, PacketFacts DEF IInv, RingInv, Ordered
    <2>4. ASSUME NEW p \in Unread, p # front
          PROVE  p \in Unread'
      <3>1. PICK i \in SlotIndex : \E k \in 1 .. Len(slot[i].packets) : p = slot[i].packets[k]
        BY UnreadIs DEF LiesIn
      <3>2. i # current
        BY <2>1, <2>4, <3>1
      <3> QED BY <1>1, <1>2, <3>1, <3>2, UnreadReleased
    <2>5. Unread' \subseteq Unread /\ \A q \in Unread' : front.number < q.number
      BY <1>1, <1>2, <2>1, UnreadReleased
    <2>6. Unread' = Unread \ {front}
      BY <2>3, <2>4, <2>5
    <2> QED BY <1>2, <2>2, <2>3, <2>6 DEF Channel!Deliver
  <1>3. CASE UNCHANGED <<consumed, slot, current>>
    BY <1>1, <1>3, UnreadKept
  <1> QED BY <1>2, <1>3 DEF Receive

\* Opening a slot neither adds nor removes a packet.
LEMMA OpenSlotImplements ==
  ASSUME IInv, IInv', OpenSlot, remaining = 0
  PROVE  Unread' = Unread
  <1>1. CASE tpacket_version = "V3" /\ slot[current].packets = <<>>
    <2>1. ReleaseSlot /\ remaining' = 0
      BY <1>1 DEF OpenSlot
    <2>2. ASSUME NEW p \in Unread
          PROVE  p \in Unread'
      <3>1. PICK i \in SlotIndex : \E k \in 1 .. Len(slot[i].packets) : p = slot[i].packets[k]
        BY UnreadIs DEF LiesIn
      <3>2. i # current
        BY <1>1, <3>1
      <3> QED BY <2>1, <3>1, <3>2, UnreadReleased
    <2> QED BY <2>1, <2>2, UnreadReleased
  <1>2. CASE ~ (tpacket_version = "V3" /\ slot[current].packets = <<>>)
    <2>1. remaining' = Len(slot[current].packets) /\ UNCHANGED <<slot, current>>
      BY <1>2 DEF OpenSlot
    <2> QED BY <2>1, UnreadKept
  <1> QED BY <1>1, <1>2

LEMMA NextImplements ==
  ASSUME IInv, IInv', [Next]_vars
  PROVE  [Channel!Next]_<<Unread, consumed>>
  <1>1. ASSUME UNCHANGED <<ringVars, consumed>>
        PROVE  UNCHANGED <<Unread, consumed>>
    BY <1>1, UnreadKept DEF ringVars
  <1>2. CASE Aside \/ SetUpRing \/ UNCHANGED vars
    <2>1. UNCHANGED <<ringVars, consumed>>
      BY <1>2, AsideKeeps DEF SetUpRing, vars
    <2> QED BY <1>1, <2>1
  <1>3. ASSUME NEW valid \in BOOLEAN, Arrive(valid)
        PROVE  Channel!Capture \/ UNCHANGED <<Unread, consumed>>
    <2>1. CASE slot[head].status = "user"
      <3>1. UNCHANGED <<ringVars, consumed>>
        BY <1>3, <2>1, DroppedKeeps DEF ringVars
      <3> QED BY <1>1, <3>1
    <2>2. CASE slot[head].status = "kernel"
      BY <1>3, <2>2, CaptureStep
    <2> QED BY <2>1, <2>2, RingFacts
  <1>4. CASE RetireBlock
    BY <1>4, Retired, UnreadKept
  <1>5. CASE CheckSlot \/ Recheck
    <2>1. consumed' = consumed
      BY <1>5 DEF CheckSlot, Recheck
    <2>2. Recheck => remaining = 0
      BY DEF Recheck, IInv, RingInv, ReadingPhase
    <2>3. CASE OpenSlot /\ remaining = 0
      BY <2>1, <2>3, OpenSlotImplements
    <2>4. CASE UNCHANGED ringVars
      BY <1>1, <2>1, <2>4
    <2> QED BY <1>5, <2>2, <2>3, <2>4 DEF CheckSlot, Recheck
  <1>6. CASE Extract \/ Receive
    BY <1>6, ExtractImplements, ReceiveImplements DEF Channel!Next
  <1> QED BY <1>2, <1>3, <1>4, <1>5, <1>6, NextSteps DEF Kernel, Channel!Next

\* Whatever the numbers of slots and packets, and whatever the interleaving of
\* the kernel, the consumer and the owner: the ring refines the FIFO channel.
\* next_packet returns packets in the order of their arrival and each at most
\* once, and loses none that entered the ring except behind an invalid one in
\* the same slot.
THEOREM RefinesChannel == Spec => ImplementsChannel
  <1>1. Init => Channel!Init
    <2> SUFFICES ASSUME Init PROVE Channel!Init
      OBVIOUS
    <2>1. \A i \in SlotIndex : slot[i].packets = <<>>
      BY DEF Init, FreeSlot
    <2>2. ASSUME NEW i \in SlotIndex
          PROVE  {slot[i].packets[k] : k \in FirstUnread(i) .. Len(slot[i].packets)} = {}
      <3>1. Len(slot[i].packets) = 0 /\ FirstUnread(i) = 1
        BY <2>1 DEF Init, FirstUnread
      <3> QED BY <3>1
    <2>3. Unread = {}
      BY <2>2 DEF Unread
    <2> QED BY <2>3 DEF Init, Channel!Init
  <1>2. IInv /\ IInv' /\ [Next]_vars => [Channel!Next]_<<Unread, consumed>>
    BY NextImplements
  <1> QED BY <1>1, <1>2, Inductive, PTL DEF Spec, ImplementsChannel, Channel!Spec
=============================================================================
