------------------------- MODULE FragmentReassembler -------------------------
(***************************************************************************)
(* Ipv4FragmentReassembler: a cache of incomplete datagrams, by source,    *)
(* destination, protocol and identification.  Fragments come in any order, *)
(* repeated, cut differently on another path, or never; senders use an     *)
(* identification again once it has been quiet for longer than the         *)
(* timeout.  Offsets are in units of 8 bytes.                              *)
(***************************************************************************)
EXTENDS Integers, FiniteSets, FiniteSetsExt

CONSTANTS
    Keys,               \* FragmentKey: source, destination, protocol, identification
    DatagramSizes,      \* sizes of a datagram's payload
    FragmentTimeout,    \* Config::timeout
    MaxDatagrams        \* bound: datagrams sent under one key

ASSUME FragmentAssumption ==
    DatagramSizes \subseteq Nat \ {0} /\ FragmentTimeout \in Nat /\ MaxDatagrams \in Nat \ {0}

VARIABLES
    cache,      \* cache_: the entries of incomplete datagrams
    quiet,      \* time since the last fragment under a key, up to the timeout and one
    sending,    \* the datagram a sender cuts into fragments: its number and size
    returned    \* what the last add_fragment returned

fragmentVars == <<cache, quiet, sending, returned>>

NoEntry == [fragments |-> <<>>, seen_last |-> FALSE, total_size |-> 0]

NoPayload == [size |-> 0, datagrams |-> {}]

FragmentInit ==
    /\ cache = [k \in {} |-> NoEntry]
    /\ quiet = [k \in Keys |-> FragmentTimeout + 1]
    /\ sending \in [Keys -> [number : {1}, size : DatagramSizes]]
    /\ returned = NoPayload

\* The sizes in front of an offset, which the walk adds up as it goes.
SizeBefore(fragments, offset) ==
    MapThenSumSet(LAMBDA o : fragments[o].size, {o \in DOMAIN fragments : o < offset})

\* The walk from offset 0 meets every fragment where the one before it ended.
Gapless(fragments) ==
    \A o \in DOMAIN fragments : o = SizeBefore(fragments, o)

AccumulatedSize(fragments) ==
    MapThenSumSet(LAMBDA o : fragments[o].size, DOMAIN fragments)

Complete(entry) ==
    /\ entry.seen_last
    /\ Gapless(entry.fragments)
    /\ AccumulatedSize(entry.fragments) = entry.total_size

\* Nothing expires.
UnexpiredAll == DOMAIN cache

\* An entry is as old as its key is quiet: last_update is set by every
\* fragment and nothing else.
Unexpired == {k \in DOMAIN cache : quiet[k] <= FragmentTimeout}

FragmentCleanupExpired ==
    /\ cache' = [k \in Unexpired |-> cache[k]]
    /\ UNCHANGED <<quiet, sending, returned>>

\* A fragment at an offset replaces the one stored there, whatever its size.
Stored(entry, from, to, datagram) ==
    [fragments |-> [o \in DOMAIN entry.fragments \union {from} |->
                      IF o = from THEN [size |-> to - from, datagram |-> datagram]
                      ELSE entry.fragments[o]],
     seen_last |-> entry.seen_last \/ to = datagram.size,
     total_size |-> IF to = datagram.size THEN to ELSE entry.total_size]

\* add_fragment of the bytes from..to-1 of the datagram being sent.
AddFragment(k, from, to) ==
    LET found == IF k \in Unexpired THEN cache[k] ELSE NoEntry
        entry == Stored(found, from, to, sending[k])
    IN /\ from < to /\ to <= sending[k].size
       /\ quiet' = [quiet EXCEPT ![k] = 0]
       /\ \/ /\ Complete(entry)
             /\ cache' = [j \in Unexpired \ {k} |-> cache[j]]
             /\ returned' = [size |-> entry.total_size,
                             datagrams |-> {entry.fragments[o].datagram : o \in DOMAIN entry.fragments}]
          \/ /\ ~Complete(entry)
             /\ cache' = [j \in Unexpired \union {k} |-> IF j = k THEN entry ELSE cache[j]]
             /\ returned' = NoPayload
       /\ UNCHANGED sending

FragmentClear ==
    /\ cache' = [k \in {} |-> NoEntry]
    /\ UNCHANGED <<quiet, sending, returned>>

\* A sender takes up an identification again.
NextDatagram(k) ==
    /\ quiet[k] > FragmentTimeout
    /\ sending[k].number < MaxDatagrams
    /\ \E n \in DatagramSizes :
         sending' = [sending EXCEPT ![k] = [number |-> @.number + 1, size |-> n]]
    /\ UNCHANGED <<cache, quiet, returned>>

FragmentTick ==
    /\ quiet' = [k \in Keys |-> IF quiet[k] > FragmentTimeout THEN quiet[k] ELSE quiet[k] + 1]
    /\ UNCHANGED <<cache, sending, returned>>

FragmentNext ==
    \/ \E k \in Keys : \E from, to \in 0..sending[k].size : AddFragment(k, from, to)
    \/ \E k \in Keys : NextDatagram(k)
    \/ FragmentCleanupExpired \/ FragmentClear \/ FragmentTick

\* A payload add_fragment returns is one datagram's, whole: fragments lost,
\* repeated, reordered or cut differently never give a mixture, nor do the
\* rests of an earlier datagram of the same identification, which every call
\* clears away before it looks for the entry.
DeliveredAsSent ==
    returned # NoPayload =>
        \E d \in returned.datagrams : returned.datagrams = {d} /\ returned.size = d.size

\* Every byte of a datagram that arrived is put together: "Handles
\* out-of-order and overlapping fragments".
Covered(entry, datagram) ==
    \A i \in 0..(datagram.size - 1) :
        \E o \in DOMAIN entry.fragments : o <= i /\ i < o + entry.fragments[o].size

OverlapsHandled == \A k \in DOMAIN cache : ~Covered(cache[k], sending[k])
==============================================================================
