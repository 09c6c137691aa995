---------------------------- MODULE PacketStreams ----------------------------
(***************************************************************************)
(* What the decoders remember from one packet to the next: incomplete IPv4 *)
(* datagrams, SOME/IP-TP messages and TCP connections.  The three share no *)
(* state; a behaviour is about the traffic of one of them.                 *)
(***************************************************************************)
EXTENDS FragmentReassembler, TpReassembler, TcpTracker

VARIABLES traffic   \* whose packets arrive

streamsVars == <<traffic, cache, quiet, sending, returned, messages, arrived, received,
          connections, shaken, segments>>

StreamsInit ==
    /\ traffic \in {"fragments", "segments", "connections"}
    /\ FragmentInit /\ TpInit /\ TcpInit

StreamsNext ==
    /\ UNCHANGED traffic
    /\ \/ traffic = "fragments" /\ FragmentNext /\ UNCHANGED <<tpVars, tcpVars>>
       \/ traffic = "segments" /\ TpNext /\ UNCHANGED <<fragmentVars, tcpVars>>
       \/ traffic = "connections" /\ TcpNext /\ UNCHANGED <<fragmentVars, tpVars>>

StreamsSpec == StreamsInit /\ [][StreamsNext]_streamsVars

\* Time passes, and the caller of the tracker polls cleanup_expired, as its
\* documentation asks; packets need not come.
StreamsFairSpec ==
    /\ StreamsSpec
    /\ WF_streamsVars(traffic = "connections" /\ TcpTick /\ UNCHANGED <<traffic, fragmentVars, tpVars>>)
    /\ WF_streamsVars(traffic = "connections" /\ TcpCleanupExpired
                 /\ UNCHANGED <<traffic, fragmentVars, tpVars>>)
==============================================================================
