----------------------------- MODULE DtcManager -----------------------------
(***************************************************************************)
(* DTCManager (protocols/diagnostic/dtc_manager): the trouble codes read   *)
(* from several ECUs, with a limit per ECU and one over all of them, the   *)
(* history of cleared codes, the events a listener is told, and the mutex  *)
(* the public methods take.                                                *)
(*                                                                         *)
(* A method runs under the mutex from its first line to its last, so it is *)
(* one action; a method that calls another locking method never gets       *)
(* further and leaves the mutex held.  add_dtc takes no lock: direct calls *)
(* are modelled as if no other call were in progress.                      *)
(***************************************************************************)
EXTENDS Integers, Sequences, FiniteSets, SequencesExt

CONSTANTS
  LogicalAddress,       \* addresses of the ECUs
  Dtc,                  \* trouble codes, 0 being the default-constructed one
  Status,               \* status masks, as the sets of their flags
  DtcLists,             \* the dtc_list of a response: <<dtc, status>> pairs
  max_dtcs_per_ecu,
  max_total_dtcs,
  max_cleared_history,
  keep_cleared_history,
  MaxCalls              \* bound on the number of calls

ASSUME DtcManagerAssumption ==
  /\ LogicalAddress \subseteq Nat /\ IsFiniteSet(LogicalAddress)
  /\ Dtc \subseteq Nat \ {0} /\ IsFiniteSet(Dtc)
  /\ {} \in Status /\ DtcLists \subseteq Seq(Dtc \X Status)
  /\ max_dtcs_per_ecu \in Nat \ {0} /\ max_total_dtcs \in Nat
  /\ max_cleared_history \in Nat /\ keep_cleared_history \in BOOLEAN
  /\ MaxCalls \in Nat

VARIABLES
  ecu_data,   \* what is known of each ECU heard of: stored codes and history
  clock,      \* steady_clock as get_or_create_dtc reads it
  view,       \* the codes a listener believes stored, from the events alone
  evicted,    \* auxiliary: <<ecu, first_seen>> of the records evicted
  mutex,      \* "free", or "held" by a call that waits for it itself
  calls       \* number of calls so far

dtcVars == <<ecu_data, clock, view, evicted, mutex, calls>>

NoCodes == [d \in {} |-> {}]

DTCRecord == [dtc : Dtc \union {0}, ecu : LogicalAddress \union {0}, first_seen : Nat,
              status : Status, occurrence_count : Nat, snapshots : Nat,
              extended : BOOLEAN]

\* The record a map access creates for a key it does not hold.
DefaultRecord == [dtc |-> 0, ecu |-> 0, first_seen |-> 0, status |-> {},
                  occurrence_count |-> 1, snapshots |-> 0, extended |-> FALSE]

ECUData == [dtcs |-> NoCodes, cleared_history |-> <<>>]

\* ecu_data_[ecu]: an ECU is entered into the map when it is first named.
WithEcu(data, e) ==
  IF e \in DOMAIN data THEN data
  ELSE [f \in DOMAIN data \union {e} |-> IF f = e THEN ECUData ELSE data[f]]

Stored(data) == UNION {{<<e, d>> : d \in DOMAIN data[e].dtcs} : e \in DOMAIN data}
Size(data, e) == Cardinality(DOMAIN data[e].dtcs)
Total(data) == Cardinality(Stored(data))

Replaced(data, e, dtcs) ==
  [f \in DOMAIN data |->
     [dtcs            |-> IF f = e THEN dtcs ELSE data[f].dtcs,
      cleared_history |-> data[f].cleared_history]]

Without(data, e, D) ==
  Replaced(data, e, [d \in DOMAIN data[e].dtcs \ D |-> data[e].dtcs[d]])

\* The record under a key that is not in the map.
With(data, e, d, r) ==
  Replaced(data, e, [c \in DOMAIN data[e].dtcs \union {d} |->
                       IF c = d THEN r ELSE data[e].dtcs[c]])
-----------------------------------------------------------------------------
(* enforce_limits.  The maps are unordered: among equals the code may take *)
(* any, so the operators give the set of possible outcomes.                *)

OldestCodes(dtcs) ==
  {d \in DOMAIN dtcs : \A c \in DOMAIN dtcs : dtcs[d].first_seen <= dtcs[c].first_seen}

\* Fault variant: the newest code goes, often the one just added.
NewestCodes(dtcs) ==
  {d \in DOMAIN dtcs : \A c \in DOMAIN dtcs : dtcs[d].first_seen >= dtcs[c].first_seen}
EvictNewest(data, e) == {Without(data, e, {d}) : d \in NewestCodes(data[e].dtcs)}

EvictOldest(data, e) == {Without(data, e, {d}) : d \in OldestCodes(data[e].dtcs)}

\* One round of each loop, the state itself once the loop is over.  The second
\* loop takes address 0 for "no ECU found" and gives up.
EcuRound(data, e) ==
  IF Size(data, e) > max_dtcs_per_ecu THEN EvictOldest(data, e) ELSE {data}

Largest(data) ==
  {e \in DOMAIN data : /\ Size(data, e) > 0
                       /\ \A f \in DOMAIN data : Size(data, f) <= Size(data, e)}

TotalRound(data) ==
  IF Total(data) > max_total_dtcs
  THEN UNION {IF e = 0 THEN {data} ELSE EvictOldest(data, e) : e \in Largest(data)}
  ELSE {data}

\* A loop ends after at most as many rounds as there are codes.
EcuLoop(data, e) ==
  LET after[n \in 0..Total(data)] ==
        IF n = 0 THEN {data} ELSE UNION {EcuRound(k, e) : k \in after[n - 1]}
  IN  after[Total(data)]

TotalLoop(data) ==
  LET after[n \in 0..Total(data)] ==
        IF n = 0 THEN {data} ELSE UNION {TotalRound(k) : k \in after[n - 1]}
  IN  after[Total(data)]

\* Fault variant: no limit over all ECUs.
EcuLimitOnly(data, e) == EcuLoop(data, e)

enforce_limits(data, e) == UNION {TotalLoop(k) : k \in EcuLoop(data, e)}
-----------------------------------------------------------------------------
(* Adding codes.  An outcome is what a call makes of the four variables.   *)

Outcome == [data |-> ecu_data, clock |-> clock, view |-> view, evicted |-> evicted]

Become(o) == /\ ecu_data' = o.data /\ clock' = o.clock
             /\ view' = o.view /\ evicted' = o.evicted

\* The records of before that are no longer in after.
Evictions(before, after) ==
  {<<c[1], before[c[1]].dtcs[c[2]].first_seen>> : c \in Stored(before) \ Stored(after)}

\* get_or_create_dtc: the outcomes of looking a code up.  A code that the limits
\* evict at once comes back as a default record under its key.
get_or_create_dtc(o, e, d) ==
  LET data    == WithEcu(o.data, e)
      created == [DefaultRecord EXCEPT !.dtc = d, !.ecu = e, !.first_seen = o.clock + 1]
      added   == With(data, e, d, created)
      Reindexed(kept) ==
        IF d \in DOMAIN kept[e].dtcs THEN kept ELSE With(kept, e, d, DefaultRecord)
  IN  IF d \in DOMAIN data[e].dtcs
      THEN {[o EXCEPT !.data = data]}
      ELSE {[o EXCEPT !.data = Reindexed(kept), !.clock = @ + 1,
                      !.evicted = @ \union Evictions(data, kept)]
              : kept \in enforce_limits(added, e)}

IsNew(o, e, d) == d \notin DOMAIN WithEcu(o.data, e)[e].dtcs

\* status_changed looks at three of the flags.
Compared(status) == status \intersect {"test_failed", "confirmed_dtc", "pending_dtc"}

\* What a listener that is given an event with record r believes afterwards.
Told(o, e, r) == [o EXCEPT !.view = @ \union {<<e, r.dtc>>}]

\* add_dtc with occurrences tracked, as by default.
add_dtc(o, e, d, status) ==
  LET Updated(n) ==
        LET old == n.data[e].dtcs[d]
            new == [old EXCEPT !.status = status,
                               !.occurrence_count = IF IsNew(o, e, d) THEN @ ELSE @ + 1]
            put == [n EXCEPT !.data[e].dtcs[d] = new]
        IN  IF IsNew(o, e, d) \/ Compared(old.status) # Compared(status)
            THEN Told(put, e, new) ELSE put
  IN  {Updated(n) : n \in get_or_create_dtc(o, e, d)}

\* Fault variant: a snapshot for an unknown code makes a record nobody is told of.
SnapshotUntold(o, e, d) ==
  {[n EXCEPT !.data[e].dtcs[d].snapshots = @ + 1] : n \in get_or_create_dtc(o, e, d)}

add_snapshot(o, e, d) ==
  {LET new == [n.data[e].dtcs[d] EXCEPT !.snapshots = @ + 1]
   IN  Told([n EXCEPT !.data[e].dtcs[d] = new], e, new) : n \in get_or_create_dtc(o, e, d)}

add_extended_data(o, e, d) ==
  {LET new == [n.data[e].dtcs[d] EXCEPT !.extended = TRUE]
   IN  Told([n EXCEPT !.data[e].dtcs[d] = new], e, new) : n \in get_or_create_dtc(o, e, d)}
-----------------------------------------------------------------------------
(* Clearing codes.                                                         *)

LastOf(s, n) == IF Len(s) <= n THEN s ELSE SubSeq(s, Len(s) - n + 1, Len(s))

\* Clearing all codes moves them to the history in the map's order; the history
\* is cut to its limit after each.  With no code stored it is left as it is.
ClearedAll(data, e) ==
  LET dtcs    == data[e].dtcs
      old     == data[e].cleared_history
      orders  == SetToSeqs({dtcs[d] : d \in DOMAIN dtcs})
  IN  {[data EXCEPT ![e].dtcs = NoCodes,
                    ![e].cleared_history =
                       IF keep_cleared_history /\ DOMAIN dtcs # {}
                       THEN LastOf(old \o order, max_cleared_history) ELSE old]
         : order \in orders}

\* Clearing one code moves it to the history, which is not cut.
ClearedOne(data, e, d) ==
  [Without(data, e, {d}) EXCEPT ![e].cleared_history =
     IF keep_cleared_history THEN Append(@, data[e].dtcs[d]) ELSE @]

\* A listener told AllDTCsCleared for an ECU drops all of its codes.
ToldCleared(E) == {c \in view : c[1] \notin E}

-----------------------------------------------------------------------------
DtcInit ==
  /\ ecu_data = [e \in {} |-> ECUData]
  /\ clock = 0
  /\ view = {}
  /\ evicted = {}
  /\ mutex = "free"
  /\ calls = 0

\* A call of a public method, and one that takes the mutex.
Call == calls < MaxCalls /\ calls' = calls + 1
Locked == Call /\ mutex = "free"

\* The outcomes of adding each listed code in turn.
ListAdded(e, list) ==
  LET after[n \in 0..Len(list)] ==
        IF n = 0 THEN {[Outcome EXCEPT !.data = WithEcu(ecu_data, e)]}
        ELSE UNION {add_dtc(o, e, list[n][1], list[n][2]) : o \in after[n - 1]}
  IN  after[Len(list)]

\* A read response without record data, or with one too short or of another
\* sub-function: the listed codes are added.
ReadList(e, list) ==
  /\ Locked
  /\ \E o \in ListAdded(e, list) : Become(o)
  /\ UNCHANGED mutex

\* A read response with snapshot or extended data calls add_snapshot or
\* add_extended_data, which lock the mutex this call holds.
ReadRecord(e, list) ==
  /\ Locked
  /\ \E o \in ListAdded(e, list) : Become(o)
  /\ mutex' = "held"

process_read_dtc_response(e, list) == ReadList(e, list) \/ ReadRecord(e, list)

AddDtc(e, d, status) ==
  /\ Call
  /\ \E o \in add_dtc(Outcome, e, d, status) : Become(o)
  /\ UNCHANGED mutex

AddSnapshot(e, d) ==
  /\ Locked
  /\ \E o \in add_snapshot(Outcome, e, d) : Become(o)
  /\ UNCHANGED mutex

AddExtendedData(e, d) ==
  /\ Locked
  /\ \E o \in add_extended_data(Outcome, e, d) : Become(o)
  /\ UNCHANGED mutex

\* A positive response to a clear request for all codes.
ClearAllResponse(e) ==
  /\ Locked
  /\ ecu_data' \in ClearedAll(WithEcu(ecu_data, e), e)
  /\ view' = IF e \in DOMAIN ecu_data /\ DOMAIN ecu_data[e].dtcs # {}
             THEN ToldCleared({e}) ELSE view
  /\ UNCHANGED <<clock, evicted, mutex>>

\* ... and for one code.
ClearOneResponse(e, d) ==
  /\ Locked
  /\ LET data == WithEcu(ecu_data, e)
     IN  IF d \in DOMAIN data[e].dtcs
         THEN /\ ecu_data' = ClearedOne(data, e, d)
              /\ view' = view \ {<<e, data[e].dtcs[d].dtc>>}
         ELSE /\ ecu_data' = data
              /\ UNCHANGED view
  /\ UNCHANGED <<clock, evicted, mutex>>

process_clear_dtc_response(e) ==
  \/ ClearAllResponse(e)
  \/ \E d \in Dtc : ClearOneResponse(e, d)

clear_ecu(e) ==
  /\ Locked
  /\ e \in DOMAIN ecu_data
  /\ ecu_data' = [ecu_data EXCEPT ![e].dtcs = NoCodes]
  /\ view' = ToldCleared({e})
  /\ UNCHANGED <<clock, evicted, mutex>>

clear_all ==
  /\ Locked
  /\ ecu_data' = [e \in DOMAIN ecu_data |-> [ecu_data[e] EXCEPT !.dtcs = NoCodes]]
  /\ view' = ToldCleared(DOMAIN ecu_data)
  /\ UNCHANGED <<clock, evicted, mutex>>

\* reset tells nobody.
reset_dtcs ==
  /\ Locked
  /\ ecu_data' = [e \in {} |-> ECUData]
  /\ UNCHANGED <<clock, view, evicted, mutex>>

\* get_all_statistics calls get_ecu_statistics, which locks again, for each ECU.
get_all_statistics ==
  /\ Locked
  /\ DOMAIN ecu_data # {}
  /\ mutex' = "held"
  /\ UNCHANGED <<ecu_data, clock, view, evicted>>

DtcNext ==
  \/ \E e \in LogicalAddress, list \in DtcLists : process_read_dtc_response(e, list)
  \/ \E e \in LogicalAddress, d \in Dtc, status \in Status : AddDtc(e, d, status)
  \/ \E e \in LogicalAddress, d \in Dtc : AddSnapshot(e, d) \/ AddExtendedData(e, d)
  \/ \E e \in LogicalAddress : process_clear_dtc_response(e) \/ clear_ecu(e)
  \/ clear_all
  \/ reset_dtcs
  \/ get_all_statistics

DtcSpec == DtcInit /\ [][DtcNext]_dtcVars
-----------------------------------------------------------------------------
(* The queries.                                                            *)

\* matches_filter, for the filters by ECU and by one status flag.
matches_filter(r, ecu, flag) ==
  /\ ecu = 0 \/ ecu = r.ecu
  /\ flag = "any" \/ flag \in r.status

get_dtcs(ecu, flag) ==
  {c \in Stored(ecu_data) : /\ ecu = 0 \/ ecu = c[1]
                            /\ matches_filter(ecu_data[c[1]].dtcs[c[2]], ecu, flag)}

get_ecu_statistics(ecu) ==
  IF ecu \in DOMAIN ecu_data
  THEN LET dtcs == ecu_data[ecu].dtcs
       IN  [total_dtcs  |-> Cardinality(DOMAIN dtcs),
            active_dtcs |-> Cardinality({d \in DOMAIN dtcs : "test_failed" \in dtcs[d].status})]
  ELSE [total_dtcs |-> 0, active_dtcs |-> 0]
-----------------------------------------------------------------------------
(* Properties.                                                             *)

\* Types: the maps hold records of known ECUs and codes, or default ones, and
\* every record carries a time the clock has reached.
DtcTypeOK ==
  /\ DOMAIN ecu_data \subseteq LogicalAddress
  /\ \A e \in DOMAIN ecu_data :
       /\ DOMAIN ecu_data[e].dtcs \subseteq Dtc
       /\ \A d \in DOMAIN ecu_data[e].dtcs :
            /\ ecu_data[e].dtcs[d] \in DTCRecord
            /\ ecu_data[e].dtcs[d].first_seen <= clock
       /\ ecu_data[e].cleared_history \in Seq(DTCRecord)
  /\ clock \in Nat
  /\ view \subseteq LogicalAddress \X (Dtc \union {0})
  /\ evicted \subseteq LogicalAddress \X Nat
  /\ mutex \in {"free", "held"}
  /\ calls \in 0..MaxCalls

\* The limit over all ECUs leaves room for a code of each.
RoomForEach == max_total_dtcs >= Cardinality(LogicalAddress)

\* enforce_limits keeps both limits, however additions, snapshots for unknown
\* codes and clears alternate.  The limit over all ECUs needs room for a code
\* of each ECU and no ECU at address 0.
LimitsKept ==
  /\ \A e \in DOMAIN ecu_data : Size(ecu_data, e) <= max_dtcs_per_ecu
  /\ 0 \notin LogicalAddress /\ RoomForEach => Total(ecu_data) <= max_total_dtcs

\* Eviction takes the oldest code of an ECU: what is stored of an ECU is newer
\* than all that was evicted from it.
EvictedOldestFirst ==
  \A x \in evicted :
    x[1] \in DOMAIN ecu_data =>
      \A d \in DOMAIN ecu_data[x[1]].dtcs : ecu_data[x[1]].dtcs[d].first_seen > x[2]

\* A listener that only follows the events knows every stored code: nothing is
\* stored that it was not told of, or was told is cleared (emit_event).
ListenerKnowsStored == Stored(ecu_data) \subseteq view

\* The queries agree with each other: get_dtcs for an ECU returns as many codes,
\* and as many active ones, as get_ecu_statistics counts, so the record under a
\* key is always the one of that ECU and code.
QueriesAgree ==
  \A e \in LogicalAddress \ {0} :
    /\ Cardinality(get_dtcs(e, "any")) = get_ecu_statistics(e).total_dtcs
    /\ Cardinality(get_dtcs(e, "test_failed")) = get_ecu_statistics(e).active_dtcs

\* No call is left waiting for the mutex it holds.
MutexFreeBetweenCalls == mutex = "free"
=============================================================================
