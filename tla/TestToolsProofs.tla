-------------------------- MODULE TestToolsProofs --------------------------
(***************************************************************************)
(* Proofs about the tools a test is made of.                               *)
(*                                                                         *)
(* ScenarioRunner and the batch functions, for batches, scenarios and      *)
(* captures of any size: a verdict is what its expectations say, each file *)
(* of a batch is counted once, and the four reports and the exit code of   *)
(* the tool tell of a failure exactly when there was one.                  *)
(*                                                                         *)
(* Recordings, for packets of any number, kind and size: what is read from *)
(* a PCAP file is what was given to its writer (FileOK), the blocks of a   *)
(* PCAPNG file have the lengths they declare and come after those of their *)
(* interfaces (WriterOK), and a call succeeds only for a reason (CallOK).  *)
(***************************************************************************)
EXTENDS ScenarioRunner, Recordings, FiniteSetTheorems, SequenceTheorems,
        WellFoundedInduction, TLAPS

Phases == {"parse", "run", "steps", "expecting", "verdict", "done"}
Busy == {"steps", "expecting", "verdict"}
Modes == {"files", "directory", "tool", "library"}

Batch == [passed : Nat, failed : Nat, skipped : Nat, tap : Nat, junit : Nat, json : Nat, text : Nat,
          cut : Nat]

IsList(s) == \E S : s \in Seq(S)

Failures == {"none", "stopped", "exception", "silent"}

Types ==
    /\ mode \in Modes /\ phase \in Phases /\ stopped \in BOOLEAN
    /\ given \in Nat /\ files \in Nat /\ unread \in Nat
    /\ failure \in Failures
    /\ IsList(results) /\ IsList(queue)
    /\ batch \in Batch

\* Each file is still to be read, is counted, or is the one that runs.
EachCounted ==
    mode \in {"files", "directory"} =>
        /\ phase # "run"
        /\ batch.passed + batch.failed + batch.skipped + files + (IF phase \in Busy THEN 1 ELSE 0) = given
        /\ unread <= batch.failed
        /\ phase = "done" => files = 0

\* The same where all files are parsed before one runs: a file is still to be
\* read, did not parse, waits in the queue, is counted, or is the one that runs.
QueueCounted ==
    mode \in {"tool", "library"} =>
        /\ phase # "parse" => files = 0
        /\ ~options.tags /\ exit # "thrown" =>
             batch.passed + batch.failed + unread + Len(queue) + files
                + (IF phase \in Busy THEN 1 ELSE 0) = given

Failing(expected) == {i \in DOMAIN expected : ~expected[i].passed}

\* The reports show a failure from the first one counted on; TAP and JUnit
\* leave out the scenarios that were cut short.
Shown(b) ==
    /\ b.json > 0 <=> b.failed > 0
    /\ b.text > 0 <=> b.failed > 0
    /\ b.tap > 0 <=> b.failed > b.cut
    /\ b.junit > 0 <=> b.failed > b.cut
    /\ b.cut <= b.failed

\* Only a library's caller stops the runner, or throws from a callback.
ReportsAgree ==
    /\ Shown(batch)
    /\ mode # "library" => ~stopped /\ failure = "none" /\ batch.cut = 0

\* wadjet-run has counted nothing before it has parsed all of the files.
ExitAgrees ==
    mode = "tool" =>
        /\ exit # "thrown"
        /\ phase = "parse" => batch.failed = 0
        /\ phase = "done" /\ batch.failed > 0 => exit = "failure"

\* The ways to the end of run: all steps were taken, an error ended them, or
\* an expectation failed and the first failure ends a scenario.
WayOut == phase = "verdict" => at = scenario.steps \/ failure # "none" \/ Failing(results) # {}

IInv == Types /\ EachCounted /\ QueueCounted /\ ReportsAgree /\ ExitAgrees /\ WayOut /\ VerdictJustified
-----------------------------------------------------------------------------
(* Counting a result.                                                      *)

LEMMA AppendList ==
    ASSUME NEW s, IsList(s), NEW x
    PROVE  /\ IsList(Append(s, x))
           /\ \E i \in DOMAIN Append(s, x) : Append(s, x)[i] = x
    <1>1. PICK S : s \in Seq(S)
        BY DEF IsList
    <1> DEFINE T == S \union {x}
    <1>2. s \in Seq(T)
        <2>1. s \in [1..Len(s) -> T] /\ Len(s) \in Nat
            BY <1>1
        <2> QED BY <2>1
    <1>3. x \in T
        OBVIOUS
    <1> HIDE DEF T
    <1>4. /\ Append(s, x) \in Seq(T) /\ Len(Append(s, x)) = Len(s) + 1 /\ Append(s, x)[Len(s) + 1] = x
          /\ Len(s) \in Nat
        BY <1>2, <1>3, AppendProperties
    <1>5. Len(s) + 1 \in DOMAIN Append(s, x)
        BY <1>4
    <1> QED BY <1>4, <1>5 DEF IsList

LEMMA FailingCount ==
    ASSUME NEW expected, IsList(expected)
    PROVE  /\ Cardinality(Failing(expected)) \in Nat
           /\ Cardinality(Failing(expected)) > 0 <=> Failing(expected) # {}
    <1>1. PICK S : expected \in Seq(S)
        BY DEF IsList
    <1>2. DOMAIN expected = 1..Len(expected) /\ Len(expected) \in Nat
        BY <1>1
    <1>3. IsFiniteSet(1..Len(expected))
        BY <1>2, FS_Interval
    <1>4. Failing(expected) \subseteq 1..Len(expected)
        BY <1>2 DEF Failing
    <1>5. IsFiniteSet(Failing(expected))
        BY <1>3, <1>4, FS_Subset
    <1>6. Cardinality(Failing(expected)) \in Nat
        BY <1>5, FS_CardinalityType
    <1>7. Cardinality(Failing(expected)) = 0 <=> Failing(expected) = {}
        BY <1>5, FS_EmptySet
    <1> QED BY <1>6, <1>7

\* A failed scenario that got to expectations, all of which passed.
CutShort(passed, expected) == ~passed /\ expected # <<>> /\ Failing(expected) = {}

\* What the four reports show of one scenario.
LEMMA ReportFacts ==
    ASSUME NEW passed \in BOOLEAN, NEW expected, IsList(expected)
    PROVE  /\ NotOk(passed, expected) \in Nat /\ JUnitFailures(passed, expected) \in Nat
           /\ JsonFailures(passed, expected) \in Nat /\ TextFailures(passed, expected) \in Nat
           /\ (passed => Failing(expected) = {}) =>
                /\ NotOk(passed, expected) > 0 <=> ~passed /\ ~CutShort(passed, expected)
                /\ JUnitFailures(passed, expected) > 0 <=> ~passed /\ ~CutShort(passed, expected)
                /\ JsonFailures(passed, expected) > 0 <=> ~passed
                /\ TextFailures(passed, expected) > 0 <=> ~passed
    <1> DEFINE n == Cardinality(Failing(expected))
    <1>1. n \in Nat /\ (n > 0 <=> Failing(expected) # {})
        BY FailingCount
    <1>2. expected = <<>> => Failing(expected) = {}
        BY DEF Failing
    <1>3. /\ NotOk(passed, expected) = IF expected = <<>> THEN IF passed THEN 0 ELSE 1 ELSE n
          /\ JsonFailures(passed, expected) = (IF passed THEN 0 ELSE 1) + n
        BY DEF NotOk, JsonFailures, Among, Failing
    <1>4. JUnitFailures(passed, expected) = n + (IF expected = <<>> /\ ~passed THEN 1 ELSE 0)
        BY DEF JUnitFailures, Failing
    <1>5. TextFailures(passed, expected) = JsonFailures(passed, expected)
        BY DEF TextFailures
    <1> HIDE DEF n
    <1> QED BY <1>1, <1>2, <1>3, <1>4, <1>5 DEF CutShort

\* A result is counted once, and shown as a failure if it is one.
CountedRight(b, passed, expected) ==
    LET c == Counted(b, passed, expected)
    IN  /\ c \in Batch /\ c.skipped = b.skipped
        /\ c.passed = b.passed + (IF passed THEN 1 ELSE 0)
        /\ c.failed = b.failed + (IF passed THEN 0 ELSE 1)
        /\ c.cut = b.cut + (IF CutShort(passed, expected) THEN 1 ELSE 0)
        /\ (passed => Failing(expected) = {}) /\ Shown(b) => Shown(c)

LEMMA CountedFacts ==
    ASSUME NEW b \in Batch, NEW passed \in BOOLEAN, NEW expected, IsList(expected)
    PROVE  CountedRight(b, passed, expected)
    <1> DEFINE c == Counted(b, passed, expected)
               tap == NotOk(passed, expected)
               junit == JUnitFailures(passed, expected)
               json == JsonFailures(passed, expected)
               text == TextFailures(passed, expected)
               cut == CutShort(passed, expected)
    <1>1. tap \in Nat /\ junit \in Nat /\ json \in Nat /\ text \in Nat
        BY ReportFacts
    <1>2. (passed => Failing(expected) = {}) =>
            /\ (tap > 0 <=> ~passed /\ ~cut) /\ (junit > 0 <=> ~passed /\ ~cut)
            /\ (json > 0 <=> ~passed) /\ (text > 0 <=> ~passed)
        BY ReportFacts
    <1>3. c = [b EXCEPT !.passed = IF passed THEN @ + 1 ELSE @, !.failed = IF passed THEN @ ELSE @ + 1,
                        !.tap = @ + tap, !.junit = @ + junit, !.json = @ + json, !.text = @ + text,
                        !.cut = IF cut THEN @ + 1 ELSE @]
        <2>1. (/\ ~passed /\ expected # <<>>
               /\ \A i \in DOMAIN expected : expected[i].passed) <=> cut
            BY DEF CutShort, Failing
        <2> HIDE DEF cut
        <2> QED BY <2>1 DEF Counted
    <1>4. cut \in BOOLEAN /\ (cut => ~passed)
        BY DEF CutShort
    <1> HIDE DEF c, tap, junit, json, text, cut
    <1>5. /\ b.passed \in Nat /\ b.failed \in Nat /\ b.skipped \in Nat /\ b.tap \in Nat /\ b.junit \in Nat
          /\ b.json \in Nat /\ b.text \in Nat /\ b.cut \in Nat
        BY DEF Batch
    <1>6. /\ c.passed = b.passed + (IF passed THEN 1 ELSE 0) /\ c.failed = b.failed + (IF passed THEN 0 ELSE 1)
          /\ c.skipped = b.skipped /\ c.tap = b.tap + tap /\ c.junit = b.junit + junit
          /\ c.json = b.json + json /\ c.text = b.text + text /\ c.cut = b.cut + (IF cut THEN 1 ELSE 0)
        BY <1>3, <1>5 DEF Batch
    <1>7. c \in Batch
        <2>1. c = [passed |-> c.passed, failed |-> c.failed, skipped |-> c.skipped, tap |-> c.tap,
                   junit |-> c.junit, json |-> c.json, text |-> c.text, cut |-> c.cut]
            BY <1>3 DEF Batch
        <2>2. /\ c.passed \in Nat /\ c.failed \in Nat /\ c.skipped \in Nat /\ c.tap \in Nat
              /\ c.junit \in Nat /\ c.json \in Nat /\ c.text \in Nat /\ c.cut \in Nat
            BY <1>1, <1>5, <1>6
        <2> QED BY <2>1, <2>2 DEF Batch
    <1>8. ASSUME passed => Failing(expected) = {}, Shown(b) PROVE Shown(c)
        <2>1. c.failed > 0 <=> b.failed > 0 \/ ~passed
            BY <1>5, <1>6
        <2>2. c.failed > c.cut <=> b.failed > b.cut \/ (~passed /\ ~cut)
            BY <1>4, <1>5, <1>6, <1>8 DEF Shown
        <2>3. c.cut <= c.failed
            BY <1>4, <1>5, <1>6, <1>8 DEF Shown
        <2>4. (c.tap > 0 <=> c.failed > c.cut) /\ (c.junit > 0 <=> c.failed > c.cut)
            BY <1>1, <1>2, <1>5, <1>6, <1>8, <2>2 DEF Shown
        <2>5. (c.json > 0 <=> c.failed > 0) /\ (c.text > 0 <=> c.failed > 0)
            BY <1>1, <1>2, <1>5, <1>6, <1>8, <2>1 DEF Shown
        <2> QED BY <2>3, <2>4, <2>5 DEF Shown
    <1> QED BY <1>6, <1>7, <1>8 DEF c, cut, CountedRight

LEMMA EmptyResult ==
    /\ IsList(<<>>) /\ Failing(<<>>) = {}
    /\ \A passed : ~CutShort(passed, <<>>)
    <1>1. <<>> \in Seq({})
        OBVIOUS
    <1> QED BY <1>1 DEF IsList, Failing, CutShort

\* The queue of scenarios grows and shrinks by one.
LEMMA QueueFacts ==
    ASSUME NEW s, IsList(s), NEW x
    PROVE  /\ Len(s) \in Nat
           /\ IsList(Append(s, x)) /\ Len(Append(s, x)) = Len(s) + 1
           /\ s # <<>> => IsList(Tail(s)) /\ Len(Tail(s)) = Len(s) - 1
    <1>1. PICK S : s \in Seq(S)
        BY DEF IsList
    <1>2. s \in Seq(S \union {x})
        <2>1. s \in [1..Len(s) -> S \union {x}] /\ Len(s) \in Nat
            BY <1>1
        <2> QED BY <2>1
    <1>3. Len(Append(s, x)) = Len(s) + 1
        BY <1>2, AppendProperties
    <1>4. s # <<>> => Tail(s) \in Seq(S) /\ Len(Tail(s)) = Len(s) - 1
        BY <1>1
    <1>5. IsList(Append(s, x))
        BY AppendList
    <1>6. Len(s) \in Nat
        BY <1>1
    <1>7. s # <<>> => IsList(Tail(s))
        BY <1>4 DEF IsList
    <1> QED BY <1>3, <1>4, <1>5, <1>6, <1>7
-----------------------------------------------------------------------------
(* The steps of a scenario leave the batch alone.                          *)

LEMMA EmptyBatch == NoBatch \in Batch /\ Shown(NoBatch)
    BY DEF NoBatch, Batch, Shown

LEMMA InitIInv == Init => IInv
    <1> SUFFICES ASSUME Init PROVE IInv
        OBVIOUS
    <1>1. /\ mode \in Modes /\ phase = "parse" /\ stopped = FALSE /\ unread = 0 /\ failure = "none"
          /\ results = <<>> /\ queue = <<>> /\ exit = "none"
        BY DEF Init, Modes
    <1>2. given \in Nat /\ files = given
        BY RunnerAssumption DEF Init
    <1>3. batch = NoBatch
        BY DEF Init
    <1>4. batch \in Batch
        BY <1>3, EmptyBatch
    <1>5. Types
        BY <1>1, <1>2, <1>4, EmptyResult DEF Types, Phases, Failures
    <1>6. EachCounted /\ QueueCounted
        BY <1>1, <1>2, <1>3 DEF EachCounted, QueueCounted, Busy, NoBatch
    <1>7. ReportsAgree /\ ExitAgrees
        BY <1>1, <1>3, EmptyBatch DEF ReportsAgree, ExitAgrees, NoBatch
    <1>8. WayOut /\ VerdictJustified
        BY <1>1 DEF Init, WayOut, VerdictJustified, NoVerdict
    <1> QED BY <1>5, <1>6, <1>7, <1>8 DEF IInv

\* A step of the scenario that runs: the runner stays busy with it.
LEMMA BusyStep ==
    ASSUME IInv, UNCHANGED batchVars, phase \in Busy, phase' \in Busy,
           stopped' \in BOOLEAN, failure' \in Failures, IsList(results'),
           mode # "library" => ~stopped' /\ failure' = "none",
           phase' = "verdict" => at' = scenario.steps \/ failure' # "none" \/ Failing(results') # {}
    PROVE  IInv'
    <1>1. UNCHANGED <<mode, options, given, files, queue, unread, scenario, verdict, batch, exit>>
        BY DEF batchVars, fixedVars
    <1>2. phase' \in Phases
        BY DEF Busy, Phases
    <1>3. Types'
        BY <1>1, <1>2 DEF IInv, Types
    <1>4. EachCounted' /\ QueueCounted'
        BY <1>1 DEF IInv, EachCounted, QueueCounted, Busy
    <1>5. ReportsAgree' /\ ExitAgrees'
        BY <1>1 DEF IInv, ReportsAgree, ExitAgrees, Busy
    <1>6. WayOut' /\ VerdictJustified'
        BY <1>1 DEF IInv, WayOut, VerdictJustified
    <1> QED BY <1>3, <1>4, <1>5, <1>6 DEF IInv

\* An expectation is concluded; a failed one may end the scenario.
LEMMA ConcludeFacts ==
    ASSUME IInv, NEW doc, NEW step, NEW matches, NEW meeting, Conclude(doc, step, matches, meeting)
    PROVE  /\ IsList(results') /\ phase' \in Busy
           /\ phase' = "verdict" => Failing(results') # {}
    <1> DEFINE passed == Evaluate(step.count, matches)
               new == [passed |-> passed, required |-> step.required, honoured |-> Evaluate(step.count, meeting)]
    <1>1. results' = Append(results, new)
        BY DEF Conclude
    <1>2. phase' = IF options.stopFirst /\ ~passed THEN "verdict" ELSE "steps"
        BY DEF Conclude
    <1>3. new.passed = passed
        OBVIOUS
    <1> HIDE DEF new, passed
    <1>4. IsList(results') /\ \E i \in DOMAIN results' : results'[i] = new
        BY <1>1, AppendList DEF IInv, Types
    <1>5. phase' = "verdict" => Failing(results') # {}
        BY <1>2, <1>3, <1>4 DEF Failing
    <1> QED BY <1>2, <1>4, <1>5 DEF Busy

LEMMA RunFacts ==
    ASSUME IInv
    PROVE  /\ stopped \in BOOLEAN /\ failure \in Failures /\ IsList(results)
           /\ mode # "library" => ~stopped /\ failure = "none"
    BY DEF IInv, Types, ReportsAgree

LEMMA ExpectationStep ==
    ASSUME IInv, ExpectOffline \/ ExpectLive \/ PacketComes \/ Deadline
    PROVE  IInv'
    <1>1. UNCHANGED <<batchVars, failure, stopped>> /\ phase \in Busy
        BY DEF ExpectOffline, ExpectLive, PacketComes, Deadline, StepAhead, Busy
    <1>2. \/ \E doc, step, matches, meeting : Conclude(doc, step, matches, meeting)
          \/ phase' = "expecting" /\ results' = results
        <2>1. CASE ExpectOffline
            BY <2>1 DEF ExpectOffline
        <2>2. CASE ExpectLive
            BY <2>2 DEF ExpectLive
        <2>3. CASE PacketComes
            BY <2>3 DEF PacketComes
        <2>4. CASE Deadline
            BY <2>4 DEF Deadline
        <2> QED BY <2>1, <2>2, <2>3, <2>4
    <1>3. IsList(results') /\ phase' \in Busy /\ (phase' = "verdict" => Failing(results') # {})
        BY <1>2, ConcludeFacts, RunFacts DEF Busy
    <1> QED BY <1>1, <1>3, RunFacts, BusyStep

LEMMA OtherStep ==
    ASSUME IInv,
           CaptureStep \/ SilentStep \/ LogStep \/ CallbackThrows \/ StoppedByUser \/ StepsDone
    PROVE  IInv'
    <1>1. UNCHANGED <<batchVars, results, stopped>> /\ phase \in Busy /\ phase' \in Busy
        BY DEF CaptureStep, SilentStep, LogStep, CallbackThrows, StoppedByUser, StepsDone, StepAhead,
               Busy
    <1>2. CASE CaptureStep \/ SilentStep \/ LogStep
        <2>1. phase' = "steps" /\ failure' = failure
            BY <1>2 DEF CaptureStep, SilentStep, LogStep, StepAhead
        <2> QED BY <1>1, <2>1, RunFacts, BusyStep
    <1>3. CASE CallbackThrows
        <2>1. failure' \in {"exception", "silent"} /\ mode = "library"
            BY <1>3 DEF CallbackThrows
        <2> QED BY <1>1, <2>1, RunFacts, BusyStep DEF Failures
    <1>4. CASE StoppedByUser
        <2>1. failure' = "stopped" /\ stopped
            BY <1>4 DEF StoppedByUser
        <2> QED BY <1>1, <2>1, RunFacts, BusyStep DEF Failures
    <1>5. CASE StepsDone
        <2>1. failure' = failure /\ at' = scenario.steps
            BY <1>5 DEF StepsDone
        <2> QED BY <1>1, <2>1, RunFacts, BusyStep
    <1> QED BY <1>2, <1>3, <1>4, <1>5

LEMMA StopStep ==
    ASSUME IInv, Stop
    PROVE  IInv'
    <1>1. /\ mode = "library" /\ stopped' = TRUE
          /\ UNCHANGED <<mode, options, given, files, queue, unread, scenario, verdict, batch, exit, phase, at,
                         results, failure>>
        BY DEF Stop, batchVars, fixedVars
    <1>2. Types'
        BY <1>1 DEF IInv, Types
    <1>3. EachCounted' /\ QueueCounted' /\ ReportsAgree' /\ ExitAgrees'
        BY <1>1 DEF IInv, EachCounted, QueueCounted, ReportsAgree, ExitAgrees
    <1>4. WayOut' /\ VerdictJustified'
        BY <1>1 DEF IInv, WayOut, VerdictJustified
    <1> QED BY <1>2, <1>3, <1>4 DEF IInv

\* An exception that run does not catch ends the batch without a result.
LEMMA EscapeStep ==
    ASSUME IInv, CallbackEscapes
    PROVE  IInv'
    <1>1. /\ mode = "library" /\ phase # "parse" /\ phase' = "done" /\ exit' = "thrown"
          /\ batch' = NoBatch /\ verdict' = NoVerdict /\ results' = <<>> /\ failure' = "none"
          /\ UNCHANGED <<mode, options, given, files, queue, unread, stopped>>
        BY DEF CallbackEscapes, StepAhead, fixedVars
    <1>2. Types'
        BY <1>1, EmptyBatch, EmptyResult DEF IInv, Types, Phases, Failures
    <1>3. EachCounted' /\ QueueCounted' /\ ReportsAgree' /\ ExitAgrees'
        BY <1>1, EmptyBatch DEF IInv, EachCounted, QueueCounted, ReportsAgree, ExitAgrees
    <1>4. WayOut' /\ VerdictJustified'
        BY <1>1 DEF WayOut, VerdictJustified, NoVerdict
    <1> QED BY <1>2, <1>3, <1>4 DEF IInv
-----------------------------------------------------------------------------
(* The batch.                                                              *)

LEMMA BatchFields ==
    ASSUME NEW b \in Batch
    PROVE  /\ b.passed \in Nat /\ b.failed \in Nat /\ b.skipped \in Nat /\ b.tap \in Nat /\ b.junit \in Nat
           /\ b.json \in Nat /\ b.text \in Nat /\ b.cut \in Nat
    BY DEF Batch

\* A file that does not parse, and a dry run, have no expectations to show.
LEMMA CountedEmpty ==
    ASSUME NEW b \in Batch
    PROVE  CountedRight(b, TRUE, <<>>) /\ CountedRight(b, FALSE, <<>>)
    <1>1. IsList(<<>>)
        BY EmptyResult
    <1> QED BY <1>1, CountedFacts, Zenon

\* A scenario begins, or a dry run passes it at once.
LEMMA BeginFacts ==
    ASSUME batch \in Batch, NEW format, NEW steps, Begin(format, steps)
    PROVE  /\ batch' \in Batch /\ batch'.failed = batch.failed /\ batch'.skipped = batch.skipped
           /\ batch'.cut = batch.cut
           /\ Shown(batch) => Shown(batch')
           /\ \/ phase' = phase /\ batch'.passed = batch.passed + 1
              \/ phase' = "steps" /\ batch'.passed = batch.passed
    <1>1. CASE options.dry
        <2>1. batch' = Counted(batch, TRUE, <<>>) /\ phase' = phase
            BY <1>1 DEF Begin
        <2>2. CountedRight(batch, TRUE, <<>>)
            BY CountedEmpty
        <2>3. /\ batch' \in Batch /\ batch'.skipped = batch.skipped
              /\ batch'.passed = batch.passed + (IF TRUE THEN 1 ELSE 0)
              /\ batch'.failed = batch.failed + (IF TRUE THEN 0 ELSE 1)
              /\ batch'.cut = batch.cut + (IF CutShort(TRUE, <<>>) THEN 1 ELSE 0)
              /\ (TRUE => Failing(<<>>) = {}) /\ Shown(batch) => Shown(batch')
            BY <2>1, <2>2, Zenon DEF CountedRight
        <2>4. phase' = phase
            BY <2>1
        <2>5. Shown(batch) => Shown(batch')
            BY <2>3, EmptyResult, Zenon
        <2>6. batch' \in Batch /\ batch'.skipped = batch.skipped /\ batch'.passed = batch.passed + 1
            BY <2>3, Zenon
        <2>7. batch'.failed = batch.failed + 0 /\ batch'.cut = batch.cut + 0
            BY <2>3, EmptyResult, Zenon
        <2>8. batch'.failed = batch.failed /\ batch'.cut = batch.cut
            BY <2>7, BatchFields
        <2> QED BY <2>4, <2>5, <2>6, <2>8
    <1>2. CASE ~options.dry
        <2>1. batch' = batch /\ phase' = "steps"
            BY <1>2 DEF Begin
        <2> QED BY <2>1
    <1> QED BY <1>1, <1>2

LEMMA NextFileStep ==
    ASSUME IInv, NextFile
    PROVE  IInv'
    <1>1. /\ phase = "parse" /\ mode \in {"files", "directory"} /\ files > 0 /\ files' = files - 1
          /\ verdict' = NoVerdict /\ UNCHANGED <<mode, given, queue, results, failure, stopped, exit>>
        BY DEF NextFile, fixedVars, stepVars
    <1>2. batch \in Batch /\ Shown(batch) /\ batch.cut = 0 /\ unread \in Nat /\ files \in Nat /\ given \in Nat
        BY <1>1 DEF IInv, Types, ReportsAgree
    <1>3. \/ batch' = Counted(batch, FALSE, <<>>) /\ unread' = unread + 1 /\ phase' = phase
          \/ batch' = [batch EXCEPT !.skipped = @ + 1] /\ unread' = unread /\ phase' = phase
          \/ unread' = unread /\ \E format, steps : Begin(format, steps)
        BY DEF NextFile
    <1>4. /\ batch' \in Batch /\ Shown(batch') /\ batch'.cut = 0 /\ unread' \in Nat /\ phase' \in {"parse", "steps"}
          /\ batch'.passed + batch'.failed + batch'.skipped + (IF phase' = "steps" THEN 1 ELSE 0)
                = batch.passed + batch.failed + batch.skipped + 1
          /\ unread' - unread <= batch'.failed - batch.failed
        <2>1. CASE batch' = Counted(batch, FALSE, <<>>) /\ unread' = unread + 1 /\ phase' = phase
            <3>1. /\ batch' \in Batch /\ batch'.passed = batch.passed /\ batch'.failed = batch.failed + 1
                  /\ batch'.skipped = batch.skipped /\ batch'.cut = 0 /\ Shown(batch')
                <4>1. CountedRight(batch, FALSE, <<>>)
                    BY <1>2, CountedEmpty
                <4>2. /\ batch' \in Batch /\ batch'.skipped = batch.skipped
                      /\ batch'.passed = batch.passed + (IF FALSE THEN 1 ELSE 0)
                      /\ batch'.failed = batch.failed + (IF FALSE THEN 0 ELSE 1)
                      /\ batch'.cut = batch.cut + (IF CutShort(FALSE, <<>>) THEN 1 ELSE 0)
                      /\ (FALSE => Failing(<<>>) = {}) /\ Shown(batch) => Shown(batch')
                    BY <2>1, <4>1, Zenon DEF CountedRight
                <4>3. Shown(batch') /\ batch'.cut = batch.cut + 0
                    BY <1>2, <4>2, EmptyResult, Zenon
                <4>4. /\ batch'.passed = batch.passed + 0 /\ batch'.failed = batch.failed + 1
                      /\ batch' \in Batch /\ batch'.skipped = batch.skipped
                    BY <4>2, Zenon
                <4>5. batch.passed + 0 = batch.passed /\ batch.cut + 0 = 0
                    BY <1>2, BatchFields
                <4> QED BY <4>3, <4>4, <4>5
            <3>2. unread' = unread + 1 /\ phase' = "parse"
                BY <1>1, <2>1
            <3> QED BY <1>2, <3>1, <3>2, BatchFields
        <2>2. CASE batch' = [batch EXCEPT !.skipped = @ + 1] /\ unread' = unread /\ phase' = phase
            <3>1. /\ batch' \in Batch /\ batch'.skipped = batch.skipped + 1 /\ batch'.passed = batch.passed
                  /\ batch'.failed = batch.failed /\ batch'.tap = batch.tap /\ batch'.junit = batch.junit
                  /\ batch'.json = batch.json /\ batch'.text = batch.text /\ batch'.cut = batch.cut
                BY <1>2, <2>2 DEF Batch
            <3>2. Shown(batch')
                BY <1>2, <3>1 DEF Shown
            <3> QED BY <1>1, <1>2, <2>2, <3>1, <3>2, BatchFields
        <2>3. CASE unread' = unread /\ \E format, steps : Begin(format, steps)
            BY <1>1, <1>2, <2>3, BeginFacts, BatchFields
        <2> QED BY <1>3, <2>1, <2>2, <2>3
    <1>5. Types'
        BY <1>1, <1>2, <1>4 DEF IInv, Types, Phases
    <1>6. EachCounted' /\ QueueCounted'
        <2>1. EachCounted'
            BY <1>1, <1>2, <1>4, BatchFields DEF IInv, EachCounted, Busy
        <2>2. QueueCounted'
            BY <1>1 DEF QueueCounted
        <2> QED BY <2>1, <2>2
    <1>7. ReportsAgree' /\ ExitAgrees'
        BY <1>1, <1>4 DEF IInv, ReportsAgree, ExitAgrees
    <1>8. WayOut' /\ VerdictJustified'
        BY <1>1, <1>4 DEF WayOut, VerdictJustified, NoVerdict
    <1> QED BY <1>5, <1>6, <1>7, <1>8 DEF IInv

LEMMA ParseAllStep ==
    ASSUME IInv, ParseAll
    PROVE  IInv'
    <1>1. /\ phase = "parse" /\ mode \in {"tool", "library"} /\ files > 0 /\ files' = files - 1
          /\ UNCHANGED <<mode, options, given, phase, results, failure, stopped, exit, batch, verdict>>
        BY DEF ParseAll, fixedVars, stepVars
    <1>2. \/ unread' = unread + 1 /\ queue' = queue
          \/ unread' = unread /\ \E x : queue' = Append(queue, x)
          \/ unread' = unread /\ queue' = queue /\ options.tags
        BY DEF ParseAll
    <1>3. IsList(queue) /\ unread \in Nat /\ files \in Nat /\ given \in Nat /\ batch \in Batch
        BY DEF IInv, Types
    <1>4. /\ IsList(queue') /\ unread' \in Nat /\ Len(queue) \in Nat
          /\ ~options.tags => unread' + Len(queue') = unread + Len(queue) + 1
        <2>1. Len(queue) \in Nat
            BY <1>3, QueueFacts
        <2>2. CASE unread' = unread /\ \E x : queue' = Append(queue, x)
            <3>1. PICK x : queue' = Append(queue, x)
                BY <2>2
            <3>2. IsList(queue') /\ Len(queue') = Len(queue) + 1
                BY <1>3, <3>1, QueueFacts
            <3> QED BY <1>3, <2>1, <2>2, <3>2
        <2>3. CASE queue' = queue /\ (unread' = unread + 1 \/ (unread' = unread /\ options.tags))
            BY <1>3, <2>1, <2>3
        <2> QED BY <1>2, <2>2, <2>3
    <1>5. Types'
        BY <1>1, <1>3, <1>4 DEF IInv, Types
    <1>6. EachCounted' /\ ReportsAgree' /\ ExitAgrees' /\ WayOut' /\ VerdictJustified'
        BY <1>1 DEF IInv, EachCounted, ReportsAgree, ExitAgrees, WayOut, VerdictJustified
    <1>7. QueueCounted'
        <2>1. ~options.tags /\ exit # "thrown" =>
                batch.passed + batch.failed + unread + Len(queue) + files + 0 = given
            BY <1>1 DEF IInv, QueueCounted, Busy
        <2>2. batch.passed \in Nat /\ batch.failed \in Nat
            BY <1>3, BatchFields
        <2>3. ~options.tags /\ exit # "thrown" =>
                batch.passed + batch.failed + unread' + Len(queue') + files' + 0 = given
            <3> SUFFICES ASSUME ~options.tags, exit # "thrown"
                         PROVE  batch.passed + batch.failed + unread' + Len(queue') + files' + 0 = given
                OBVIOUS
            <3>1. IsList(queue') /\ Len(queue') \in Nat
                BY <1>4, QueueFacts
            <3>2. /\ Len(queue) \in Nat /\ unread' \in Nat
                  /\ unread' + Len(queue') = unread + Len(queue) + 1
                  /\ batch.passed + batch.failed + unread + Len(queue) + files + 0 = given
                BY <1>4, <2>1
            <3>3. /\ files' = files - 1 /\ files \in Nat /\ unread \in Nat /\ given \in Nat
                  /\ files' \in Nat
                BY <1>1, <1>3
            <3> DEFINE counted == batch.passed + batch.failed
                       waiting == Len(queue)
                       waits == Len(queue')
                       bad == unread'
                       left == files'
            <3>4. /\ counted \in Nat /\ waiting \in Nat /\ waits \in Nat /\ bad \in Nat /\ left \in Nat
                  /\ left = files - 1 /\ bad + waits = unread + waiting + 1
                  /\ counted + unread + waiting + files + 0 = given
                BY <2>2, <3>1, <3>2, <3>3
            <3>5. files \in Nat /\ unread \in Nat /\ given \in Nat
                BY <3>3
            <3> HIDE DEF counted, waiting, waits, bad, left
            <3>6. counted + bad + waits + left + 0 = given
                BY <3>4, <3>5
            <3> QED BY <3>6 DEF counted, waits, bad, left
        <2> QED BY <1>1, <2>3 DEF QueueCounted, Busy
    <1> QED BY <1>5, <1>6, <1>7 DEF IInv

LEMMA ParsedAllStep ==
    ASSUME IInv, ParsedAll
    PROVE  IInv'
    <1>1. /\ phase = "parse" /\ mode \in {"tool", "library"} /\ phase' \in {"done", "run"} /\ files = 0
          /\ phase' = "done" => mode = "tool"
          /\ exit' \in {exit, "failure", "success"}
          /\ UNCHANGED <<mode, options, given, files, queue, unread, results, failure, stopped, batch, verdict>>
        BY DEF ParsedAll, fixedVars, stepVars
    <1>2. Types'
        BY <1>1 DEF IInv, Types, Phases
    <1>3. mode = "tool" => batch.failed = 0 /\ exit # "thrown"
        BY <1>1 DEF IInv, ExitAgrees
    <1>4. mode = "library" => exit' = exit
        BY <1>1 DEF ParsedAll
    <1>5. EachCounted' /\ ReportsAgree' /\ ExitAgrees' /\ WayOut' /\ VerdictJustified'
        BY <1>1, <1>3 DEF IInv, EachCounted, ReportsAgree, ExitAgrees, WayOut, VerdictJustified
    <1>6. QueueCounted'
        BY <1>1, <1>3, <1>4 DEF IInv, QueueCounted, Busy
    <1> QED BY <1>2, <1>5, <1>6 DEF IInv

LEMMA RunNextStep ==
    ASSUME IInv, RunNext
    PROVE  IInv'
    <1>1. /\ phase = "run" /\ verdict' = NoVerdict /\ queue # <<>> /\ queue' = Tail(queue)
          /\ UNCHANGED <<mode, options, given, files, unread, results, failure, stopped, exit>>
          /\ \E format, steps : Begin(format, steps)
        BY DEF RunNext, fixedVars, stepVars
    <1>2. /\ batch \in Batch /\ IsList(queue) /\ mode \notin {"files", "directory"}
          /\ files \in Nat /\ unread \in Nat /\ given \in Nat
        BY <1>1 DEF IInv, Types, EachCounted
    <1>3. /\ batch' \in Batch /\ (Shown(batch) => Shown(batch')) /\ batch'.cut = batch.cut
          /\ batch'.failed = batch.failed
          /\ \/ phase' = "run" /\ batch'.passed = batch.passed + 1
             \/ phase' = "steps" /\ batch'.passed = batch.passed
        BY <1>1, <1>2, BeginFacts
    <1>4. IsList(queue') /\ Len(queue') = Len(queue) - 1 /\ Len(queue) \in Nat
        BY <1>1, <1>2, QueueFacts
    <1>5. Types'
        BY <1>1, <1>3, <1>4 DEF IInv, Types, Phases
    <1>6. EachCounted' /\ ReportsAgree' /\ ExitAgrees'
        BY <1>1, <1>2, <1>3 DEF IInv, EachCounted, ReportsAgree, ExitAgrees
    <1>7. QueueCounted'
        <2>1. SUFFICES ASSUME mode \in {"tool", "library"} PROVE QueueCounted'
            BY <1>1 DEF QueueCounted
        <2>2. /\ files = 0
              /\ ~options.tags /\ exit # "thrown" =>
                   batch.passed + batch.failed + unread + Len(queue) + files + 0 = given
            BY <1>1, <2>1 DEF IInv, QueueCounted, Busy
        <2>3. batch.passed \in Nat /\ batch.failed \in Nat
            BY <1>2, BatchFields
        <2> DEFINE before == Len(queue)
                   after == Len(queue')
        <2>4. ~options.tags /\ exit # "thrown" =>
                batch'.passed + batch'.failed + unread + after + files + (IF phase' \in Busy THEN 1 ELSE 0) = given
            <3>1. before \in Nat /\ after = before - 1
                BY <1>4
            <3>2. ~options.tags /\ exit # "thrown" => batch.passed + batch.failed + unread + before + files + 0 = given
                BY <2>2
            <3> HIDE DEF before, after
            <3> QED BY <1>2, <1>3, <2>3, <3>1, <3>2 DEF Busy
        <2> QED BY <1>1, <2>2, <2>4 DEF QueueCounted
    <1>8. WayOut' /\ VerdictJustified'
        BY <1>1, <1>3 DEF WayOut, VerdictJustified, NoVerdict
    <1> QED BY <1>5, <1>6, <1>7, <1>8 DEF IInv

LEMMA FinishStep ==
    ASSUME IInv, Finish
    PROVE  IInv'
    <1>1. /\ phase' = "done" /\ exit' = IF mode = "tool" THEN ExitCode(batch) ELSE exit
          /\ UNCHANGED <<mode, options, given, files, queue, unread, results, failure, stopped, batch, verdict>>
          /\ phase \in {"parse", "run"}
        BY DEF Finish, fixedVars, stepVars
    <1>2. mode \in {"files", "directory"} => files = 0
        BY DEF Finish, IInv, EachCounted
    <1>3. mode \in {"tool", "library"} => phase = "run"
        BY DEF Finish
    <1>4. Types'
        BY <1>1 DEF IInv, Types, Phases
    <1>5. EachCounted'
        BY <1>1, <1>2 DEF IInv, EachCounted, Busy
    <1>6. QueueCounted'
        BY <1>1, <1>3 DEF IInv, QueueCounted, Busy, ExitAgrees
    <1>7. ReportsAgree' /\ ExitAgrees'
        BY <1>1 DEF IInv, ReportsAgree, ExitAgrees, ExitCode
    <1>8. WayOut' /\ VerdictJustified'
        BY <1>1 DEF IInv, WayOut, VerdictJustified
    <1> QED BY <1>4, <1>5, <1>6, <1>7, <1>8 DEF IInv

\* The end of run: the only step that gives a verdict.
LEMMA VerdictStep ==
    ASSUME IInv, Verdict
    PROVE  IInv'
    <1> DEFINE passed == Passed(failure, results)
    <1>1. /\ phase = "verdict" /\ phase' = (IF mode \in {"files", "directory"} THEN "parse" ELSE "run")
          /\ results' = <<>> /\ failure' = "none" /\ batch' = Counted(batch, passed, results)
          /\ UNCHANGED <<mode, options, given, files, queue, unread, stopped, exit>>
        BY DEF Verdict, fixedVars
    <1>2. /\ verdict'.passed = passed /\ verdict'.executed = (at = scenario.steps) /\ verdict'.results = results
          /\ verdict'.stopped = (failure = "stopped") /\ verdict'.silent = (failure = "silent")
          /\ verdict'.threw = (failure \in {"exception", "silent"})
        BY DEF Verdict
    <1>3. passed \in BOOLEAN /\ (passed <=> failure \in {"none", "silent"} /\ Failing(results) = {})
        BY DEF Passed, Failing
    <1>4. VerdictJustified'
        <2>1. CASE passed
            <3>1. /\ verdict'.executed \/ verdict'.silent
                  /\ \A i \in DOMAIN verdict'.results : verdict'.results[i].passed
                BY <1>1, <1>2, <1>3, <2>1 DEF IInv, WayOut, Failing
            <3> QED BY <1>2, <2>1, <3>1 DEF VerdictJustified
        <2>2. CASE ~passed
            <3>1. verdict'.stopped \/ verdict'.threw \/ \E i \in DOMAIN verdict'.results : ~verdict'.results[i].passed
                BY <1>2, <1>3, <2>2 DEF IInv, Types, Failing, Failures
            <3> QED BY <1>2, <2>2, <3>1 DEF VerdictJustified
        <2> QED BY <2>1, <2>2
    <1> HIDE DEF passed
    <1>5. /\ batch \in Batch /\ IsList(results) /\ Shown(batch)
          /\ mode # "library" => (passed <=> Failing(results) = {}) /\ batch.cut = 0
        BY <1>3 DEF IInv, Types, ReportsAgree
    <1>6. /\ batch' \in Batch /\ batch'.skipped = batch.skipped
          /\ batch'.passed = batch.passed + (IF passed THEN 1 ELSE 0)
          /\ batch'.failed = batch.failed + (IF passed THEN 0 ELSE 1)
          /\ Shown(batch') /\ (mode # "library" => batch'.cut = 0)
        <2>1. CountedRight(batch, passed, results)
            BY <1>3, <1>5, CountedFacts
        <2> QED BY <1>1, <1>3, <1>5, <2>1 DEF CountedRight, CutShort
    <1>7. Types'
        BY <1>1, <1>6, EmptyResult DEF IInv, Types, Phases, Failures
    <1>8. EachCounted'
        <2>1. SUFFICES ASSUME mode \in {"files", "directory"} PROVE EachCounted'
            BY <1>1 DEF EachCounted
        <2>2. /\ batch.passed + batch.failed + batch.skipped + files + 1 = given /\ unread <= batch.failed
              /\ files \in Nat /\ given \in Nat /\ unread \in Nat
            BY <1>1, <2>1 DEF IInv, Types, EachCounted, Busy
        <2>3. batch'.passed + batch'.failed + batch'.skipped + files = given /\ unread <= batch'.failed
            BY <1>3, <1>5, <1>6, <2>2, BatchFields
        <2> QED BY <1>1, <1>6, <2>1, <2>2, <2>3, BatchFields DEF EachCounted, Busy
    <1>9. QueueCounted'
        <2>1. SUFFICES ASSUME mode \in {"tool", "library"} PROVE QueueCounted'
            BY <1>1 DEF QueueCounted
        <2>2. /\ files = 0 /\ given \in Nat /\ unread \in Nat /\ Len(queue) \in Nat
              /\ ~options.tags /\ exit # "thrown" =>
                   batch.passed + batch.failed + unread + Len(queue) + files + 1 = given
            BY <1>1, <2>1, QueueFacts DEF IInv, Types, QueueCounted, Busy
        <2>3. ~options.tags /\ exit # "thrown" =>
                batch'.passed + batch'.failed + unread + Len(queue) + files + 0 = given
            BY <1>3, <1>5, <1>6, <2>2, BatchFields
        <2> QED BY <1>1, <2>1, <2>2, <2>3 DEF QueueCounted, Busy
    <1>10. ReportsAgree' /\ ExitAgrees' /\ WayOut'
        BY <1>1, <1>6 DEF IInv, ReportsAgree, ExitAgrees, WayOut
    <1> QED BY <1>4, <1>7, <1>8, <1>9, <1>10 DEF IInv

LEMMA NextIInv ==
    ASSUME IInv, [Next]_vars
    PROVE  IInv'
    <1>1. CASE UNCHANGED vars
        BY <1>1 DEF vars, IInv, Types, EachCounted, QueueCounted, ReportsAgree, ExitAgrees, WayOut,
           VerdictJustified
    <1> QED BY <1>1, NextFileStep, ParseAllStep, ParsedAllStep, RunNextStep, FinishStep, VerdictStep,
               ExpectationStep, OtherStep, StopStep, EscapeStep DEF Next, Runs, Done

LEMMA Invariance == Spec => []IInv
    <1>1. IInv /\ [Next]_vars => IInv'
        BY NextIInv
    <1> QED BY <1>1, InitIInv, PTL DEF Spec

\* Whatever the scenario, the packets and the options, and whoever stops the
\* runner or throws: a scenario passes only with all of its required
\* expectations and after all of its steps or an exception without text, and
\* fails only for a stop, an exception or an expectation that failed.
THEOREM VerdictIsJustified == Spec => []VerdictJustified
    BY Invariance, PTL DEF IInv

\* For batches of any size: each file is accounted for once, whether it parses,
\* is skipped, runs or is not come to; JSON and text reports show a failure
\* exactly if one was counted, TAP and JUnit test cases exactly if one was that
\* was not cut short; and the exit code of wadjet-run tells of it.
THEOREM BatchIsCounted == Spec => []BatchCountsAgree
    <1>1. ASSUME IInv PROVE BatchCountsAgree
        <2>1. phase = "done" /\ mode \in {"files", "directory"} =>
                batch.passed + batch.failed + batch.skipped = given /\ unread <= batch.failed
            BY <1>1, BatchFields DEF IInv, Types, EachCounted, Busy
        <2>2. phase = "done" /\ mode \in {"tool", "library"} /\ ~options.tags /\ exit # "thrown" =>
                batch.passed + batch.failed + unread + Len(queue) = given
            BY <1>1, BatchFields, QueueFacts DEF IInv, Types, QueueCounted, Busy
        <2>3. batch \in Batch /\ (mode # "library" => batch.cut = 0)
            BY <1>1 DEF IInv, Types, ReportsAgree
        <2>4. batch.cut > 0 => mode = "library"
            BY <2>3, BatchFields
        <2> QED BY <1>1, <2>1, <2>2, <2>4 DEF IInv, ReportsAgree, ExitAgrees, Shown, BatchCountsAgree
    <1> QED BY <1>1, Invariance, PTL
-----------------------------------------------------------------------------
(* The inductive invariants.                                               *)

AnyPacket == [kind : Kinds, size : Nat, time : Nat]

\* The file is the one that was written for the packets given to the writer,
\* as far as the disk took them, and what was read from it is its contents.
FileOK ==
  /\ kept \in Seq(AnyPacket)
  /\ saved \in Seq(AnyPacket)
  /\ \/ file = NoFile
     \/ \E written \in 0..Len(saved) : file = WriteAll(NewFile(FALSE), saved, written)
  /\ \/ loaded = Nothing
     \/ Opens(file) /\ loaded = [read |-> TRUE, packets |-> ReadAll(file)]

\* A block that declares whole words, and may be cut off.
Block ==
  {b \in [type : {"section", "interface", "statistics", "packet"},
          declared : Nat, written : Nat, interface : Nat] :
     b.declared > 1 /\ b.declared % 4 = 0 /\ b.written <= b.declared}

\* A block that is as long as it declares.
GoodBlock == {b \in Block : b.written = b.declared}

\* The blocks of interfaces among the first n.
Interfaces(blocks, n) == {j \in 1..n : blocks[j].type = "interface"}

\* A block of a packet comes after its interface's.
Announced(blocks) ==
  \A i \in 1..Len(blocks) :
     blocks[i].type = "packet" =>
       blocks[i].interface < Cardinality(Interfaces(blocks, i - 1))

Writers ==
  [state : {"none", "open"}, blocks : Seq(Block), interfaces : Nat, failed : BOOLEAN]

\* As long as no write failed, every block is whole, and interfaces_ counts the
\* blocks of interfaces that are in the file; afterwards nothing is written.
WriterOK ==
  /\ ng \in Writers
  /\ \A i \in 1..Len(ng.blocks) :
       ng.blocks[i] \in GoodBlock \/ (ng.failed /\ i = Len(ng.blocks))
  /\ Announced(ng.blocks)
  /\ ~ ng.failed => ng.interfaces = Cardinality(Interfaces(ng.blocks, Len(ng.blocks)))

Rule == [type : {"all", "never", "when", "within"}, kinds : SUBSET Kinds,
         satisfied : BOOLEAN, condition : SUBSET Kinds]

\* The packets among the first n that a stop condition matches.
Matching(packets, n, kinds) == {i \in 1..n : packets[i].kind \in kinds}

\* An expectation is marked only if a packet that is still kept met it.
MarksSeen ==
  /\ rules \in Seq(Rule)
  /\ tool = "assert" =>
       \A j \in DOMAIN rules :
         rules[j].type = "within" /\ rules[j].satisfied =>
           \E i \in DOMAIN kept : kept[i].kind \in rules[j].kinds

Calls == [name : Names(tool), stop : [kinds : SUBSET Kinds, count : Nat], matches : Nat,
          fresh : BOOLEAN]

\* A call that waits: its packets met every rule, and none was the one to stop
\* at; the packets kept by a fresh call are its own.
Waiting ==
  call # NoCall =>
    /\ call \in Calls
    /\ tool = "assert" /\ call.fresh => kept = taken
    /\ call.name \in {"run_for", "record_for", "collect_packets"} => call.stop.kinds = {}
    /\ call.matches = Cardinality(Matching(taken, Len(taken), call.stop.kinds))
    /\ call.stop.kinds # {} =>
         \A n \in 1..Len(taken) :
           Cardinality(Matching(taken, n, call.stop.kinds)) < call.stop.count
    /\ tool = "assert" =>
         \A i \in DOMAIN taken, j \in DOMAIN rules : Holds(rules[j], taken[i])
    /\ outcome = NoOutcome

CallOK ==
  /\ taken \in Seq(AnyPacket)
  /\ MarksSeen
  /\ Waiting
  /\ OutcomeJustified

-----------------------------------------------------------------------------
(* Lemmas about numbers and files.                                         *)

\* A set of natural numbers that is not empty has a least element.
LEMMA LeastNatural ==
  ASSUME NEW A, A \subseteq Nat, A # {}
  PROVE  \E n \in A : \A m \in A : n <= m
<1> DEFINE R == {ss \in Nat \X Nat : ss[1] < ss[2]}
<1>1. IsWellFoundedOn(R, Nat)
  BY NatLessThanWellFounded, Zenon DEF OpToRel
<1>2. PICK n \in A : \A m \in A : ~ (<<m, n>> \in R)
  <2> HIDE DEF R
  <2> QED
    BY <1>1, WFMin, Zenon
<1>3. ASSUME NEW m \in A PROVE n <= m
  <2>1. n \in Nat /\ m \in Nat
    OBVIOUS
  <2>2. ~ (<<m, n>> \in R)
    BY <1>2
  <2> QED
    BY <2>1, <2>2
<1> QED
  BY <1>3

\* Induction up to N: a set that holds 0 and with each number below N the next.
LEMMA Induction ==
  ASSUME NEW N \in Nat, NEW A, 0 \in A, \A n \in 1..N : n - 1 \in A => n \in A
  PROVE  \A n \in 0..N : n \in A
<1> SUFFICES ASSUME NEW k \in 0..N, k \notin A PROVE FALSE
  OBVIOUS
<1> DEFINE B == {n \in 0..N : n \notin A}
<1>1. PICK m \in B : \A n \in B : m <= n
  <2>1. B \subseteq Nat /\ B # {}
    OBVIOUS
  <2> HIDE DEF B
  <2> QED
    BY <2>1, LeastNatural
<1>2. m \in 1..N /\ m \notin A
  OBVIOUS
<1>3. m - 1 \in 0..N /\ ~ (m <= m - 1)
  BY <1>2
<1>4. m - 1 \in A
  BY <1>1, <1>3
<1> QED
  BY <1>2, <1>4

\* What is added up step by step exists.
LEMMA SumExists ==
  ASSUME NEW N \in Nat, NEW base \in Nat, NEW g \in [1..N -> Nat]
  PROVE  \E f \in [0..N -> Nat] : f[0] = base /\ \A i \in 1..N : f[i] = f[i - 1] + g[i]
<1> DEFINE Upto(n) == \E f \in [0..n -> Nat] : f[0] = base /\ \A i \in 1..n : f[i] = f[i - 1] + g[i]
           A == {n \in 0..N : Upto(n)}
<1>1. 0 \in A
  <2> DEFINE f == [i \in 0..0 |-> base]
  <2>1. f \in [0..0 -> Nat] /\ f[0] = base /\ \A i \in 1..0 : f[i] = f[i - 1] + g[i]
    OBVIOUS
  <2> HIDE DEF f
  <2>2. Upto(0)
    BY <2>1
  <2> QED
    BY <2>2
<1>2. ASSUME NEW n \in 1..N, n - 1 \in A PROVE n \in A
  <2>1. PICK f \in [0..(n - 1) -> Nat] :
           f[0] = base /\ \A i \in 1..(n - 1) : f[i] = f[i - 1] + g[i]
    BY <1>2
  <2> DEFINE h == [i \in 0..n |-> IF i = n THEN f[n - 1] + g[n] ELSE f[i]]
  <2>2. h \in [0..n -> Nat]
    OBVIOUS
  <2>3. h[0] = base
    BY <2>1
  <2>4. ASSUME NEW i \in 1..n PROVE h[i] = h[i - 1] + g[i]
    <3>1. CASE i = n
      BY <3>1
    <3>2. CASE i # n
      BY <2>1, <3>2
    <3> QED
      BY <3>1, <3>2
  <2> HIDE DEF h
  <2>5. Upto(n)
    BY <2>2, <2>3, <2>4
  <2> HIDE DEF Upto
  <2> QED
    BY <2>5
<1>3. \A n \in 1..N : n - 1 \in A => n \in A
  BY <1>2
<1>4. N \in A
  <2> HIDE DEF A
  <2>1. \A n \in 0..N : n \in A
    BY <1>1, <1>3, Induction
  <2> QED
    BY <2>1
<1> HIDE DEF Upto
<1>5. Upto(N)
  BY <1>4
<1> QED
  BY <1>5 DEF Upto

\* A value with its padding takes whole words (pcapng_padding).
LEMMA PaddedToWords ==
  ASSUME NEW l \in Nat
  PROVE  Padding(l) \in Nat /\ (l + Padding(l)) % 4 = 0
<1>1. l % 4 \in {0, 1, 2, 3}
  OBVIOUS
<1>2. Padding(l) = IF l % 4 = 0 THEN 0 ELSE 4 - (l % 4)
  BY <1>1 DEF Padding
<1> QED
  BY <1>1, <1>2

\* The options of a block take whole words, whatever their number and lengths
\* (write_options).
LEMMA SumOfOptions ==
  ASSUME NEW N \in Nat, NEW lengths \in [1..N -> Nat], NEW bytes,
         bytes[0] = 4,
         \A n \in 1..N : bytes[n] = bytes[n - 1] + 4 + lengths[n] + Padding(lengths[n])
  PROVE  bytes[N] \in Nat /\ bytes[N] % 4 = 0
<1> DEFINE A == {n \in 0..N : bytes[n] \in Nat /\ bytes[n] % 4 = 0}
<1>3. 0 \in A
  OBVIOUS
<1>4. ASSUME NEW n \in 1..N, n - 1 \in A PROVE n \in A
  <2>1. bytes[n - 1] \in Nat /\ bytes[n - 1] % 4 = 0
    BY <1>4
  <2>2. /\ lengths[n] \in Nat /\ Padding(lengths[n]) \in Nat
        /\ (lengths[n] + Padding(lengths[n])) % 4 = 0
    BY PaddedToWords
  <2>4. bytes[n] = bytes[n - 1] + 4 + lengths[n] + Padding(lengths[n])
    OBVIOUS
  <2> DEFINE a == bytes[n - 1]
             l == lengths[n]
             p == Padding(lengths[n])
  <2>5. (a + 4 + l + p) \in Nat /\ (a + 4 + l + p) % 4 = 0
    <3> HIDE DEF a, l, p
    <3>1. a \in Nat /\ a % 4 = 0 /\ l \in Nat /\ p \in Nat /\ (l + p) % 4 = 0
      BY <2>1, <2>2 DEF a, l, p
    <3> QED
      BY <3>1
  <2>7. bytes[n] \in Nat /\ bytes[n] % 4 = 0
    BY <2>4, <2>5, Zenon
  <2>6. n \in 0..N
    OBVIOUS
  <2> QED
    BY <2>7, <2>6, Zenon
<1>5. \A n \in 1..N : n - 1 \in A => n \in A
  BY <1>4
<1>6. N \in A
  <2> HIDE DEF A
  <2>1. \A n \in 0..N : n \in A
    BY <1>3, <1>5, Induction
  <2> QED
    BY <2>1
<1> QED
  BY <1>6

LEMMA OptionsAreWords ==
  ASSUME NEW lengths \in Seq(Nat)
  PROVE  OptionBytes(lengths) \in Nat /\ OptionBytes(lengths) % 4 = 0
<1> DEFINE N == Len(lengths)
           Is(f) == f = [n \in 0..N |-> IF n = 0 THEN 4
                                    ELSE f[n - 1] + 4 + lengths[n] + Padding(lengths[n])]
           bytes == CHOOSE f : Is(f)
           g == [i \in 1..N |-> 4 + lengths[i] + Padding(lengths[i])]
<1>1. N \in Nat /\ lengths \in [1..N -> Nat]
  OBVIOUS
<1>2. OptionBytes(lengths) = bytes[N]
  BY DEF OptionBytes
<1> HIDE DEF N
<1>3. \A i \in 1..N : lengths[i] \in Nat /\ Padding(lengths[i]) \in Nat
  BY <1>1, PaddedToWords
<1>4. g \in [1..N -> Nat]
  BY <1>1, <1>3
<1>5. \E f : Is(f)
  <2>1. PICK f \in [0..N -> Nat] : f[0] = 4 /\ \A i \in 1..N : f[i] = f[i - 1] + g[i]
    <3>1. 4 \in Nat
      OBVIOUS
    <3> HIDE DEF g
    <3> QED
      BY <1>1, <1>4, <3>1, SumExists
  <2>2. ASSUME NEW n \in 1..N PROVE f[n] = f[n - 1] + 4 + lengths[n] + Padding(lengths[n])
    <3>1. f[n] = f[n - 1] + (4 + lengths[n] + Padding(lengths[n]))
      BY <2>1
    <3>2. f[n - 1] \in Nat /\ lengths[n] \in Nat /\ Padding(lengths[n]) \in Nat
      BY <1>1, <1>3
    <3>3. \A a, b, c \in Nat : a + (4 + b + c) = a + 4 + b + c
      OBVIOUS
    <3> HIDE DEF Is, bytes, g
    <3> QED
      BY <3>1, <3>2, <3>3
  <2>3. Is(f)
    BY <2>1, <2>2
  <2> HIDE DEF Is
  <2> QED
    BY <2>3
<1>6. Is(bytes)
  <2> HIDE DEF Is
  <2> QED
    BY <1>5
<1> HIDE DEF bytes
<1>7. bytes[0] = 4
  <2>1. 0 \in 0..N
    BY <1>1
  <2> QED
    BY <1>6, <2>1, Zenon
<1>8. ASSUME NEW n \in 1..N PROVE bytes[n] = bytes[n - 1] + 4 + lengths[n] + Padding(lengths[n])
  <2>1. n \in 0..N /\ n # 0
    BY <1>1
  <2> QED
    BY <1>6, <2>1, Zenon
<1>9. \A n \in 1..N : bytes[n] = bytes[n - 1] + 4 + lengths[n] + Padding(lengths[n])
  BY <1>8
<1> HIDE DEF Is, g
<1>10. bytes[N] \in Nat /\ bytes[N] % 4 = 0
  BY <1>1, <1>7, <1>9, SumOfOptions
<1> QED
  BY <1>2, <1>10

-----------------------------------------------------------------------------
(* LoadedAsSaved                                                           *)

\* The record of a packet in a file with microseconds.
Recorded(r, q) ==
  /\ r.kind = q.kind
  /\ r.incl = IF q.size < 65535 THEN q.size ELSE 65535
  /\ r.fraction = q.time \div 1000

\* A file that PcapWriter wrote, as far as the disk took the packets.
WrittenFor(f, packets, written) ==
  /\ f.header.known /\ ~ f.header.nanosecond /\ f.header.snaplen = 65535
  /\ DOMAIN f.records = 1..written /\ Len(f.records) = written
  /\ \A i \in 1..written : Recorded(f.records[i], packets[i])
  /\ f.cut <=> written < Len(packets)

LEMMA WriteAllWrites ==
  ASSUME NEW packets \in Seq(AnyPacket), NEW written \in 0..Len(packets)
  PROVE  WrittenFor(WriteAll(NewFile(FALSE), packets, written), packets, written)
<1> DEFINE f == WriteAll(NewFile(FALSE), packets, written)
           header == [known |-> TRUE, nanosecond |-> FALSE, snaplen |-> DefaultSnaplen]
           records == [i \in 1..written |-> Record(header, packets[i])]
<1>1. Len(packets) \in Nat /\ written \in Nat /\ written <= Len(packets)
  OBVIOUS
<1>2. Smaller(written, Len(packets)) = written
  BY <1>1 DEF Smaller
<1>3. f.header = header /\ f.cut = (written < Len(packets))
  BY DEF WriteAll, NewFile
<1>4. f.records = <<>> \o records
  BY <1>2 DEF WriteAll, NewFile
<1>5. records \in Seq({Record(header, packets[i]) : i \in 1..written})
  <2> HIDE DEF header
  <2> QED
    BY <1>1
<1>6. <<>> \o records = records
  <2> HIDE DEF records
  <2> QED
    BY <1>5
<1>7. DOMAIN records = 1..written /\ Len(records) = written
  BY <1>1
<1>8. ASSUME NEW i \in 1..written
      PROVE  Recorded(records[i], packets[i])
  <2> DEFINE q == packets[i]
  <2>1. records[i] = Record(header, q)
    OBVIOUS
  <2> HIDE DEF q, records
  <2>2. Recorded(records[i], q)
    BY <2>1 DEF Record, Recorded, Smaller, DefaultSnaplen
  <2> QED
    BY <2>2 DEF q
<1> HIDE DEF f, records
<1>9. f.header.known /\ ~ f.header.nanosecond /\ f.header.snaplen = 65535
  <2>1. header.known = TRUE /\ header.nanosecond = FALSE /\ header.snaplen = 65535
    BY DEF DefaultSnaplen
  <2> HIDE DEF header
  <2> QED
    BY <1>3, <2>1
<1> HIDE DEF header
<1>10. f.records = records
  BY <1>4, <1>6
<1>11. WrittenFor(f, packets, written)
  <2>1. /\ DOMAIN f.records = 1..written /\ Len(f.records) = written
        /\ \A i \in 1..written : Recorded(f.records[i], packets[i])
    BY <1>7, <1>8, <1>10, Zenon
  <2>2. f.cut <=> written < Len(packets)
    BY <1>3
  <2> QED
    BY <1>9, <2>1, <2>2 DEF WrittenFor
<1> QED
  BY <1>11 DEF f

\* What PcapReader makes of a file that PcapWriter wrote.
ReadsAs(f, packets) ==
  /\ Opens(f)
  /\ ReadAll(f) \in Seq(AnyPacket)
  /\ Len(ReadAll(f)) <= Len(packets)
  /\ \A i \in 1..Len(ReadAll(f)) :
       /\ ReadAll(f)[i].kind = packets[i].kind
       /\ ReadAll(f)[i].size = packets[i].size
       /\ ReadAll(f)[i].time <= packets[i].time
       /\ packets[i].time - ReadAll(f)[i].time < 1000
  /\ Len(ReadAll(f)) < Len(packets) =>
       f.cut \/ packets[Len(ReadAll(f)) + 1].size > ReaderLimit

LEMMA ReadBack ==
  ASSUME NEW packets \in Seq(AnyPacket), NEW written \in 0..Len(packets),
         NEW f, WrittenFor(f, packets, written)
  PROVE  ReadsAs(f, packets)
<1> DEFINE refused == {i \in 1..written : Refused(f.header, f.records[i])}
           first == CHOOSE i \in refused : \A j \in refused : i <= j
           last == IF refused = {} THEN written ELSE first - 1
<1>1. Len(packets) \in Nat /\ written \in Nat /\ written <= Len(packets)
  OBVIOUS
<1>2. \A i \in 1..written : packets[i].size \in Nat /\ packets[i].time \in Nat /\ packets[i].kind \in Kinds
  <2>1. \A i \in 1..written : packets[i] \in AnyPacket
    BY <1>1
  <2>2. \A q \in AnyPacket : q.size \in Nat /\ q.time \in Nat /\ q.kind \in Kinds
    BY DEF AnyPacket
  <2> QED
    BY <2>1, <2>2
<1>3. \A i \in 1..written : Refused(f.header, f.records[i]) <=> packets[i].size > 15220
  BY <1>2 DEF Refused, ReaderLimit, WrittenFor, Recorded
<1>4. ReadAll(f) = [i \in 1..last |-> Unpack(f.header, f.records[i])]
  BY DEF ReadAll, WrittenFor
<1>5. \A i \in 1..written : i \in refused <=> packets[i].size > 15220
  BY <1>3
<1>6. refused \subseteq Nat /\ refused \subseteq 1..written
  BY <1>1
<1>7. refused # {} => first \in refused /\ \A j \in refused : first <= j
  <2> HIDE DEF refused
  <2>1. refused # {} => \E i \in refused : \A j \in refused : i <= j
    BY <1>6, LeastNatural
  <2> QED
    BY <2>1
<1>8. last = IF refused = {} THEN written ELSE first - 1
  OBVIOUS
<1> HIDE DEF last, first, refused
<1>9. /\ last \in 0..written
      /\ \A i \in 1..last : packets[i].size <= 15220
      /\ last < written => packets[last + 1].size > 15220
  <2>1. CASE refused = {}
    <3>1. last = written
      BY <1>8, <2>1
    <3>2. \A i \in 1..written : ~ (packets[i].size > 15220)
      BY <2>1, <1>5
    <3> QED
      BY <3>1, <3>2, <1>1, <1>2
  <2>2. CASE refused # {}
    <3>0. first \in refused /\ first \in 1..written
      BY <2>2, <1>6, <1>7, Zenon
    <3>1. first \in 1..written /\ packets[first].size > 15220
      BY <3>0, <1>5
    <3>2. last \in 0..written /\ last + 1 = first
      BY <1>8, <2>2, <3>1
    <3>3. ASSUME NEW i \in 1..last PROVE packets[i].size <= 15220
      <4>1. i \in 1..written /\ i < first
        BY <3>1, <3>2
      <4>2. i \notin refused
        BY <4>1, <1>7, <2>2, <3>1
      <4> QED
        BY <4>1, <4>2, <1>2, <1>5
    <3> QED
      BY <3>1, <3>2, <3>3
  <2> QED
    BY <2>1, <2>2
<1>10. Len(ReadAll(f)) = last
  <2> DEFINE g == [i \in 1..last |-> Unpack(f.header, f.records[i])]
  <2>1. last \in Nat
    BY <1>9
  <2>2. Len(g) = last
    BY <2>1
  <2> QED
    BY <1>4, <2>2
<1>11. ASSUME NEW i \in 1..last
       PROVE  /\ ReadAll(f)[i] \in AnyPacket
              /\ ReadAll(f)[i].kind = packets[i].kind
              /\ ReadAll(f)[i].size = packets[i].size
              /\ ReadAll(f)[i].time <= packets[i].time
              /\ packets[i].time - ReadAll(f)[i].time < 1000
  <2> DEFINE q == packets[i]
             r == f.records[i]
             u == ReadAll(f)[i]
  <2>1. i \in 1..written
    BY <1>9
  <2>2. u = Unpack(f.header, r)
    BY <1>4
  <2>3. q.size \in Nat /\ q.time \in Nat /\ q.kind \in Kinds /\ q.size <= 15220
    BY <1>2, <1>9, <2>1
  <2>4. /\ r.kind = q.kind
        /\ r.incl = IF q.size < 65535 THEN q.size ELSE 65535
        /\ r.fraction = q.time \div 1000
        /\ ~ f.header.nanosecond
    BY <2>1 DEF WrittenFor, Recorded
  <2> HIDE DEF q, r, u
  <2>5. u = [kind |-> q.kind, size |-> q.size, time |-> (q.time \div 1000) * 1000]
    BY <2>2, <2>3, <2>4 DEF Unpack
  <2> DEFINE t == q.time
  <2>6. t \in Nat
    BY <2>3
  <2>7. /\ (t \div 1000) * 1000 \in Nat
        /\ (t \div 1000) * 1000 <= t
        /\ t - (t \div 1000) * 1000 < 1000
    <3> HIDE DEF t
    <3> QED
      BY <2>6
  <2>8. /\ u \in AnyPacket
        /\ u.kind = q.kind /\ u.size = q.size
        /\ u.time <= q.time /\ q.time - u.time < 1000
    BY <2>3, <2>5, <2>7 DEF AnyPacket
  <2> QED
    BY <2>8 DEF u, q
<1>12. ReadAll(f) \in Seq(AnyPacket)
  <2>1. last \in Nat
    BY <1>9
  <2>2. \A i \in 1..last : Unpack(f.header, f.records[i]) \in AnyPacket
    BY <1>4, <1>11
  <2>3. ReadAll(f) \in [1..last -> AnyPacket]
    BY <1>4, <2>2
  <2> QED
    BY <2>1, <2>3
<1>13. last < Len(packets) => f.cut \/ packets[last + 1].size > ReaderLimit
  BY <1>9, <1>1 DEF ReaderLimit, WrittenFor
<1>14. Opens(f)
  BY DEF Opens, WrittenFor
<1>15. last <= Len(packets)
  BY <1>1, <1>9
<1> QED
  BY <1>10, <1>11, <1>12, <1>13, <1>14, <1>15 DEF ReadsAs

\* What is in the file, when there is one, are packets.
LEMMA FileReads ==
  ASSUME FileOK, Opens(file)
  PROVE  ReadsAs(file, saved)
<1>1. file # NoFile
  BY DEF Opens, NoFile
<1>2. PICK written \in 0..Len(saved) : file = WriteAll(NewFile(FALSE), saved, written)
  BY <1>1 DEF FileOK
<1>3. saved \in Seq(AnyPacket)
  BY DEF FileOK
<1>4. WrittenFor(file, saved, written)
  BY <1>2, <1>3, WriteAllWrites
<1> QED
  BY <1>3, <1>4, ReadBack

LEMMA PacketsKnown == \A p \in Deliverable : p \in AnyPacket
<1> TAKE p \in Deliverable
<1>1. /\ p.kind \in Kinds /\ p.size \in Sizes /\ p.time \in {1500}
      /\ p = [kind |-> p.kind, size |-> p.size, time |-> p.time]
  BY DEF Deliverable
<1>2. p.size \in Nat /\ p.time \in Nat
  BY <1>1, RecordingsAssumption
<1> QED
  BY <1>1, <1>2 DEF AnyPacket

\* The file and its copies, without the packets that are kept.
DiskOK ==
  /\ saved \in Seq(AnyPacket)
  /\ \/ file = NoFile
     \/ \E written \in 0..Len(saved) : file = WriteAll(NewFile(FALSE), saved, written)
  /\ \/ loaded = Nothing
     \/ Opens(file) /\ loaded = [read |-> TRUE, packets |-> ReadAll(file)]

LEMMA FileIsDisk == FileOK <=> kept \in Seq(AnyPacket) /\ DiskOK
  BY Zenon DEF FileOK, DiskOK

LEMMA DiskSame == ASSUME DiskOK, UNCHANGED diskVars PROVE DiskOK'
<1>1. saved' = saved /\ file' = file /\ loaded' = loaded
  BY DEF diskVars
<1> QED
  BY <1>1, Zenon DEF DiskOK

\* save_failure_trace and its like leave the file for the packets they are given.
LEMMA SaveWrites ==
  ASSUME NEW packets \in Seq(AnyPacket), NEW result, Save(packets, result)
  PROVE  DiskOK'
<1>1. PICK written \in 0..Len(packets) : file' = WriteAll(NewFile(FALSE), packets, written)
  BY DEF Save
<1>2. saved' = packets /\ loaded' = Nothing
  BY DEF Save
<1>3. \E w \in 0..Len(saved') : file' = WriteAll(NewFile(FALSE), saved', w)
  BY <1>1, <1>2
<1> QED
  BY <1>2, <1>3, Zenon DEF DiskOK

LEMMA TraceWrites ==
  ASSUME DiskOK, NEW packets \in Seq(AnyPacket), SaveTrace(packets)
  PROVE  DiskOK'
<1>1. CASE \E result \in BOOLEAN : Save(packets, result)
  BY <1>1, SaveWrites
<1>2. CASE UNCHANGED diskVars
  BY <1>2, DiskSame
<1> QED
  BY <1>1, <1>2, Zenon DEF SaveTrace

LEMMA ReturnWrites ==
  ASSUME DiskOK, kept' \in Seq(AnyPacket), NEW result, Return(result)
  PROVE  DiskOK'
<1>1. CASE tool = "assert" /\ ~ result
  <2>1. SaveTrace(kept')
    BY <1>1 DEF Return
  <2> QED
    BY <2>1, TraceWrites
<1>2. CASE ~ (tool = "assert" /\ ~ result)
  <2>1. UNCHANGED diskVars
    BY <1>2 DEF Return
  <2> QED
    BY <2>1, DiskSame
<1> QED
  BY <1>1, <1>2

LEMMA FileInit == RecordingInit => FileOK
<1> SUFFICES ASSUME RecordingInit PROVE FileOK
  OBVIOUS
<1>1. kept = <<>> /\ saved = <<>> /\ file = NoFile /\ loaded = Nothing
  BY DEF RecordingInit
<1> QED
  BY <1>1 DEF FileOK

LEMMA FileStep == FileOK /\ [RecordingNext]_recordingVars => FileOK'
<1> SUFFICES ASSUME FileOK, [RecordingNext]_recordingVars PROVE FileOK'
  OBVIOUS
<1>1. kept \in Seq(AnyPacket) /\ DiskOK
  BY FileIsDisk
<1> SUFFICES kept' \in Seq(AnyPacket) /\ DiskOK'
  BY Zenon DEF FileOK, DiskOK
<1>2. <<>> \in Seq(AnyPacket)
  OBVIOUS
<1>3. ASSUME UNCHANGED kept PROVE kept' \in Seq(AnyPacket)
  BY <1>1, <1>3
<1>4. CASE AddRule
  BY <1>1, <1>4, DiskSame DEF AddRule
<1>5. CASE Reset
  BY <1>1, <1>2, <1>5, DiskSame DEF Reset
<1>6. CASE SaveToPcap
  <2>1. kept' = kept
    BY <1>6 DEF SaveToPcap
  <2>2. PICK result \in BOOLEAN : Save(kept, result) \/ UNCHANGED diskVars
    BY <1>6 DEF SaveToPcap
  <2> QED
    BY <1>1, <2>1, <2>2, SaveWrites, DiskSame
<1>7. CASE LoadFromPcap
  <2>1. file' = file /\ saved' = saved
    BY <1>7 DEF LoadFromPcap
  <2>2. CASE Opens(file) /\ kept' = ReadAll(file) /\ loaded' = [read |-> TRUE, packets |-> ReadAll(file)]
    <3>1. ReadAll(file) \in Seq(AnyPacket)
      BY <2>2, FileReads, Zenon DEF ReadsAs
    <3> QED
      BY <1>1, <2>1, <2>2, <3>1, Zenon DEF DiskOK
  <2>3. CASE UNCHANGED <<kept, loaded>>
    BY <1>1, <2>1, <2>3, DiskSame DEF diskVars
  <2> QED
    BY <1>7, <2>2, <2>3 DEF LoadFromPcap
<1>8. CASE EmptyStream
  BY <1>1, <1>2, <1>8, DiskSame DEF EmptyStream
<1>9. CASE SetUp
  BY <1>1, <1>2, <1>9, DiskSame DEF SetUp
<1>10. CASE TearDown
  BY <1>1, <1>2, <1>10, TraceWrites DEF TearDown
<1>11. CASE BeginCall
  BY <1>1, <1>11, DiskSame DEF BeginCall
<1>12. CASE PacketArrives
  <2>1. PICK p \in Frames :
          /\ kept' = Store(kept, p)
          /\ (\E result \in BOOLEAN : Return(result)) \/ UNCHANGED diskVars
    <3>1. \A rs : Satisfied(rs) \in BOOLEAN
      BY DEF Satisfied
    <3> QED
      BY <1>12, <3>1 DEF PacketArrives
  <2>2. p \in AnyPacket
    BY PacketsKnown DEF Frames
  <2>3. kept' \in Seq(AnyPacket)
    BY <1>1, <2>1, <2>2 DEF Store
  <2> QED
    BY <1>1, <2>1, <2>3, ReturnWrites, DiskSame
<1>13. CASE DeadlinePasses
  <2>1. kept' = kept
    BY <1>13 DEF DeadlinePasses
  <2>2. \E result : Return(result)
    BY <1>13 DEF DeadlinePasses
  <2> QED
    BY <1>1, <2>1, <2>2, ReturnWrites
<1>14. CASE CreateReplay
  <2>1. /\ kept' = kept /\ file' = file /\ saved' = saved
        /\ Opens(file) /\ loaded' = [read |-> TRUE, packets |-> ReadAll(file)]
    BY <1>14 DEF CreateReplay, toolVars
  <2> QED
    BY <1>1, <2>1, Zenon DEF DiskOK
<1>15. CASE RunReplay \/ ReplayPacket \/ PassDone \/ StopReplay
  BY <1>1, <1>15, DiskSame DEF RunReplay, ReplayPacket, PassDone, StopReplay, toolVars
<1>16. CASE CreateWriter \/ AddInterface \/ WritePacketBlock \/ WriteStatistics
  BY <1>1, <1>16, DiskSame
     DEF CreateWriter, AddInterface, WritePacketBlock, WriteStatistics, toolVars
<1>17. CASE CopyPackets
  <2>1. /\ kept' = kept /\ file' = file /\ saved' = saved
        /\ Opens(file) /\ loaded' = [read |-> TRUE, packets |-> ReadAll(file)]
    BY <1>17 DEF CopyPackets, toolVars
  <2> QED
    BY <1>1, <2>1, Zenon DEF DiskOK
<1>18. CASE TakeUp
  <2>1. kept' = <<>> /\ loaded' = Nothing
    BY <1>18 DEF TakeUp
  <2>2. (file' = NoFile /\ saved' = <<>>) \/ UNCHANGED <<file, saved>>
    BY <1>18 DEF TakeUp
  <2>3. CASE file' = NoFile /\ saved' = <<>>
    BY <1>2, <2>1, <2>3 DEF DiskOK
  <2>4. CASE UNCHANGED <<file, saved>>
    <3>1. file' = file /\ saved' = saved
      BY <2>4
    <3> QED
      BY <1>1, <1>2, <2>1, <3>1, Zenon DEF DiskOK
  <2> QED
    BY <2>2, <2>3, <2>4
<1>19. CASE UNCHANGED recordingVars
  BY <1>1, <1>19, DiskSame DEF recordingVars, diskVars
<1> QED
  BY <1>4, <1>5, <1>6, <1>7, <1>8, <1>9, <1>10, <1>11, <1>12, <1>13, <1>14, <1>15, <1>16,
     <1>17, <1>18, <1>19 DEF RecordingNext

LEMMA FileAlways == RecordingSpec => []FileOK
<1> QED
  BY FileInit, FileStep, PTL DEF RecordingSpec

\* Whatever is read from the file is what was given to the writer, in order and
\* with the times to the microsecond; it ends early only where the disk was full
\* or before a frame that is longer than the reader takes (PcapWriter::write_packet,
\* PcapReader::next_packet).
THEOREM FilesReadBack == RecordingSpec => []LoadedAsSaved
<1>1. FileOK => LoadedAsSaved
  <2> SUFFICES ASSUME FileOK, loaded.read PROVE LoadedAsSaved
    BY DEF LoadedAsSaved
  <2>1. Opens(file) /\ loaded.packets = ReadAll(file)
    BY DEF FileOK, Nothing
  <2>2. ReadsAs(file, saved)
    BY <2>1, FileReads
  <2> QED
    BY <2>1, <2>2 DEF LoadedAsSaved, ReadsAs
<1> QED
  BY <1>1, FileAlways, PTL

-----------------------------------------------------------------------------
(* BlocksWellFormed                                                        *)

LEMMA InterfacesCount ==
  ASSUME NEW blocks, NEW n \in Int
  PROVE  IsFiniteSet(Interfaces(blocks, n)) /\ Cardinality(Interfaces(blocks, n)) \in Nat
<1>1. IsFiniteSet(1..n)
  BY FS_Interval
<1>2. Interfaces(blocks, n) \subseteq 1..n
  BY DEF Interfaces
<1>3. IsFiniteSet(Interfaces(blocks, n))
  BY <1>1, <1>2, FS_Subset
<1> QED
  BY <1>3, FS_CardinalityType

\* Counting goes on where blocks are appended.
LEMMA CountConcat ==
  ASSUME NEW S, NEW old \in Seq(S), NEW new \in Seq(S), NEW k \in 0..Len(new)
  PROVE  Cardinality(Interfaces(old \o new, Len(old) + k))
           = Cardinality(Interfaces(old, Len(old))) + Cardinality(Interfaces(new, k))
<1> DEFINE L == Len(old)
           A == Interfaces(old, L)
           B == Interfaces(new, k)
           C == {L + j : j \in B}
           f == [j \in B |-> L + j]
<1>1. L \in Nat /\ Len(new) \in Nat /\ k \in Nat
  OBVIOUS
<1>2. \A j \in 1..L : (old \o new)[j] = old[j]
  OBVIOUS
<1>3. \A j \in 1..k : (old \o new)[L + j] = new[j]
  OBVIOUS
<1>4. Interfaces(old \o new, L + k) = A \cup C
  <2>1. ASSUME NEW i \in Interfaces(old \o new, L + k) PROVE i \in A \cup C
    <3>1. i \in 1..(L + k) /\ (old \o new)[i].type = "interface"
      BY DEF Interfaces
    <3>2. CASE i \in 1..L
      BY <1>2, <3>1, <3>2 DEF Interfaces
    <3>3. CASE i \notin 1..L
      <4>1. i - L \in 1..k /\ i = L + (i - L)
        BY <1>1, <3>1, <3>3
      <4>2. new[i - L].type = "interface"
        BY <1>3, <3>1, <4>1
      <4>3. i - L \in B
        BY <4>1, <4>2 DEF Interfaces
      <4> HIDE DEF B
      <4> QED
        BY <4>1, <4>3
    <3> QED
      BY <3>2, <3>3
  <2>2. ASSUME NEW i \in A PROVE i \in Interfaces(old \o new, L + k)
    BY <1>1, <1>2 DEF Interfaces
  <2>3. ASSUME NEW i \in C PROVE i \in Interfaces(old \o new, L + k)
    <3>1. PICK j \in B : i = L + j
      OBVIOUS
    <3>2. j \in 1..k /\ new[j].type = "interface"
      BY DEF Interfaces
    <3>3. L + j \in 1..(L + k)
      BY <1>1, <3>2
    <3> QED
      BY <1>3, <3>1, <3>2, <3>3 DEF Interfaces
  <2> QED
    BY <2>1, <2>2, <2>3, Zenon
<1>5. A \subseteq 1..L /\ B \subseteq 1..k
  BY DEF Interfaces
<1>6. IsFiniteSet(A) /\ IsFiniteSet(B) /\ Cardinality(A) \in Nat /\ Cardinality(B) \in Nat
  BY <1>1, InterfacesCount
<1> HIDE DEF A, B, L
<1>7. f \in Bijection(B, C)
  <2>1. f \in Injection(B, C)
    BY <1>1, <1>5 DEF Injection, IsInjective
  <2>2. f \in Surjection(B, C)
    BY DEF Surjection
  <2> QED
    BY <2>1, <2>2 DEF Bijection
<1>8. IsFiniteSet(C) /\ Cardinality(C) = Cardinality(B)
  <2>1. ExistsBijection(B, C)
    BY <1>7 DEF ExistsBijection
  <2> HIDE DEF C
  <2> QED
    BY <1>6, <2>1, FS_Bijection, FS_SameCardinalityBij
<1>9. A \cap C = {}
  BY <1>1, <1>5
<1>10. Cardinality(A \cup C) = Cardinality(A) + Cardinality(C)
  <2> HIDE DEF C
  <2>1. Cardinality(A \cap C) = 0
    BY <1>9, FS_EmptySet
  <2>2. Cardinality(A \cup C) = Cardinality(A) + Cardinality(C) - Cardinality(A \cap C)
    BY <1>6, <1>8, FS_Union
  <2> QED
    BY <1>6, <1>8, <2>1, <2>2
<1> QED
  BY <1>4, <1>8, <1>10 DEF A, B, L

\* Blocks that may follow those in the file, of which count are of interfaces.
Follow(new, count) ==
  \A k \in 1..Len(new) :
     new[k].type = "packet" =>
       new[k].interface < count + Cardinality(Interfaces(new, k - 1))

LEMMA ConcatIs ==
  ASSUME NEW S, NEW s \in Seq(S), NEW t \in Seq(S)
  PROVE  /\ s \o t \in Seq(S) /\ Len(s \o t) = Len(s) + Len(t)
         /\ \A j \in 1..Len(s) : (s \o t)[j] = s[j]
         /\ \A j \in 1..Len(t) : (s \o t)[Len(s) + j] = t[j]
  OBVIOUS

\* What reaches the disk of new blocks: the first n, and the beginning of the
\* next or nothing of it.
LEMMA PartReached ==
  ASSUME NEW new \in Seq(GoodBlock), NEW n \in 0..Len(new),
         NEW rest \in IF n = Len(new) THEN {<<>>} ELSE Leaves(new[n + 1])
  PROVE  LET part == SubSeq(new, 1, n) \o rest
         IN /\ part \in Seq(Block)
            /\ n <= Len(part) /\ Len(part) <= Len(new)
            /\ \A k \in 1..Len(part) :
                 /\ k <= n => part[k] = new[k]
                 /\ k > n => k = n + 1 /\ n < Len(new)
                 /\ part[k].type = new[k].type /\ part[k].interface = new[k].interface
<1> DEFINE first == SubSeq(new, 1, n)
           part == first \o rest
<1>1. Len(new) \in Nat /\ n \in Nat
  OBVIOUS
<1>2. first \in Seq(GoodBlock) /\ Len(first) = n /\ \A k \in 1..n : first[k] = new[k]
  BY <1>1
<1>3. first \in Seq(Block)
  <2>1. \A k \in 1..n : first[k] \in Block
    BY <1>1, <1>2 DEF GoodBlock
  <2> HIDE DEF first
  <2> QED
    BY <1>1, <1>2, <2>1
<1> HIDE DEF first
<1>4. CASE rest = <<>>
  <2>1. part = first
    BY <1>3, <1>4
  <2> HIDE DEF part
  <2>2. /\ part \in Seq(Block) /\ n <= Len(part) /\ Len(part) <= Len(new)
        /\ \A j \in 1..Len(part) : j <= n /\ j \in 1..n /\ part[j] = new[j]
    BY <1>1, <1>2, <1>3, <2>1
  <2>3. \A j \in 1..n : ~ (j > n)
    BY <1>1
  <2> QED
    BY <2>2, <2>3 DEF part, first
<1>5. CASE rest # <<>>
  <2>1. n # Len(new) /\ rest \in Leaves(new[n + 1])
    BY <1>5
  <2> DEFINE b == new[n + 1]
  <2>2. n + 1 \in 1..Len(new) /\ b \in GoodBlock
    BY <1>1, <2>1
  <2> HIDE DEF b
  <2>3. PICK k \in {1, b.declared - 1} : rest = <<[b EXCEPT !.written = k]>>
    BY <1>5, <2>1 DEF Leaves, b
  <2> DEFINE c == [b EXCEPT !.written = k]
  <2>9. b \in Block /\ k \in Nat /\ k <= b.declared
    BY <2>2, <2>3 DEF GoodBlock, Block
  <2>4. c \in Block /\ c.type = b.type /\ c.interface = b.interface
    BY <2>9 DEF Block
  <2> HIDE DEF c
  <2>5. /\ part \in Seq(Block) /\ Len(part) = n + 1
        /\ \A j \in 1..n : part[j] = first[j]
        /\ part[n + 1] = c
    <3>1. rest \in Seq(Block) /\ Len(rest) = 1 /\ rest[1] = c
      BY <2>3, <2>4 DEF c
    <3>2. /\ first \o rest \in Seq(Block) /\ Len(first \o rest) = Len(first) + Len(rest)
          /\ \A j \in 1..Len(first) : (first \o rest)[j] = first[j]
          /\ \A j \in 1..Len(rest) : (first \o rest)[Len(first) + j] = rest[j]
      BY <1>3, <3>1, ConcatIs
    <3>3. 1 \in 1..Len(rest)
      BY <3>1
    <3> QED
      BY <1>2, <3>1, <3>2, <3>3
  <2>6. \A j \in 1..Len(part) : j \in 1..n \/ j = n + 1
    BY <1>1, <2>5
  <2> HIDE DEF part
  <2>7. n < Len(new) /\ n <= Len(part) /\ Len(part) <= Len(new)
    BY <1>1, <2>2, <2>5
  <2>8. ASSUME NEW j \in 1..Len(part)
        PROVE  /\ j <= n => part[j] = new[j]
               /\ j > n => j = n + 1 /\ n < Len(new)
               /\ part[j].type = new[j].type /\ part[j].interface = new[j].interface
    <3>1. CASE j \in 1..n
      BY <1>1, <1>2, <2>5, <3>1
    <3>2. CASE j = n + 1
      BY <1>1, <2>4, <2>5, <2>7, <3>2 DEF b
    <3> QED
      BY <2>6, <3>1, <3>2
  <2> QED
    BY <2>5, <2>7, <2>8 DEF part, first
<1> QED
  BY <1>4, <1>5

\* A beginning of new blocks, as far as the disk takes them, keeps the order of
\* interfaces and packets.
LEMMA AnnouncedConcat ==
  ASSUME NEW old \in Seq(Block), Announced(old), NEW new \in Seq(Block), NEW part \in Seq(Block),
         Follow(new, Cardinality(Interfaces(old, Len(old)))), Len(part) <= Len(new),
         \A k \in 1..Len(part) :
            part[k].type = new[k].type /\ part[k].interface = new[k].interface
  PROVE  Announced(old \o part)
<1> DEFINE L == Len(old)
           n == Len(part)
           all == old \o part
<1>1. L \in Nat /\ Len(new) \in Nat /\ n \in Nat /\ n <= Len(new)
  OBVIOUS
<1>2. \A k \in 1..n : part[k].type = new[k].type /\ part[k].interface = new[k].interface
  OBVIOUS
<1>3. /\ Len(all) = L + n
      /\ \A i \in 1..L : all[i] = old[i]
      /\ \A k \in 1..n : all[L + k] = part[k]
  BY <1>1
<1>4. ASSUME NEW i \in 1..L, all[i].type = "packet"
      PROVE  all[i].interface < Cardinality(Interfaces(all, i - 1))
  <2>1. Interfaces(all, i - 1) = Interfaces(old, i - 1)
    <3>1. \A j \in 1..(i - 1) : j \in 1..L
      BY <1>1
    <3> HIDE DEF all
    <3> QED
      BY <1>3, <3>1 DEF Interfaces
  <2> HIDE DEF all
  <2> QED
    BY <1>3, <1>4, <2>1 DEF Announced
<1>5. ASSUME NEW k \in 1..n, all[L + k].type = "packet"
      PROVE  all[L + k].interface < Cardinality(Interfaces(all, L + k - 1))
  <2>1. k - 1 \in 0..Len(part) /\ L + (k - 1) = L + k - 1 /\ k \in 1..Len(new)
    BY <1>1
  <2>2. Cardinality(Interfaces(all, L + (k - 1)))
          = Cardinality(Interfaces(old, L)) + Cardinality(Interfaces(part, k - 1))
    BY <2>1, CountConcat
  <2>3. Interfaces(part, k - 1) = Interfaces(new, k - 1)
    <3>1. \A j \in 1..(k - 1) : j \in 1..n
      BY <1>1
    <3> QED
      BY <1>2, <3>1 DEF Interfaces
  <2>4. all[L + k].type = new[k].type /\ all[L + k].interface = new[k].interface
    BY <1>2, <1>3
  <2>5. new[k].interface < Cardinality(Interfaces(old, L)) + Cardinality(Interfaces(new, k - 1))
    BY <1>5, <2>1, <2>4 DEF Follow
  <2> QED
    BY <2>1, <2>2, <2>3, <2>4, <2>5
<1> HIDE DEF all
<1>6. ASSUME NEW i \in 1..Len(all), all[i].type = "packet"
      PROVE  all[i].interface < Cardinality(Interfaces(all, i - 1))
  <2>1. CASE i \in 1..L
    BY <1>4, <1>6, <2>1
  <2>2. CASE i \notin 1..L
    <3>1. i - L \in 1..n /\ L + (i - L) = i
      BY <1>1, <1>3, <2>2
    <3>2. PICK k \in 1..n : L + k = i
      BY <3>1
    <3>3. all[L + k].type = "packet"
      BY <1>6, <3>2
    <3>4. all[L + k].interface < Cardinality(Interfaces(all, L + k - 1))
      BY <1>5, <3>3
    <3>5. L + k - 1 = i - 1
      BY <1>1, <3>2
    <3> QED
      BY <3>2, <3>4, <3>5
  <2> QED
    BY <2>1, <2>2
<1>7. Announced(all)
  BY <1>6 DEF Announced
<1> QED
  BY <1>7 DEF all

\* A write of blocks that may follow those written so far.
LEMMA WrittenKeeps ==
  ASSUME WriterOK, NEW new, ~ ng.failed => Follow(new, ng.interfaces),
         new \in Seq(GoodBlock), Written(new)
  PROVE  WriterOK'
<1> DEFINE old == ng.blocks
           added == {i \in DOMAIN new : new[i].type = "interface"}
<1>1. PICK n \in 0..Len(new) :
        \E rest \in IF n = Len(new) THEN {<<>>} ELSE Leaves(new[n + 1]) :
            /\ ng.failed => n = 0 /\ rest = <<>>
            /\ ng' = [ng EXCEPT !.state = "open",
                                !.blocks = @ \o (SubSeq(new, 1, n) \o rest),
                                !.interfaces = @ + Cardinality(added),
                                !.failed = @ \/ n < Len(new)]
  BY Zenon DEF Written
<1>2. PICK rest \in IF n = Len(new) THEN {<<>>} ELSE Leaves(new[n + 1]) :
        /\ ng.failed => n = 0 /\ rest = <<>>
        /\ ng' = [ng EXCEPT !.state = "open",
                            !.blocks = @ \o (SubSeq(new, 1, n) \o rest),
                            !.interfaces = @ + Cardinality(added),
                            !.failed = @ \/ n < Len(new)]
  BY <1>1, Zenon
<1>3. added = Interfaces(new, Len(new)) /\ Len(new) \in Nat /\ n \in Nat
  BY DEF Interfaces
<1>4. Cardinality(added) \in Nat
  <2> HIDE DEF added
  <2> QED
    BY <1>3, InterfacesCount
<1> DEFINE count == Cardinality(added)
           part == SubSeq(new, 1, n) \o rest
           all == old \o part
           fails == ng.failed \/ n < Len(new)
<1>5. /\ ng \in Writers
      /\ \A i \in 1..Len(old) : old[i] \in GoodBlock \/ (ng.failed /\ i = Len(old))
      /\ Announced(old)
      /\ ~ ng.failed => ng.interfaces = Cardinality(Interfaces(old, Len(old)))
  BY DEF WriterOK
<1>6. /\ part \in Seq(Block)
      /\ n <= Len(part) /\ Len(part) <= Len(new)
      /\ \A k \in 1..Len(part) :
           /\ k <= n => part[k] = new[k]
           /\ k > n => k = n + 1 /\ n < Len(new)
           /\ part[k].type = new[k].type /\ part[k].interface = new[k].interface
  BY PartReached
<1>7. ng.failed => part = <<>>
  <2>1. n = 0 /\ rest = <<>> => SubSeq(new, 1, n) \o rest = <<>>
    <3>1. SubSeq(new, 1, 0) = <<>>
      OBVIOUS
    <3> QED
      BY <3>1
  <2> QED
    BY <1>2, <2>1
<1>8. n = Len(new) => part = new
  <2> SUFFICES ASSUME n = Len(new) PROVE part = new
    OBVIOUS
  <2>1. rest = <<>> /\ SubSeq(new, 1, n) = new
    BY <1>3
  <2> QED
    BY <2>1
<1>9. new \in Seq(Block)
  <2>1. \A k \in 1..Len(new) : new[k] \in Block
    BY DEF GoodBlock
  <2> QED
    BY <2>1
<1> HIDE DEF part, added
<1>10. all \in Seq(Block) /\ old \in Seq(Block)
  BY <1>5, <1>6 DEF Writers
<1>11. /\ ng'.blocks = all /\ ng'.interfaces = ng.interfaces + count
       /\ ng'.failed = fails
       /\ ng' \in Writers
  <2>1. count \in Nat
    BY <1>4
  <2> DEFINE total == ng.interfaces + count
  <2> HIDE DEF all, count, fails
  <2>2. ng' = [ng EXCEPT !.state = "open", !.blocks = all,
                         !.interfaces = total, !.failed = fails]
    BY <1>2 DEF all, count, fails, part
  <2>3. total \in Nat
    BY <1>5, <2>1 DEF Writers
  <2>4. fails \in BOOLEAN
    BY Zenon DEF fails
  <2> HIDE DEF total
  <2> QED
    BY <1>5, <1>10, <2>2, <2>3, <2>4 DEF total, Writers
<1>12. Announced(all)
  <2>1. CASE ng.failed
    <3>1. all = old
      BY <1>7, <1>10, <2>1
    <3> QED
      BY <1>5, <3>1
  <2>2. CASE ~ ng.failed
    <3>1. Follow(new, Cardinality(Interfaces(old, Len(old))))
      BY <1>5, <2>2
    <3> QED
      BY <1>5, <1>6, <1>9, <1>10, <3>1, AnnouncedConcat
  <2> QED
    BY <2>1, <2>2
<1>13. ASSUME NEW i \in 1..Len(all) PROVE all[i] \in GoodBlock \/ (ng'.failed /\ i = Len(all))
  <2>1. CASE ng.failed
    <3>1. all = old /\ fails
      BY <1>7, <1>10, <2>1
    <3> QED
      BY <1>5, <1>11, <1>13, <3>1
  <2>2. CASE ~ ng.failed
    <3>1. /\ Len(all) = Len(old) + Len(part) /\ Len(old) \in Nat /\ Len(part) \in Nat
          /\ \A j \in 1..Len(old) : all[j] = old[j]
          /\ \A k \in 1..Len(part) : all[Len(old) + k] = part[k]
      BY <1>6, <1>10
    <3> HIDE DEF all, old
    <3>2. CASE i \in 1..Len(old)
      BY <1>5, <2>2, <3>1, <3>2
    <3>3. CASE i \notin 1..Len(old)
      <4>1. i - Len(old) \in 1..Len(part) /\ Len(old) + (i - Len(old)) = i
        BY <1>13, <3>1, <3>3
      <4>2. PICK k \in 1..Len(part) : i = Len(old) + k
        BY <4>1
      <4>3. CASE k <= n
        <5>1. all[i] = new[k] /\ k \in 1..Len(new)
          BY <1>3, <1>6, <3>1, <4>2, <4>3
        <5> QED
          BY <5>1
      <4>4. CASE k > n
        <5>1. k = n + 1 /\ n < Len(new)
          BY <1>6, <4>4
        <5>2. k = Len(part) /\ i = Len(all)
          <6> DEFINE lp == Len(part)
                     lo == Len(old)
                     la == Len(all)
          <6>1. /\ lp \in Nat /\ lo \in Nat /\ la = lo + lp
                /\ k \in 1..lp /\ i = lo + k
                /\ \A j \in 1..lp : j > n => j = n + 1
            BY <1>6, <3>1, <4>2
          <6> HIDE DEF lp, lo, la
          <6>2. lp \in 1..lp /\ lp >= n + 1
            BY <1>3, <5>1, <6>1
          <6>3. lp = n + 1
            BY <1>3, <6>1, <6>2
          <6>4. k = lp /\ i = la
            BY <5>1, <6>1, <6>3
          <6> QED
            BY <6>4 DEF lp, la
        <5>3. fails
          BY <5>1
        <5> QED
          BY <1>11, <5>2, <5>3
      <4> QED
        BY <1>3, <4>3, <4>4
    <3> QED
      BY <3>2, <3>3
  <2> QED
    BY <2>1, <2>2
<1>14. ASSUME ~ ng'.failed PROVE ng'.interfaces = Cardinality(Interfaces(all, Len(all)))
  <2>5. ~ ng.failed /\ ~ (n < Len(new))
    BY <1>11, <1>14, Zenon
  <2>1. ~ ng.failed /\ n = Len(new)
    BY <1>3, <2>5
  <2>2. all = old \o new /\ Len(all) = Len(old) + Len(new)
    <3> HIDE DEF old
    <3> QED
      BY <1>8, <1>9, <1>10, <2>1
  <2>3. Len(new) \in 0..Len(new)
    BY <1>3
  <2>4. Cardinality(Interfaces(all, Len(all)))
          = Cardinality(Interfaces(old, Len(old))) + Cardinality(Interfaces(new, Len(new)))
    <3> HIDE DEF all, old
    <3> QED
      BY <1>9, <1>10, <2>2, <2>3, CountConcat
  <2> QED
    BY <1>3, <1>5, <1>11, <2>1, <2>4
<1> HIDE DEF all
<1> QED
  BY <1>11, <1>12, <1>13, <1>14 DEF WriterOK

\* The lengths that write_section_header, write_interface_block and
\* write_statistics declare are those they write.
LEMMA HeadersGood ==
  ASSUME NEW opts \in Seq(Nat), NEW id \in Nat
  PROVE  /\ SectionBlock(opts) \in GoodBlock
         /\ InterfaceBlock(opts) \in GoodBlock
         /\ StatisticsBlock(id) \in GoodBlock
<1> DEFINE o == OptionBytes(opts)
           u == OptionBytes(<<8, 8>>)
<1>1. o \in Nat /\ o % 4 = 0
  BY OptionsAreWords
<1>2. u \in Nat /\ u % 4 = 0
  <2>1. <<8, 8>> \in Seq(Nat)
    OBVIOUS
  <2> QED
    BY <2>1, OptionsAreWords
<1>3. SectionBlock(opts) \in GoodBlock
  <2>1. SectionBlock(opts) = [type |-> "section", declared |-> 24 + o + 4,
                                 written |-> 4 + 4 + 4 + 2 + 2 + 8 + o + 4, interface |-> 0]
    BY DEF SectionBlock
  <2> HIDE DEF o
  <2> QED
    BY <1>1, <2>1 DEF GoodBlock, Block
<1>4. InterfaceBlock(opts) \in GoodBlock
  <2>1. InterfaceBlock(opts) = [type |-> "interface", declared |-> 16 + o + 4,
                                   written |-> 4 + 4 + 2 + 2 + 4 + o + 4, interface |-> 0]
    BY DEF InterfaceBlock
  <2> HIDE DEF o
  <2> QED
    BY <1>1, <2>1 DEF GoodBlock, Block
<1>5. StatisticsBlock(id) \in GoodBlock
  <2>1. StatisticsBlock(id) = [type |-> "statistics", declared |-> 20 + u + 4,
                               written |-> 5 * 4 + u + 4, interface |-> id]
    BY DEF StatisticsBlock
  <2> HIDE DEF u
  <2> QED
    BY <1>2, <2>1 DEF GoodBlock, Block
<1> QED
  BY <1>3, <1>4, <1>5

\* The length that write_enhanced_packet_block declares is the one it writes.
LEMMA PacketsGood ==
  ASSUME NEW opts \in Seq(Nat), NEW id \in Nat, NEW p \in AnyPacket
  PROVE  PacketBlock(p, id, opts) \in GoodBlock
<1> DEFINE o == OptionBytes(opts)
           c == Smaller(p.size, DefaultSnaplen)
           d == Padding(c)
<1>1. o \in Nat /\ o % 4 = 0
  BY OptionsAreWords
<1>2. c \in Nat
  BY DEF Smaller, DefaultSnaplen, AnyPacket
<1>3. d \in Nat /\ (c + d) % 4 = 0
  <2> HIDE DEF c
  <2> QED
    BY <1>2, PaddedToWords
<1>4. PacketBlock(p, id, opts) = [type |-> "packet", declared |-> 28 + c + d + o + 4,
                                     written |-> 7 * 4 + c + d + o + 4, interface |-> id]
  BY DEF PacketBlock
<1> HIDE DEF c, d, o
<1>5. /\ 28 + c + d + o + 4 \in Nat /\ 28 + c + d + o + 4 > 1
      /\ 28 + c + d + o + 4 = 7 * 4 + c + d + o + 4
      /\ 7 * 4 + c + d + o + 4 <= 28 + c + d + o + 4
      /\ (28 + c + d + o + 4) % 4 = 0
  BY <1>1, <1>2, <1>3
<1> QED
  BY <1>4, <1>5 DEF GoodBlock, Block

LEMMA BlockTypes ==
  ASSUME NEW opts, NEW id, NEW p
  PROVE  /\ SectionBlock(opts).type = "section"
         /\ InterfaceBlock(opts).type = "interface"
         /\ StatisticsBlock(id).type = "statistics"
         /\ PacketBlock(p, id, opts).interface = id
  BY DEF SectionBlock, InterfaceBlock, StatisticsBlock, PacketBlock

LEMMA LengthLists ==
  /\ <<>> \in Seq(Nat) /\ <<5>> \in Seq(Nat) /\ <<11, 11>> \in Seq(Nat)
  /\ <<4, 1>> \in Seq(Nat) /\ <<7, 1>> \in Seq(Nat)
  OBVIOUS

\* A block that no interface has to precede, or whose interface is there.
LEMMA OneFollows ==
  ASSUME NEW b \in GoodBlock, NEW count \in Nat,
         b.type = "packet" => b.interface < count
  PROVE  <<b>> \in Seq(GoodBlock) /\ Follow(<<b>>, count)
<1>1. <<b>> \in Seq(GoodBlock) /\ Len(<<b>>) = 1 /\ <<b>>[1] = b
  OBVIOUS
<1> DEFINE new == <<b>>
<1> HIDE DEF new
<1>2. Interfaces(new, 0) = {} /\ Cardinality({}) = 0
  BY FS_EmptySet DEF Interfaces
<1>3. ASSUME NEW k \in 1..Len(new), new[k].type = "packet"
      PROVE  new[k].interface < count + Cardinality(Interfaces(new, k - 1))
  <2>1. k = 1 /\ k - 1 = 0 /\ new[k] = b
    BY <1>1 DEF new
  <2>2. Cardinality(Interfaces(new, k - 1)) = 0
    BY <1>2, <2>1
  <2>3. b.interface < count
    BY <1>3, <2>1
  <2> QED
    BY <2>1, <2>2, <2>3
<1> QED
  BY <1>1, <1>3 DEF Follow, new

\* Packets behind a block of an interface, which is the first in the file, or
\* behind those in the file.
LEMMA PacketsFollow ==
  ASSUME NEW count \in Nat, NEW new \in Seq(GoodBlock),
         count = 0 => new = <<>> \/ new[1].type = "interface",
         \A k \in 1..Len(new) :
            new[k].type = "packet" =>
               new[k].interface < IF count = 0 THEN 1 ELSE count
  PROVE  Follow(new, count)
<1>1. ASSUME NEW k \in 1..Len(new), new[k].type = "packet"
      PROVE  new[k].interface < count + Cardinality(Interfaces(new, k - 1))
  <2>0. new[k].interface \in Nat
    BY DEF GoodBlock, Block
  <2>1. /\ k \in Nat /\ Cardinality(Interfaces(new, k - 1)) \in Nat
        /\ IsFiniteSet(Interfaces(new, k - 1))
    BY InterfacesCount
  <2>2. CASE count = 0
    <3>1. k # 1
      BY <1>1, <2>2
    <3>2. 1 \in Interfaces(new, k - 1)
      BY <1>1, <2>2, <3>1 DEF Interfaces
    <3>3. Cardinality(Interfaces(new, k - 1)) # 0
      BY <2>1, <3>2, FS_EmptySet
    <3> QED
      BY <1>1, <2>0, <2>1, <2>2, <3>3
  <2>3. CASE count # 0
    BY <1>1, <2>0, <2>1, <2>3
  <2> QED
    BY <2>2, <2>3
<1> QED
  BY <1>1 DEF Follow

LEMMA ShortSequences ==
  ASSUME NEW a, NEW b
  PROVE  /\ <<a>> \o <<b>> = <<a, b>> /\ <<>> \o <<b>> = <<b>>
         /\ SubSeq(<<a, b>>, 1, 1) = <<a>> /\ SubSeq(<<a>>, 1, 0) = <<>>
<1> DEFINE s == <<a>>
           t == <<b>>
           st == <<a, b>>
           S == {a, b}
<1>1. s \in Seq(S) /\ t \in Seq(S) /\ st \in Seq(S) /\ <<>> \in Seq(S)
  OBVIOUS
<1>2. Len(s) = 1 /\ Len(t) = 1 /\ Len(st) = 2 /\ s[1] = a /\ t[1] = b /\ st[1] = a /\ st[2] = b
  OBVIOUS
<1> HIDE DEF s, t, st, S
<1>3. s \o t = st
  <2>1. s \o t \in Seq(S) /\ Len(s \o t) = 2 /\ (s \o t)[1] = a /\ (s \o t)[2] = b
    <3>1. /\ s \o t \in Seq(S)
          /\ Len(s \o t) = Len(s) + Len(t)
          /\ \A i \in 1 .. Len(s) + Len(t) : (s \o t)[i] = IF i <= Len(s) THEN s[i] ELSE t[i - Len(s)]
      BY <1>1, ConcatProperties
    <3>2. 1 \in 1 .. 2 /\ 2 \in 1 .. 2 /\ 2 - 1 = 1 /\ 1 + 1 = 2
      OBVIOUS
    <3> QED
      BY <1>2, <3>1, <3>2
  <2>2. \A i \in 1..Len(s \o t) : i = 1 \/ i = 2
    BY <2>1
  <2>3. \A i \in 1..Len(s \o t) : (s \o t)[i] = st[i]
    BY <1>2, <2>1, <2>2
  <2> QED
    BY <1>1, <1>2, <2>1, <2>3, SeqEqual
<1>4. SubSeq(st, 1, 1) = s
  <2>1. SubSeq(st, 1, 1) \in Seq(S) /\ Len(SubSeq(st, 1, 1)) = 1 /\ SubSeq(st, 1, 1)[1] = a
    BY <1>1, <1>2
  <2>2. \A i \in 1..Len(SubSeq(st, 1, 1)) : SubSeq(st, 1, 1)[i] = s[i]
    <3>1. \A i \in 1..Len(SubSeq(st, 1, 1)) : i = 1
      BY <2>1
    <3> QED
      BY <1>2, <2>1, <3>1
  <2> QED
    BY <1>1, <1>2, <2>1, <2>2, SeqEqual
<1>5. SubSeq(s, 1, 0) = <<>>
  <2>1. SubSeq(s, 1, 0) \in Seq(S) /\ Len(SubSeq(s, 1, 0)) = 0
    BY <1>1, <1>2
  <2> QED
    BY <2>1, EmptySeq
<1>6. <<>> \o t = t
  BY <1>1
<1> QED
  BY <1>3, <1>4, <1>5, <1>6 DEF s, t, st

\* write_enhanced_packet_block, with its default interface or without.
LEMMA BlocksOfPacketIs ==
  ASSUME NEW q, NEW id, NEW comment
  PROVE  BlocksOfPacket(q, id, comment)
           = IF ng.interfaces = 0 THEN <<InterfaceBlock(<<7, 1>>), PacketBlock(q, id, comment)>>
             ELSE <<PacketBlock(q, id, comment)>>
<1> DEFINE I == InterfaceBlock(<<7, 1>>)
           P == PacketBlock(q, id, comment)
<1> HIDE DEF I, P
<1>1. <<I>> \o <<P>> = <<I, P>>
  BY ShortSequences
<1>2. <<>> \o <<P>> = <<P>>
  BY ShortSequences
<1>3. BlocksOfPacket(q, id, comment) = (IF ng.interfaces = 0 THEN <<I>> ELSE <<>>) \o <<P>>
  BY DEF BlocksOfPacket, I, P
<1> QED
  BY <1>1, <1>2, <1>3 DEF I, P

LEMMA TwoFollow ==
  ASSUME NEW I \in GoodBlock, NEW P \in GoodBlock, I.type = "interface", P.interface < 1
  PROVE  <<I, P>> \in Seq(GoodBlock) /\ Follow(<<I, P>>, 0)
<1> DEFINE new == <<I, P>>
<1>1. new \in Seq(GoodBlock) /\ Len(new) = 2 /\ new[1] = I /\ new[2] = P
  OBVIOUS
<1> HIDE DEF new
<1>2. \A k \in 1..Len(new) :
            new[k].type = "packet" =>
               new[k].interface < IF 0 = 0 THEN 1 ELSE 0
  <2>1. \A k \in 1..Len(new) : k = 1 \/ k = 2
    BY <1>1
  <2> QED
    BY <1>1, <2>1
<1>3. Follow(new, 0)
  BY <1>1, <1>2, PacketsFollow
<1> QED
  BY <1>1, <1>3 DEF new

LEMMA NothingFollows ==
  ASSUME NEW count
  PROVE  <<>> \in Seq(GoodBlock) /\ Follow(<<>>, count)
  BY DEF Follow

LEMMA WriterInit == RecordingInit => WriterOK
<1> SUFFICES ASSUME RecordingInit PROVE WriterOK
  OBVIOUS
<1>1. ng = NoWriter
  BY DEF RecordingInit
<1>2. NoWriter = [state |-> "none", blocks |-> <<>>, interfaces |-> 0, failed |-> FALSE]
  BY DEF NoWriter
<1>3. Interfaces(<<>>, 0) = {} /\ Cardinality({}) = 0 /\ Len(<<>>) = 0
  BY FS_EmptySet DEF Interfaces
<1>4. Announced(<<>>)
  BY DEF Announced
<1>5. ng \in Writers
  BY <1>1, <1>2 DEF Writers
<1>6. ng.blocks = <<>> /\ ng.interfaces = 0
  BY <1>1, <1>2
<1> QED
  BY <1>3, <1>4, <1>5, <1>6 DEF WriterOK

LEMMA EmptyWriter == ASSUME ng' = NoWriter PROVE WriterOK'
<1>1. ng' = [state |-> "none", blocks |-> <<>>, interfaces |-> 0, failed |-> FALSE]
  BY DEF NoWriter
<1>2. Interfaces(<<>>, 0) = {} /\ Cardinality({}) = 0 /\ Len(<<>>) = 0
  BY FS_EmptySet DEF Interfaces
<1>3. Announced(<<>>)
  BY DEF Announced
<1>4. ng' \in Writers
  BY <1>1 DEF Writers
<1>5. ng'.blocks = <<>> /\ ng'.interfaces = 0
  BY <1>1
<1> QED
  BY <1>2, <1>3, <1>4, <1>5 DEF WriterOK

LEMMA WriterPacket == WriterOK /\ WritePacketBlock => WriterOK'
<1> SUFFICES ASSUME WriterOK, WritePacketBlock PROVE WriterOK'
  OBVIOUS
<1> DEFINE count == ng.interfaces
           I == InterfaceBlock(<<7, 1>>)
<1>1. PICK q \in Deliverable, id \in 0..2, comment \in {<<>>, <<5>>} :
        LET blocks == BlocksOfPacket(q, id, comment)
            known == id < ng.interfaces + Len(blocks) - 1
        IN Written(IF known THEN blocks ELSE SubSeq(blocks, 1, Len(blocks) - 1))
  BY Zenon DEF WritePacketBlock
<1> DEFINE P == PacketBlock(q, id, comment)
           blocks == BlocksOfPacket(q, id, comment)
<1>2. count \in Nat
  BY DEF WriterOK, Writers
<1>3. q \in AnyPacket /\ id \in Nat /\ comment \in Seq(Nat)
  <2>1. q \in AnyPacket
    BY PacketsKnown
  <2>2. id \in Nat
    OBVIOUS
  <2>3. comment = <<>> \/ comment = <<5>>
    BY Zenon
  <2> QED
    BY <2>1, <2>2, <2>3, LengthLists
<1>4. I \in GoodBlock /\ I.type = "interface"
  BY LengthLists, HeadersGood, BlockTypes, 0 \in Nat
<1>5. P \in GoodBlock /\ P.interface = id
  BY <1>3, PacketsGood, BlockTypes
<1>6. blocks = IF count = 0 THEN <<I, P>> ELSE <<P>>
  BY BlocksOfPacketIs
<1>7. Written(IF id < count + Len(blocks) - 1 THEN blocks ELSE SubSeq(blocks, 1, Len(blocks) - 1))
  BY <1>1
<1> HIDE DEF I, P, blocks, count
<1>8. Len(<<I, P>>) = 2 /\ SubSeq(<<I, P>>, 1, 1) = <<I>> /\ Len(<<P>>) = 1 /\ SubSeq(<<P>>, 1, 0) = <<>>
  BY ShortSequences
<1>9. ASSUME NEW new, new \in Seq(GoodBlock), Follow(new, count), Written(new)
      PROVE  WriterOK'
  BY <1>9, WrittenKeeps DEF count
<1>10. CASE count = 0 /\ id < 1
  <2>1. Written(<<I, P>>)
    BY <1>3, <1>6, <1>7, <1>8, <1>10
  <2>2. <<I, P>> \in Seq(GoodBlock) /\ Follow(<<I, P>>, count)
    BY <1>4, <1>5, <1>10, TwoFollow
  <2> QED
    BY <1>9, <2>1, <2>2
<1>11. CASE count = 0 /\ ~ (id < 1)
  <2>1. Written(<<I>>)
    <3>1. blocks = <<I, P>> /\ Len(blocks) = 2
      BY <1>6, <1>8, <1>11
    <3>2. ~ (id < count + Len(blocks) - 1) /\ Len(blocks) - 1 = 1
      BY <1>3, <1>11, <3>1
    <3>3. SubSeq(blocks, 1, Len(blocks) - 1) = <<I>>
      BY <1>8, <3>1, <3>2
    <3> QED
      BY <1>7, <3>2, <3>3, Zenon
  <2>2. <<I>> \in Seq(GoodBlock) /\ Follow(<<I>>, count)
    BY <1>2, <1>4, OneFollows
  <2> QED
    BY <1>9, <2>1, <2>2
<1>12. CASE count # 0 /\ id < count
  <2>1. Written(<<P>>)
    BY <1>2, <1>3, <1>6, <1>7, <1>8, <1>12
  <2>2. <<P>> \in Seq(GoodBlock) /\ Follow(<<P>>, count)
    BY <1>2, <1>5, <1>12, OneFollows
  <2> QED
    BY <1>9, <2>1, <2>2
<1>13. CASE count # 0 /\ ~ (id < count)
  <2>1. Written(<<>>)
    <3>1. blocks = <<P>> /\ Len(blocks) = 1
      BY <1>6, <1>8, <1>13
    <3>2. ~ (id < count + Len(blocks) - 1) /\ Len(blocks) - 1 = 0
      BY <1>2, <1>3, <1>13, <3>1
    <3>3. SubSeq(blocks, 1, Len(blocks) - 1) = <<>>
      BY <1>8, <3>1, <3>2
    <3> QED
      BY <1>7, <3>2, <3>3, Zenon
  <2> QED
    BY <1>9, <2>1, NothingFollows
<1> QED
  BY <1>10, <1>11, <1>12, <1>13

LEMMA WriterCopies == FileOK /\ WriterOK /\ CopyPackets => WriterOK'
<1> SUFFICES ASSUME FileOK, WriterOK, CopyPackets PROVE WriterOK'
  OBVIOUS
<1> DEFINE count == ng.interfaces
           I == InterfaceBlock(<<7, 1>>)
           contents == ReadAll(file)
<1>1. Opens(file)
  BY DEF CopyPackets
<1>2. contents \in Seq(AnyPacket) /\ Len(contents) \in Nat
  BY <1>1, FileReads DEF ReadsAs
<1> HIDE DEF contents
<1>3. PICK max \in 0..Len(contents) :
        LET all == IF max = 0 THEN contents ELSE SubSeq(contents, 1, max)
        IN Written(IF all = <<>> THEN <<>>
                   ELSE BlocksOfPacket(all[1], 0, <<>>)
                        \o [i \in 1..(Len(all) - 1) |-> PacketBlock(all[i + 1], 0, <<>>)])
  BY Zenon DEF CopyPackets, contents
<1> DEFINE all == IF max = 0 THEN contents ELSE SubSeq(contents, 1, max)
           P == PacketBlock(all[1], 0, <<>>)
           rest == [i \in 1..(Len(all) - 1) |-> PacketBlock(all[i + 1], 0, <<>>)]
           new == (IF count = 0 THEN <<I, P>> ELSE <<P>>) \o rest
<1>4. all \in Seq(AnyPacket)
  BY <1>2
<1> HIDE DEF all
<1>5. Written(IF all = <<>> THEN <<>> ELSE new)
  <2>1. BlocksOfPacket(all[1], 0, <<>>) = IF count = 0 THEN <<I, P>> ELSE <<P>>
    BY BlocksOfPacketIs
  <2>2. Written(IF all = <<>> THEN <<>> ELSE BlocksOfPacket(all[1], 0, <<>>) \o rest)
    BY <1>3, Zenon DEF all
  <2> HIDE DEF rest, P, I, count
  <2> QED
    BY <2>1, <2>2
<1>6. count \in Nat
  BY DEF WriterOK, Writers
<1>7. ASSUME NEW bs, bs \in Seq(GoodBlock), Follow(bs, count), Written(bs)
      PROVE  WriterOK'
  BY <1>7, WrittenKeeps
<1>8. CASE all = <<>>
  <2>1. Written(<<>>)
    BY <1>5, <1>8, Zenon
  <2> QED
    BY <1>7, <2>1, NothingFollows
<1>9. CASE all # <<>>
  <2>1. Written(new)
    BY <1>5, <1>9, Zenon
  <2>2. I \in GoodBlock /\ I.type = "interface"
    BY LengthLists, HeadersGood, BlockTypes, 0 \in Nat
  <2>3. ASSUME NEW i \in 1..Len(all) PROVE PacketBlock(all[i], 0, <<>>) \in GoodBlock /\ PacketBlock(all[i], 0, <<>>).interface = 0
    <3>1. all[i] \in AnyPacket
      BY <1>4
    <3> QED
      BY <3>1, LengthLists, PacketsGood, BlockTypes, 0 \in Nat
  <2>4. Len(all) \in Nat /\ Len(all) >= 1
    BY <1>4, <1>9
  <2>5. P \in GoodBlock /\ P.interface = 0
    BY <2>3, <2>4
  <2>6. /\ rest \in Seq(GoodBlock)
        /\ \A k \in 1..Len(rest) : rest[k].interface = 0
    <3>1. Len(all) - 1 \in Nat
      BY <2>4
    <3>2. \A i \in 1..(Len(all) - 1) : i + 1 \in 1..Len(all)
      BY <2>4
    <3>3. \A i \in 1..(Len(all) - 1) : PacketBlock(all[i + 1], 0, <<>>) \in GoodBlock
      BY <2>3, <3>2
    <3>4. rest \in [1..(Len(all) - 1) -> GoodBlock]
      BY <3>3
    <3>5. rest \in Seq(GoodBlock) /\ Len(rest) = Len(all) - 1
      <4> HIDE DEF rest
      <4> QED
        BY <3>1, <3>4
    <3>6. \A i \in 1..(Len(all) - 1) : rest[i].interface = 0
      BY <2>3, <3>2
    <3> QED
      BY <3>5, <3>6
  <2> HIDE DEF I, P, rest
  <2>7. CASE count = 0
    <3>1. new = <<I, P>> \o rest
      BY <2>7
    <3>2. /\ new \in Seq(GoodBlock) /\ new[1] = I
          /\ \A k \in 1..Len(new) : new[k] = I \/ new[k].interface = 0
      <4>1. <<I, P>> \in Seq(GoodBlock) /\ Len(<<I, P>>) = 2 /\ <<I, P>>[1] = I /\ <<I, P>>[2] = P
        BY <2>2, <2>5
      <4> DEFINE h == <<I, P>>
      <4>2. /\ h \o rest \in Seq(GoodBlock) /\ Len(h \o rest) = 2 + Len(rest)
            /\ (h \o rest)[1] = I /\ (h \o rest)[2] = P
            /\ \A k \in 1..Len(rest) : (h \o rest)[2 + k] = rest[k]
        <5> HIDE DEF h
        <5> QED
          BY <2>6, <4>1 DEF h
      <4>3. ASSUME NEW k \in 1..(2 + Len(rest)) PROVE k = 1 \/ k = 2 \/ \E j \in 1..Len(rest) : k = 2 + j
        <5>1. Len(rest) \in Nat
          BY <2>6
        <5>2. k > 2 => k - 2 \in 1..Len(rest) /\ k = 2 + (k - 2)
          BY <5>1
        <5> QED
          BY <5>2
      <4> HIDE DEF new, h
      <4> QED
        BY <2>5, <2>6, <3>1, <4>2, <4>3 DEF h
    <3>3. Follow(new, 0)
      <4>1. \A k \in 1..Len(new) : new[k].type = "packet" =>
               new[k].interface < IF 0 = 0 THEN 1 ELSE 0
        <5>1. \A k \in 1..Len(new) : new[k] = I \/ new[k].interface = 0
          BY <3>2
        <5>2. I.type # "packet"
          BY <2>2
        <5> HIDE DEF new
        <5> QED
          BY <5>1, <5>2
      <4> HIDE DEF new
      <4> QED
        BY <2>2, <3>2, <4>1, PacketsFollow
    <3> QED
      BY <1>7, <2>1, <2>7, <3>2, <3>3
  <2>8. CASE count # 0
    <3>1. new = <<P>> \o rest
      BY <2>8
    <3>2. /\ new \in Seq(GoodBlock)
          /\ \A k \in 1..Len(new) : new[k].interface = 0
      <4>1. <<P>> \in Seq(GoodBlock) /\ Len(<<P>>) = 1 /\ <<P>>[1] = P
        BY <2>5
      <4> DEFINE h == <<P>>
      <4>2. /\ h \o rest \in Seq(GoodBlock) /\ Len(h \o rest) = 1 + Len(rest)
            /\ (h \o rest)[1] = P
            /\ \A k \in 1..Len(rest) : (h \o rest)[1 + k] = rest[k]
        <5> HIDE DEF h
        <5> QED
          BY <2>6, <4>1 DEF h
      <4>3. ASSUME NEW k \in 1..(1 + Len(rest)) PROVE k = 1 \/ \E j \in 1..Len(rest) : k = 1 + j
        <5>1. Len(rest) \in Nat
          BY <2>6
        <5>2. k > 1 => k - 1 \in 1..Len(rest) /\ k = 1 + (k - 1)
          BY <5>1
        <5> QED
          BY <5>2
      <4> HIDE DEF new, h
      <4> QED
        BY <2>5, <2>6, <3>1, <4>2, <4>3 DEF h
    <3> HIDE DEF new, count
    <3>3. Follow(new, count)
      <4>1. \A k \in 1..Len(new) : new[k].type = "packet" =>
               new[k].interface < IF count = 0 THEN 1 ELSE count
        BY <1>6, <2>8, <3>2
      <4> QED
        BY <1>6, <2>8, <3>2, <4>1, PacketsFollow
    <3> QED
      BY <1>7, <2>1, <3>2, <3>3
  <2> QED
    BY <2>7, <2>8
<1> QED
  BY <1>8, <1>9

LEMMA WriterStep == FileOK /\ WriterOK /\ [RecordingNext]_recordingVars => WriterOK'
<1> SUFFICES ASSUME FileOK, WriterOK, [RecordingNext]_recordingVars PROVE WriterOK'
  OBVIOUS
<1>1. ASSUME UNCHANGED ng PROVE WriterOK'
  BY <1>1 DEF WriterOK, Announced
<1>2. ng.interfaces \in Nat
  BY DEF WriterOK, Writers
<1>3. ASSUME NEW b \in GoodBlock, Written(<<b>>),
             b.type = "packet" => b.interface < ng.interfaces
      PROVE  WriterOK'
  <2>1. <<b>> \in Seq(GoodBlock) /\ Follow(<<b>>, ng.interfaces)
    BY <1>2, <1>3, OneFollows
  <2> QED
    BY <1>3, <2>1, WrittenKeeps
<1>4. CASE CreateWriter
  <2>1. Written(<<SectionBlock(<<11, 11>>)>>)
    BY <1>4 DEF CreateWriter
  <2>2. SectionBlock(<<11, 11>>) \in GoodBlock /\ SectionBlock(<<11, 11>>).type = "section"
    BY LengthLists, HeadersGood, BlockTypes, 0 \in Nat
  <2> QED
    BY <1>3, <2>1, <2>2
<1>5. CASE AddInterface
  <2>1. Written(<<InterfaceBlock(<<4, 1>>)>>)
    BY <1>5 DEF AddInterface
  <2>2. InterfaceBlock(<<4, 1>>) \in GoodBlock /\ InterfaceBlock(<<4, 1>>).type = "interface"
    BY LengthLists, HeadersGood, BlockTypes, 0 \in Nat
  <2> QED
    BY <1>3, <2>1, <2>2
<1>6. CASE WritePacketBlock
  BY <1>6, WriterPacket
<1>7. CASE WriteStatistics
  <2>1. PICK id \in 0..2 : Written(<<StatisticsBlock(id)>>)
    BY <1>7 DEF WriteStatistics
  <2>2. id \in Nat
    OBVIOUS
  <2>3. StatisticsBlock(id) \in GoodBlock /\ StatisticsBlock(id).type = "statistics"
    BY <2>2, LengthLists, HeadersGood, BlockTypes
  <2> QED
    BY <1>3, <2>1, <2>3
<1>8. CASE CopyPackets
  BY <1>8, WriterCopies
<1>9. CASE TakeUp
  <2>1. ng' = NoWriter
    BY <1>9 DEF TakeUp
  <2> QED
    BY <2>1, EmptyWriter
<1>10. CASE AddRule \/ Reset \/ SaveToPcap \/ LoadFromPcap \/ EmptyStream \/ SetUp \/ TearDown
  BY <1>1, <1>10 DEF AddRule, Reset, SaveToPcap, LoadFromPcap, EmptyStream, SetUp, TearDown
<1>11. CASE BeginCall \/ PacketArrives \/ DeadlinePasses
  BY <1>1, <1>11 DEF BeginCall, PacketArrives, DeadlinePasses
<1>12. CASE CreateReplay \/ RunReplay \/ ReplayPacket \/ PassDone \/ StopReplay
  BY <1>1, <1>12 DEF CreateReplay, RunReplay, ReplayPacket, PassDone, StopReplay
<1>13. CASE UNCHANGED recordingVars
  BY <1>1, <1>13 DEF recordingVars
<1> QED
  BY <1>4, <1>5, <1>6, <1>7, <1>8, <1>9, <1>10, <1>11, <1>12, <1>13 DEF RecordingNext

\* Each block of a PCAPNG file declares whole words and has that length, but
\* for the last where the disk was full, and each packet's comes after that of
\* its interface, for packets of any length (PcapngWriter).
THEOREM BlocksAlwaysWellFormed == RecordingSpec => []BlocksWellFormed
<1>1. WriterOK => BlocksWellFormed
  <2> SUFFICES ASSUME WriterOK, NEW i \in DOMAIN ng.blocks
               PROVE  LET b == ng.blocks[i]
                      IN /\ b.declared % 4 = 0
                         /\ \/ b.written = b.declared
                            \/ b.written < b.declared /\ ng.failed /\ i = Len(ng.blocks)
                         /\ b.type = "packet" => b.interface < InterfacesBefore(i)
    BY DEF BlocksWellFormed
  <2>1. ng.blocks \in Seq(Block) /\ Announced(ng.blocks)
    BY DEF WriterOK, Writers
  <2>2. i \in 1..Len(ng.blocks) /\ ng.blocks[i] \in Block
    BY <2>1
  <2>3. ng.blocks[i] \in GoodBlock \/ (ng.failed /\ i = Len(ng.blocks))
    BY <2>2 DEF WriterOK
  <2>4. /\ ng.blocks[i].declared \in Nat /\ ng.blocks[i].written \in Nat
        /\ ng.blocks[i].declared % 4 = 0 /\ ng.blocks[i].written <= ng.blocks[i].declared
    BY <2>2 DEF Block
  <2>5. \/ ng.blocks[i].written = ng.blocks[i].declared
        \/ ng.blocks[i].written < ng.blocks[i].declared /\ ng.failed /\ i = Len(ng.blocks)
    BY <2>3, <2>4 DEF GoodBlock
  <2>6. ng.blocks[i].type = "packet" => ng.blocks[i].interface < InterfacesBefore(i)
    BY <2>1, <2>2 DEF Announced, Interfaces, InterfacesBefore
  <2> QED
    BY <2>4, <2>5, <2>6
<1>2. RecordingSpec => []WriterOK
  BY FileAlways, WriterInit, WriterStep, PTL DEF RecordingSpec
<1> QED
  BY <1>1, <1>2, PTL

-----------------------------------------------------------------------------
(* OutcomeJustified                                                        *)

LEMMA MatchingCount ==
  ASSUME NEW packets, NEW n \in Nat, NEW kinds
  PROVE  /\ IsFiniteSet(Matching(packets, n, kinds))
         /\ Cardinality(Matching(packets, n, kinds)) \in Nat
<1>1. IsFiniteSet(1..n)
  BY FS_Interval
<1>2. Matching(packets, n, kinds) \subseteq 1..n
  BY DEF Matching
<1>3. IsFiniteSet(Matching(packets, n, kinds))
  BY <1>1, <1>2, FS_Subset
<1> QED
  BY <1>3, FS_CardinalityType

\* One packet more.
LEMMA MatchingAppend ==
  ASSUME NEW packets \in Seq(AnyPacket), NEW p \in AnyPacket, NEW kinds
  PROVE  /\ \A n \in 1..Len(packets) :
              Matching(Append(packets, p), n, kinds) = Matching(packets, n, kinds)
         /\ Cardinality(Matching(Append(packets, p), Len(packets) + 1, kinds))
              = Cardinality(Matching(packets, Len(packets), kinds))
                + (IF p.kind \in kinds THEN 1 ELSE 0)
<1> DEFINE L == Len(packets)
           more == Append(packets, p)
           A == Matching(packets, L, kinds)
           B == Matching(more, L + 1, kinds)
<1>1. L \in Nat /\ more[L + 1] = p /\ \A i \in 1..L : more[i] = packets[i]
  OBVIOUS
<1> HIDE DEF more
<1>2. \A n \in 1..L : Matching(more, n, kinds) = Matching(packets, n, kinds)
  <2> TAKE n \in 1..L
  <2>1. \A i \in 1..n : i \in 1..L
    BY <1>1
  <2> QED
    BY <1>1, <2>1 DEF Matching
<1>3. A \subseteq 1..L
  BY DEF Matching
<1>4. IsFiniteSet(A) /\ Cardinality(A) \in Nat
  BY <1>1, MatchingCount
<1>5. B = IF p.kind \in kinds THEN A \cup {L + 1} ELSE A
  <2>1. \A i : i \in 1..(L + 1) <=> i \in 1..L \/ i = L + 1
    BY <1>1
  <2>2. \A i : i \in B <=> i \in 1..(L + 1) /\ more[i].kind \in kinds
    BY DEF Matching
  <2>3. \A i : i \in A <=> i \in 1..L /\ packets[i].kind \in kinds
    BY DEF Matching
  <2>4. L + 1 \notin 1..L
    BY <1>1
  <2> HIDE DEF A, B, L
  <2>5. \A i : i \in B <=> i \in A \/ (i = L + 1 /\ p.kind \in kinds)
    BY <1>1, <2>1, <2>2, <2>3, <2>4, Zenon
  <2>6. CASE p.kind \in kinds
    BY <2>5, <2>6
  <2>7. CASE p.kind \notin kinds
    BY <2>5, <2>7
  <2> QED
    BY <2>6, <2>7
<1>6. L + 1 \notin A
  BY <1>1, <1>3
<1>7. Cardinality(B) = Cardinality(A) + (IF p.kind \in kinds THEN 1 ELSE 0)
  <2> HIDE DEF A, B, L
  <2>1. CASE p.kind \in kinds
    BY <1>4, <1>5, <1>6, <2>1, FS_AddElement
  <2>2. CASE p.kind \notin kinds
    BY <1>4, <1>5, <2>2
  <2> QED
    BY <2>1, <2>2
<1> QED
  BY <1>2, <1>7 DEF more

\* What a rule asks of a packet does not depend on its mark.
LEMMA HoldsUnmarked ==
  ASSUME NEW rule, NEW other, rule.type = other.type, rule.kinds = other.kinds,
         rule.condition = other.condition, NEW p
  PROVE  Holds(rule, p) <=> Holds(other, p)
  BY DEF Holds

\* What a packet that meets every rule leaves of the rules.
LEMMA CheckedRules ==
  ASSUME NEW rs \in Seq(Rule), NEW p
  PROVE  LET check == CheckPacket(rs, p)
         IN /\ check.rules \in Seq(Rule) /\ Len(check.rules) = Len(rs)
            /\ check.passed <=> \A j \in 1..Len(rs) : Holds(rs[j], p)
            /\ \A j \in 1..Len(rs) :
                 /\ check.rules[j].type = rs[j].type
                 /\ check.rules[j].kinds = rs[j].kinds
                 /\ check.rules[j].condition = rs[j].condition
                 /\ check.rules[j].satisfied => rs[j].satisfied
                                             \/ (rs[j].type = "within" /\ p.kind \in rs[j].kinds)
<1> DEFINE failing == {i \in DOMAIN rs : ~ Holds(rs[i], p)}
           marked(i) == rs[i].type = "within" /\ p.kind \in rs[i].kinds /\ \A j \in failing : i < j
           after == [i \in DOMAIN rs |-> [rs[i] EXCEPT !.satisfied = @ \/ marked(i)]]
<1>1. CheckPacket(rs, p).passed = (failing = {}) /\ CheckPacket(rs, p).rules = after
  BY DEF CheckPacket
<1>2. DOMAIN rs = 1..Len(rs) /\ Len(rs) \in Nat /\ \A j \in 1..Len(rs) : rs[j] \in Rule
  OBVIOUS
<1>3. failing = {} <=> \A j \in 1..Len(rs) : Holds(rs[j], p)
  BY <1>2
<1>4. ASSUME NEW j \in 1..Len(rs)
      PROVE  /\ after[j] \in Rule
             /\ after[j].type = rs[j].type
             /\ after[j].kinds = rs[j].kinds
             /\ after[j].condition = rs[j].condition
             /\ after[j].satisfied => rs[j].satisfied
                                       \/ (rs[j].type = "within" /\ p.kind \in rs[j].kinds)
  <2> DEFINE r == rs[j]
             m == r.satisfied \/ marked(j)
  <2>1. after[j] = [r EXCEPT !.satisfied = m]
    BY <1>2
  <2>2. r \in Rule
    BY <1>2
  <2>3. m \in BOOLEAN /\ (m => r.satisfied \/ (r.type = "within" /\ p.kind \in r.kinds))
    <3>1. m \in BOOLEAN
      <4> HIDE DEF marked
      <4> QED
        BY Zenon
    <3> QED
      BY <3>1
  <2> HIDE DEF m, after, r
  <2>4. /\ after[j] \in Rule
        /\ after[j].type = r.type /\ after[j].kinds = r.kinds /\ after[j].condition = r.condition
        /\ after[j].satisfied = m
    BY <2>1, <2>2, <2>3 DEF Rule
  <2> QED
    BY <2>3, <2>4 DEF r
<1>5. after \in Seq(Rule) /\ Len(after) = Len(rs)
  <2>1. DOMAIN after = 1..Len(rs)
    BY <1>2
  <2>2. after \in [1..Len(rs) -> Rule]
    <3>1. after = [j \in 1..Len(rs) |-> after[j]]
      BY <1>2
    <3> HIDE DEF after
    <3> QED
      BY <1>4, <3>1
  <2> HIDE DEF after
  <2> QED
    BY <1>2, <2>2
<1> HIDE DEF after, failing
<1> QED
  BY <1>1, <1>3, <1>4, <1>5

LEMMA StopsKnown ==
  ASSUME NEW name, NEW stop \in StopConditions(name)
  PROVE  /\ stop \in [kinds : SUBSET Kinds, count : Nat]
         /\ name \in {"run_for", "record_for", "collect_packets"} => stop.kinds = {}
<1>1. CASE name \in {"run_for", "record_for", "collect_packets"}
  <2>1. StopConditions(name) = [kinds : {{}}, count : {1}]
    BY <1>1 DEF StopConditions
  <2> QED
    BY <2>1
<1>2. CASE name = "record_until"
  <2>1. StopConditions(name) = [kinds : {{k} : k \in Kinds}, count : 0..2]
    BY <1>2 DEF StopConditions
  <2>2. stop.kinds \in {{k} : k \in Kinds} /\ stop.count \in 0..2
        /\ stop = [kinds |-> stop.kinds, count |-> stop.count]
    BY <2>1
  <2>3. stop.kinds \in SUBSET Kinds /\ stop.count \in Nat
    BY <2>2
  <2> QED
    BY <1>2, <2>2, <2>3
<1>3. CASE name \notin {"run_for", "record_for", "collect_packets", "record_until"}
  <2>1. StopConditions(name) = [kinds : {{k} : k \in Kinds}, count : {1}]
    BY <1>3 DEF StopConditions
  <2> QED
    BY <1>3, <2>1
<1> QED
  BY <1>1, <1>2, <1>3

\* A call that does not wait, and did not succeed.
LEMMA Quiet ==
  ASSUME call' = NoCall,
         outcome' = NoOutcome \/ outcome'.name \in {"save", "load"} \/ ~ outcome'.result
  PROVE  Waiting' /\ OutcomeJustified'
<1>1. Waiting'
  BY DEF Waiting
<1>2. OutcomeJustified'
  BY DEF OutcomeJustified
<1> QED
  BY <1>1, <1>2

\* What a call that succeeds has to show.
Earned(stop) ==
  /\ tool = "assert" =>
       /\ \A i \in DOMAIN taken, j \in DOMAIN rules : Holds(rules[j], taken[i])
       /\ \A j \in DOMAIN rules :
            rules[j].type = "within" => \E i \in DOMAIN kept : kept[i].kind \in rules[j].kinds
  /\ stop.kinds # {} =>
       /\ taken # <<>>
       /\ Cardinality(Matching(taken, Len(taken), stop.kinds)) >= stop.count
       /\ \A n \in 1..(Len(taken) - 1) : Cardinality(Matching(taken, n, stop.kinds)) < stop.count

LEMMA ReturnJustified ==
  ASSUME NEW result, Return(result), NEW stop, stop = call.stop, result => Earned(stop)',
         tool' = "assert" /\ call.fresh => kept' = taken'
  PROVE  Waiting' /\ OutcomeJustified'
<1>1. call' = NoCall
  BY DEF Return
<1>2. outcome' = [name |-> call.name, stop |-> stop, fresh |-> call.fresh,
                  result |-> result, rules |-> rules']
  BY DEF Return
<1>3. /\ outcome'.result = result /\ outcome'.stop = stop /\ outcome'.rules = rules'
      /\ outcome'.fresh = call.fresh
  BY <1>2
<1>4. CASE ~ result
  BY <1>1, <1>3, <1>4, Quiet
<1>5. CASE result
  <2>1. Earned(stop)'
    BY <1>5
  <2> DEFINE seen == IF outcome'.fresh THEN taken' ELSE kept'
  <2>4. tool' = "assert" => seen = kept'
    BY <1>3
  <2>5. tool' = "assert" =>
          \A j \in DOMAIN outcome'.rules :
             outcome'.rules[j].type = "within" =>
               \E i \in DOMAIN seen : seen[i].kind \in outcome'.rules[j].kinds
    <3> HIDE DEF seen
    <3> QED
      BY <1>3, <2>1, <2>4 DEF Earned
  <2>2. OutcomeJustified'
    <3> SUFFICES ASSUME outcome' # NoOutcome, outcome'.name \notin {"save", "load"}, outcome'.result
                 PROVE  OutcomeJustified'
      BY DEF OutcomeJustified
    <3>1. tool' = "assert" =>
            \A i \in DOMAIN taken', j \in DOMAIN outcome'.rules :
               Holds(outcome'.rules[j], taken'[i])
      BY <1>3, <2>1 DEF Earned
    <3>2. outcome'.stop.kinds # {} =>
            /\ taken' # <<>>
            /\ Cardinality(Matching(taken', Len(taken'), outcome'.stop.kinds)) >= outcome'.stop.count
            /\ \A n \in 1..(Len(taken') - 1) :
                 Cardinality(Matching(taken', n, outcome'.stop.kinds)) < outcome'.stop.count
      BY <1>3, <2>1 DEF Earned
    <3> QED
      BY <2>5, <3>1, <3>2, Zenon DEF OutcomeJustified, Matching
  <2>3. Waiting'
    BY <1>1 DEF Waiting
  <2> QED
    BY <2>2, <2>3
<1> QED
  BY <1>4, <1>5

LEMMA CallInit == RecordingInit => CallOK
<1> SUFFICES ASSUME RecordingInit PROVE CallOK
  OBVIOUS
<1>1. rules = <<>> /\ call = NoCall /\ taken = <<>> /\ kept = <<>> /\ outcome = NoOutcome
  BY DEF RecordingInit
<1>2. Waiting /\ OutcomeJustified
  BY <1>1 DEF Waiting, OutcomeJustified
<1>3. MarksSeen
  BY <1>1 DEF MarksSeen
<1> QED
  BY <1>1, <1>2, <1>3 DEF CallOK

LEMMA CallSame ==
  ASSUME CallOK, UNCHANGED <<tool, rules, call, taken, kept, outcome>>
  PROVE  CallOK'
<1>1. /\ tool' = tool /\ rules' = rules /\ call' = call /\ taken' = taken /\ kept' = kept
      /\ outcome' = outcome
  OBVIOUS
<1>2. MarksSeen'
  BY <1>1 DEF CallOK, MarksSeen
<1>3. Waiting'
  BY <1>1 DEF CallOK, Waiting, Calls
<1>4. OutcomeJustified'
  BY <1>1 DEF CallOK, OutcomeJustified
<1> QED
  BY <1>1, <1>2, <1>3, <1>4 DEF CallOK

LEMMA CallBegins == FileOK /\ CallOK /\ BeginCall => CallOK'
<1> SUFFICES ASSUME FileOK, CallOK, BeginCall PROVE CallOK'
  OBVIOUS
<1>1. /\ call = NoCall /\ taken' = <<>> /\ tool' = tool /\ rules' = rules /\ kept' = kept
  BY DEF BeginCall, Idle
<1>2. MarksSeen'
  BY <1>1 DEF CallOK, MarksSeen
<1>3. taken' \in Seq(AnyPacket)
  BY <1>1
<1>4. CASE outcome'.result = FALSE /\ call' = call
  BY <1>1, <1>2, <1>3, <1>4, Quiet DEF CallOK
<1>5. ASSUME NEW name \in Names(tool), NEW stop \in StopConditions(name),
             call' = [name |-> name, stop |-> stop, matches |-> 0, fresh |-> kept = <<>>],
             outcome' = NoOutcome
      PROVE  CallOK'
  <2>1. /\ stop \in [kinds : SUBSET Kinds, count : Nat]
        /\ name \in {"run_for", "record_for", "collect_packets"} => stop.kinds = {}
    BY StopsKnown
  <2>2. /\ call'.name = name /\ call'.stop = stop /\ call'.matches = 0
        /\ call'.fresh <=> kept = <<>>
        /\ call' \in Calls'
    BY <1>1, <1>5, <2>1 DEF Calls
  <2>3. Len(taken') = 0 /\ DOMAIN taken' = {}
    BY <1>1
  <2>4. Matching(taken', 0, stop.kinds) = {} /\ Cardinality({}) = 0
    BY FS_EmptySet DEF Matching
  <2>5. Waiting'
    <3>1. Cardinality(Matching(taken', Len(taken'), call'.stop.kinds)) = 0
      BY <2>2, <2>3, <2>4
    <3>2. /\ \A n \in 1..Len(taken') : Cardinality(Matching(taken', n, call'.stop.kinds)) < call'.stop.count
          /\ \A i \in DOMAIN taken', j \in DOMAIN rules' : Holds(rules'[j], taken'[i])
      BY <2>3
    <3>3. call'.name \in {"run_for", "record_for", "collect_packets"} => call'.stop.kinds = {}
      BY <2>1, <2>2
    <3>4. call'.fresh => kept' = taken'
      BY <1>1, <2>2
    <3> QED
      BY <1>5, <2>2, <3>1, <3>2, <3>3, <3>4 DEF Waiting
  <2>6. OutcomeJustified'
    BY <1>5 DEF OutcomeJustified
  <2> QED
    BY <1>2, <1>3, <2>5, <2>6 DEF CallOK
<1>6. PICK name \in Names(tool) :
        \/ /\ \E stop \in StopConditions(name) :
                call' = [name |-> name, stop |-> stop, matches |-> 0, fresh |-> kept = <<>>]
           /\ outcome' = NoOutcome
        \/ /\ tool # "fixture"
           /\ outcome' = [name |-> name, result |-> FALSE]
           /\ UNCHANGED call
  BY Zenon DEF BeginCall
<1>7. outcome' = [name |-> name, result |-> FALSE] => outcome'.result = FALSE
  OBVIOUS
<1> QED
  BY <1>4, <1>5, <1>6, <1>7, Zenon

LEMMA CallEnds == CallOK /\ DeadlinePasses => CallOK'
<1> SUFFICES ASSUME CallOK, DeadlinePasses PROVE CallOK'
  OBVIOUS
<1>1. call # NoCall /\ rules' = rules /\ kept' = kept /\ taken' = taken /\ tool' = tool
  BY DEF DeadlinePasses
<1>2. MarksSeen'
  BY <1>1 DEF CallOK, MarksSeen
<1>3. taken' \in Seq(AnyPacket)
  BY <1>1 DEF CallOK
<1>0. PICK stop : stop = call.stop
  OBVIOUS
<1>4. /\ call.name \in Names(tool)
      /\ call.name \in {"run_for", "record_for", "collect_packets"} => stop.kinds = {}
      /\ tool = "assert" => \A i \in DOMAIN taken, j \in DOMAIN rules : Holds(rules[j], taken[i])
  BY <1>0, <1>1 DEF CallOK, Waiting, Calls
<1>5. Names("assert") = {"run_for", "run_until"}
  BY DEF Names
<1>6. ASSUME NEW result, Return(result), result => Earned(stop)' PROVE CallOK'
  <2>1. tool' = "assert" /\ call.fresh => kept' = taken'
    BY <1>1 DEF CallOK, Waiting
  <2> QED
    BY <1>0, <1>2, <1>3, <1>6, <2>1, ReturnJustified DEF CallOK
<1>7. CASE call.name = "run_for" /\ Return(Satisfied(rules))
  <2>1. stop.kinds = {}
    BY <1>4, <1>7
  <2>2. ASSUME Satisfied(rules) PROVE Earned(stop)'
    <3>1. \A j \in DOMAIN rules : tool = "assert" /\ rules[j].type = "within" =>
             \E i \in DOMAIN kept : kept[i].kind \in rules[j].kinds
      BY <2>2 DEF Satisfied, CallOK, MarksSeen
    <3> QED
      BY <1>1, <1>4, <2>1, <3>1 DEF Earned
  <2> QED
    BY <1>6, <1>7, <2>2
<1>8. CASE call.name \in {"record_for", "collect_packets"} /\ Return(TRUE)
  <2>1. stop.kinds = {} /\ tool # "assert"
    BY <1>4, <1>5, <1>8
  <2>2. Earned(stop)'
    BY <1>1, <2>1 DEF Earned
  <2> QED
    BY <1>6, <1>8, <2>2
<1>9. CASE Return(FALSE)
  BY <1>6, <1>9
<1> QED
  BY <1>7, <1>8, <1>9 DEF DeadlinePasses

LEMMA CallTakes == FileOK /\ CallOK /\ PacketArrives => CallOK'
<1> SUFFICES ASSUME FileOK, CallOK, PacketArrives PROVE CallOK'
  OBVIOUS
<1> DEFINE check(p) == IF tool = "assert" THEN CheckPacket(rules, p)
                       ELSE [passed |-> TRUE, rules |-> rules]
           one(p) == IF p.kind \in call.stop.kinds THEN 1 ELSE 0
<1>1. PICK p \in Frames :
         /\ taken' = Append(taken, p)
         /\ kept' = Store(kept, p)
         /\ rules' = check(p).rules
         /\ \/ ~ check(p).passed /\ Return(FALSE)
            \/ /\ check(p).passed /\ StopMet(call, p)
               /\ Return(tool = "assert" => Satisfied(rules'))
            \/ /\ check(p).passed /\ ~ StopMet(call, p)
               /\ call' = [call EXCEPT !.matches = @ + one(p)]
               /\ UNCHANGED <<outcome, diskVars>>
  BY DEF PacketArrives
<1>2. PICK stop : stop = call.stop
  OBVIOUS
<1> DEFINE passed == check(p).passed
           L == Len(taken)
<1>3. p \in AnyPacket
  BY PacketsKnown DEF Frames
<1>4. /\ call # NoCall /\ tool' = tool
      /\ kept \in Seq(AnyPacket) /\ taken \in Seq(AnyPacket) /\ rules \in Seq(Rule)
  BY DEF PacketArrives, FileOK, CallOK, MarksSeen
<1>5. /\ call \in Calls
      /\ call.name \in {"run_for", "record_for", "collect_packets"} => stop.kinds = {}
      /\ call.matches = Cardinality(Matching(taken, L, stop.kinds))
      /\ stop.kinds # {} =>
           \A n \in 1..L : Cardinality(Matching(taken, n, stop.kinds)) < stop.count
      /\ tool = "assert" => \A i \in DOMAIN taken, j \in DOMAIN rules : Holds(rules[j], taken[i])
      /\ outcome = NoOutcome
  BY <1>2, <1>4 DEF CallOK, Waiting
<1>6. /\ taken' \in Seq(AnyPacket) /\ Len(taken') = L + 1 /\ L \in Nat
      /\ taken'[L + 1] = p /\ \A i \in 1..L : taken'[i] = taken[i]
  BY <1>1, <1>3, <1>4
<1>7. /\ rules' \in Seq(Rule) /\ Len(rules') = Len(rules)
      /\ tool = "assert" /\ passed => \A j \in 1..Len(rules) : Holds(rules[j], p)
      /\ \A j \in 1..Len(rules) :
           /\ rules'[j].type = rules[j].type /\ rules'[j].kinds = rules[j].kinds
           /\ rules'[j].condition = rules[j].condition
           /\ tool = "assert" /\ rules'[j].satisfied =>
                rules[j].satisfied \/ (rules[j].type = "within" /\ p.kind \in rules[j].kinds)
  <2>1. CASE tool = "assert"
    <3>1. rules' = CheckPacket(rules, p).rules /\ passed = CheckPacket(rules, p).passed
      BY <1>1, <2>1
    <3> DEFINE c == CheckPacket(rules, p)
    <3>2. /\ c.rules \in Seq(Rule) /\ Len(c.rules) = Len(rules)
          /\ c.passed <=> \A j \in 1..Len(rules) : Holds(rules[j], p)
          /\ \A j \in 1..Len(rules) :
               /\ c.rules[j].type = rules[j].type
               /\ c.rules[j].kinds = rules[j].kinds
               /\ c.rules[j].condition = rules[j].condition
               /\ c.rules[j].satisfied =>
                    rules[j].satisfied \/ (rules[j].type = "within" /\ p.kind \in rules[j].kinds)
      BY <1>4, CheckedRules, Zenon
    <3>3. rules' = c.rules /\ passed = c.passed
      BY <3>1
    <3> HIDE DEF c, check
    <3> QED
      BY <2>1, <3>2, <3>3
  <2>2. CASE tool # "assert"
    <3>1. rules' = rules
      BY <1>1, <2>2
    <3> QED
      BY <1>4, <2>2, <3>1
  <2> QED
    BY <2>1, <2>2
<1>8. MarksSeen'
  <2>1. ASSUME tool' = "assert", NEW j \in DOMAIN rules', rules'[j].type = "within", rules'[j].satisfied
        PROVE  \E i \in DOMAIN kept' : kept'[i].kind \in rules'[j].kinds
    <3>1. j \in 1..Len(rules) /\ j \in DOMAIN rules /\ tool = "assert"
      BY <1>4, <1>7, <2>1
    <3>2. kept' = Append(kept, p)
      BY <1>1, <3>1 DEF Store
    <3>3. /\ DOMAIN kept' = 1..(Len(kept) + 1) /\ Len(kept) \in Nat
          /\ kept'[Len(kept) + 1] = p /\ \A i \in 1..Len(kept) : kept'[i] = kept[i]
          /\ DOMAIN kept = 1..Len(kept)
      BY <1>3, <1>4, <3>2
    <3>4. CASE rules[j].satisfied
      <4>1. PICK i \in DOMAIN kept : kept[i].kind \in rules[j].kinds
        BY <1>7, <2>1, <3>1, <3>4 DEF CallOK, MarksSeen
      <4>2. i \in DOMAIN kept' /\ kept'[i] = kept[i]
        BY <3>3
      <4> QED
        BY <1>7, <3>1, <4>1, <4>2
    <3>5. CASE p.kind \in rules[j].kinds
      <4>1. Len(kept) + 1 \in DOMAIN kept'
        BY <3>3
      <4> QED
        BY <1>7, <3>1, <3>3, <3>5, <4>1
    <3> QED
      BY <1>7, <2>1, <3>1, <3>4, <3>5
  <2> QED
    BY <1>7, <2>1 DEF MarksSeen
<1>9. ASSUME passed, tool' = "assert", NEW i \in DOMAIN taken', NEW j \in DOMAIN rules'
      PROVE  Holds(rules'[j], taken'[i])
  <2>1. j \in 1..Len(rules) /\ j \in DOMAIN rules /\ tool = "assert"
    BY <1>4, <1>7, <1>9
  <2>2. Holds(rules[j], taken'[i])
    <3>1. CASE i = L + 1
      BY <1>6, <1>7, <1>9, <2>1, <3>1
    <3>2. CASE i # L + 1
      <4>1. i \in 1..L /\ i \in DOMAIN taken
        BY <1>4, <1>6, <3>2
      <4> QED
        BY <1>5, <1>6, <2>1, <4>1
    <3> QED
      BY <3>1, <3>2
  <2> QED
    BY <1>7, <2>1, <2>2, HoldsUnmarked
<1>10. /\ \A n \in 1..L : Matching(taken', n, stop.kinds) = Matching(taken, n, stop.kinds)
       /\ Cardinality(Matching(taken', L + 1, stop.kinds)) = call.matches + one(p)
       /\ one(p) \in Nat
  <2>1. one(p) = IF p.kind \in stop.kinds THEN 1 ELSE 0
    BY <1>2
  <2> QED
    BY <1>1, <1>3, <1>4, <1>5, <2>1, MatchingAppend
<1>11. StopMet(call, p) <=> stop.kinds # {} /\ call.matches + one(p) >= stop.count
  BY <1>2 DEF StopMet
<1>16. tool' = "assert" /\ call.fresh => kept' = taken'
  <2>1. tool = "assert" => kept' = Append(kept, p)
    BY <1>1 DEF Store
  <2>2. tool = "assert" /\ call.fresh => kept = taken
    BY <1>4 DEF CallOK, Waiting
  <2> QED
    BY <1>1, <1>4, <2>1, <2>2
<1>12. ASSUME NEW result, Return(result), result => Earned(stop)' PROVE CallOK'
  BY <1>2, <1>6, <1>8, <1>12, <1>16, ReturnJustified DEF CallOK
<1> HIDE DEF check, one, L
<1>13. CASE Return(FALSE)
  BY <1>12, <1>13
<1>14. CASE passed /\ StopMet(call, p) /\ Return(tool = "assert" => Satisfied(rules'))
  <2>1. ASSUME tool = "assert" => Satisfied(rules') PROVE Earned(stop)'
    <3>1. ASSUME tool' = "assert", NEW j \in DOMAIN rules', rules'[j].type = "within"
          PROVE  \E i \in DOMAIN kept' : kept'[i].kind \in rules'[j].kinds
      BY <1>4, <1>8, <2>1, <3>1 DEF MarksSeen, Satisfied
    <3>2. taken' # <<>>
      BY <1>6
    <3>3. Cardinality(Matching(taken', Len(taken'), stop.kinds)) >= stop.count
      BY <1>6, <1>10, <1>11, <1>14
    <3>4. ASSUME stop.kinds # {}, NEW n \in 1..(Len(taken') - 1)
          PROVE  Cardinality(Matching(taken', n, stop.kinds)) < stop.count
      <4>1. n \in 1..L
        BY <1>6
      <4> QED
        BY <1>5, <1>10, <3>4, <4>1
    <3> QED
      BY <1>9, <1>14, <3>1, <3>2, <3>3, <3>4 DEF Earned
  <2> QED
    BY <1>12, <1>14, <2>1
<1>15. CASE /\ passed /\ ~ StopMet(call, p)
            /\ call' = [call EXCEPT !.matches = @ + one(p)]
            /\ UNCHANGED outcome
  <2> DEFINE total == call.matches + one(p)
  <2>1. total \in Nat
    BY <1>5, <1>10 DEF Calls
  <2>2. call' = [call EXCEPT !.matches = total]
    BY <1>15
  <2>3. stop.kinds # {} => ~ (total >= stop.count)
    BY <1>11, <1>15
  <2>4. Cardinality(Matching(taken', L + 1, stop.kinds)) = total
    BY <1>10
  <2> HIDE DEF total
  <2>5. /\ call' \in Calls'
        /\ call'.name = call.name /\ call'.stop = stop /\ call'.matches = total
        /\ call'.fresh = call.fresh /\ stop.count \in Nat
    BY <1>2, <1>4, <1>5, <2>1, <2>2 DEF Calls
  <2>6. ASSUME stop.kinds # {}, NEW n \in 1..Len(taken')
        PROVE  Cardinality(Matching(taken', n, stop.kinds)) < stop.count
    <3>1. CASE n = L + 1
      BY <2>1, <2>3, <2>4, <2>5, <2>6, <3>1
    <3>2. CASE n # L + 1
      <4>1. n \in 1..L
        BY <1>6, <3>2
      <4> QED
        BY <1>5, <1>10, <2>6, <4>1
    <3> QED
      BY <3>1, <3>2
  <2>7. outcome' = NoOutcome
    BY <1>5, <1>15
  <2>8. Waiting'
    <3>1. call'.matches = Cardinality(Matching(taken', Len(taken'), call'.stop.kinds))
      BY <1>6, <2>4, <2>5
    <3>2. call'.name \in {"run_for", "record_for", "collect_packets"} => call'.stop.kinds = {}
      BY <1>5, <2>5
    <3>3. call'.stop.kinds # {} =>
            \A n \in 1..Len(taken') :
              Cardinality(Matching(taken', n, call'.stop.kinds)) < call'.stop.count
      BY <2>5, <2>6
    <3>4. tool' = "assert" =>
            \A i \in DOMAIN taken', j \in DOMAIN rules' : Holds(rules'[j], taken'[i])
      BY <1>9, <1>15
    <3>5. tool' = "assert" /\ call'.fresh => kept' = taken'
      BY <1>16, <2>5
    <3> QED
      BY <2>5, <2>7, <3>1, <3>2, <3>3, <3>4, <3>5 DEF Waiting
  <2>9. OutcomeJustified'
    BY <2>7 DEF OutcomeJustified
  <2> QED
    BY <1>6, <1>8, <2>8, <2>9 DEF CallOK
<1> QED
  BY <1>1, <1>13, <1>14, <1>15

LEMMA CallStep == FileOK /\ CallOK /\ [RecordingNext]_recordingVars => CallOK'
<1> SUFFICES ASSUME FileOK, CallOK, [RecordingNext]_recordingVars PROVE CallOK'
  OBVIOUS
<1>1. taken \in Seq(AnyPacket) /\ MarksSeen /\ rules \in Seq(Rule)
  BY DEF CallOK, MarksSeen
<1>2. ASSUME tool # "assert", UNCHANGED <<tool, rules, taken>>, call' = NoCall,
             outcome' = NoOutcome \/ outcome'.name \in {"save", "load"}
      PROVE  CallOK'
  <2>1. tool' = tool /\ rules' = rules /\ taken' = taken
    BY <1>2
  <2>2. MarksSeen'
    BY <1>1, <1>2, <2>1 DEF MarksSeen
  <2> QED
    BY <1>1, <1>2, <2>1, <2>2, Quiet DEF CallOK
<1>3. CASE AddRule
  <2>1. PICK type \in {"all", "never", "when", "within"}, k \in Kinds, c \in Kinds :
          rules' = Append(rules, [type |-> type, kinds |-> {k}, satisfied |-> FALSE,
                                  condition |-> IF type = "when" THEN {c} ELSE {}])
    BY <1>3, Zenon DEF AddRule
  <2> DEFINE new == [type |-> type, kinds |-> {k}, satisfied |-> FALSE,
                     condition |-> IF type = "when" THEN {c} ELSE {}]
  <2>2. new \in Rule /\ new.satisfied = FALSE
    BY DEF Rule
  <2> HIDE DEF new
  <2>3. /\ rules' \in Seq(Rule) /\ DOMAIN rules' = 1..(Len(rules) + 1) /\ Len(rules) \in Nat
        /\ rules'[Len(rules) + 1] = new /\ \A j \in 1..Len(rules) : rules'[j] = rules[j]
    BY <1>1, <2>1, <2>2 DEF new
  <2>4. tool' = tool /\ kept' = kept /\ taken' = taken /\ call' = NoCall /\ outcome' = NoOutcome
    BY <1>3 DEF AddRule, Idle
  <2>5. MarksSeen'
    <3>1. ASSUME tool' = "assert", NEW j \in DOMAIN rules', rules'[j].type = "within", rules'[j].satisfied
          PROVE  \E i \in DOMAIN kept' : kept'[i].kind \in rules'[j].kinds
      <4>1. j # Len(rules) + 1
        BY <2>2, <2>3, <3>1
      <4>2. j \in 1..Len(rules) /\ j \in DOMAIN rules /\ rules'[j] = rules[j]
        BY <1>1, <2>3, <4>1
      <4> QED
        BY <1>1, <2>4, <3>1, <4>2 DEF MarksSeen
    <3> QED
      BY <2>3, <3>1 DEF MarksSeen
  <2> QED
    BY <1>1, <2>4, <2>5, Quiet DEF CallOK
<1>4. CASE Reset
  <2> DEFINE cleared == [i \in DOMAIN rules |-> [rules[i] EXCEPT !.satisfied = FALSE]]
  <2>1. rules' = cleared /\ taken' = taken /\ call' = NoCall /\ outcome' = NoOutcome
    BY <1>4 DEF Reset, Idle
  <2>2. \A i \in 1..Len(rules) : cleared[i] \in Rule /\ cleared[i].satisfied = FALSE
    <3> TAKE i \in 1..Len(rules)
    <3>1. rules[i] \in Rule /\ i \in DOMAIN rules
      BY <1>1
    <3>2. cleared[i] = [rules[i] EXCEPT !.satisfied = FALSE]
      BY <3>1
    <3> HIDE DEF cleared
    <3> QED
      BY <3>1, <3>2 DEF Rule
  <2>3. cleared \in [1..Len(rules) -> Rule] /\ Len(rules) \in Nat
    <3>1. cleared = [i \in 1..Len(rules) |-> cleared[i]] /\ Len(rules) \in Nat
      BY <1>1
    <3> HIDE DEF cleared
    <3> QED
      BY <2>2, <3>1
  <2> HIDE DEF cleared
  <2>4. cleared \in Seq(Rule) /\ DOMAIN cleared = 1..Len(rules)
    BY <2>3
  <2>5. MarksSeen'
    BY <2>1, <2>2, <2>4 DEF MarksSeen
  <2> QED
    BY <1>1, <2>1, <2>5, Quiet DEF CallOK
<1>5. CASE SaveToPcap
  <2>1. PICK result \in BOOLEAN : outcome' = [name |-> "save", result |-> result]
    BY <1>5 DEF SaveToPcap
  <2>2. outcome'.name = "save"
    BY <2>1
  <2> QED
    BY <1>2, <1>5, <2>2 DEF SaveToPcap, Idle
<1>6. CASE LoadFromPcap
  <2>1. outcome'.name = "load"
    BY <1>6 DEF LoadFromPcap
  <2> QED
    BY <1>2, <1>6, <2>1 DEF LoadFromPcap, Idle
<1>7. CASE EmptyStream \/ SetUp \/ TearDown
  BY <1>2, <1>7 DEF EmptyStream, SetUp, TearDown, Idle
<1>8. CASE BeginCall
  BY <1>8, CallBegins
<1>9. CASE PacketArrives
  BY <1>9, CallTakes
<1>10. CASE DeadlinePasses
  BY <1>10, CallEnds
<1>11. CASE CreateReplay \/ RunReplay \/ ReplayPacket \/ PassDone \/ StopReplay
  BY <1>11, CallSame DEF CreateReplay, RunReplay, ReplayPacket, PassDone, StopReplay, toolVars
<1>12. CASE CreateWriter \/ AddInterface \/ WritePacketBlock \/ WriteStatistics \/ CopyPackets
  BY <1>12, CallSame
     DEF CreateWriter, AddInterface, WritePacketBlock, WriteStatistics, CopyPackets, toolVars
<1>13. CASE TakeUp
  <2>1. rules' = <<>> /\ taken' = <<>> /\ call' = NoCall /\ outcome' = NoOutcome
    BY <1>13 DEF TakeUp, Idle
  <2>2. MarksSeen'
    BY <2>1 DEF MarksSeen
  <2> QED
    BY <2>1, <2>2, Quiet DEF CallOK
<1>14. CASE UNCHANGED recordingVars
  BY <1>14, CallSame DEF recordingVars
<1> QED
  BY <1>3, <1>4, <1>5, <1>6, <1>7, <1>8, <1>9, <1>10, <1>11, <1>12, <1>13, <1>14
     DEF RecordingNext

\* A run of a LiveAssertSession passes only if its packets met every rule and each
\* expectation was met in the run or, in one that follows another without a reset,
\* since the last reset; a call with a stop condition succeeds only at the first
\* packet that fulfils it (run_for, run_until, record_until, record_n_matching,
\* wait_for_packet), for any rules, packets and counts.
THEOREM OutcomesJustified == RecordingSpec => []OutcomeJustified
<1>1. RecordingSpec => []CallOK
  BY FileAlways, CallInit, CallStep, PTL DEF RecordingSpec
<1>2. CallOK => OutcomeJustified
  BY DEF CallOK
<1> QED
  BY <1>1, <1>2, PTL
=============================================================================
