---------------------------- MODULE ScenarioRunner ----------------------------
(***************************************************************************)
(* ScenarioRunner, the batch functions and the wadjet-run tool.            *)
(*                                                                         *)
(* A batch is run through run_scenario_files, run_scenarios_in_directory,  *)
(* by wadjet-run, or by a caller of run_all, who may stop the runner from  *)
(* another thread and whose callbacks may throw.  What a step asks for is  *)
(* chosen when the runner comes to it: no earlier step depends on it.      *)
(* Neither wadjet-run's own callbacks nor the batch functions, which set   *)
(* none, throw.                                                            *)
(* Sleeping is not modelled, nor are the timeouts of the scenario and the  *)
(* runner, which nothing reads.                                            *)
(***************************************************************************)
EXTENDS ScenarioParser

CONSTANTS
    MaxFiles,      \* bound on the files of a batch
    MaxSteps,      \* bound on the steps of a scenario
    MaxPackets     \* bound on the packets of a capture

ASSUME RunnerAssumption == MaxFiles \in Nat /\ MaxSteps \in Nat /\ MaxPackets \in Nat

VARIABLES
    mode,        \* who runs the batch
    options,     \* dry_run and stop_on_first_failure, the tag filter and --list
    phase,       \* what the batch is doing
    given,       \* how many files the batch was given
    files,       \* how many of them are still to be read
    queue,       \* formats of the scenarios still to run
    unread,      \* how many files did not parse
    scenario,    \* the scenario that runs: its format and number of steps
    at,          \* step_index
    expecting,   \* the live expect step that waits for packets
    capture,     \* a live capture is open
    captured,    \* captured_packets
    results,     \* expect_results, with what the document asked for
    failure,     \* error_message
    stopped,     \* stopped_
    verdict,     \* history: the result of the scenario that just ended
    batch,       \* BatchResult, and history: scenarios cut short (see Counted)
    exit         \* what the tool returns; "thrown" if run_all did not return

vars == <<mode, options, phase, given, files, queue, unread, scenario, at, expecting, capture,
          captured, results, failure, stopped, verdict, batch, exit>>

fixedVars == <<mode, options, given>>
stepVars == <<at, expecting, capture, captured, results, failure>>

\* parse_args and RunnerOptions; help, version and an option that is not
\* known end the tool before it reads a file.
Options == [dry : BOOLEAN, stopFirst : BOOLEAN, tags : BOOLEAN, list : BOOLEAN]

NoScenario == [format |-> "none", steps |-> 0]
NoExpect == [kind |-> "none"]
NoVerdict == [kind |-> "none"]
NoBatch == [passed |-> 0, failed |-> 0, skipped |-> 0, tap |-> 0, junit |-> 0, json |-> 0,
            text |-> 0, cut |-> 0]

Init ==
    /\ mode \in {"files", "directory", "tool", "library"}
    /\ options \in Options
    /\ options.tags => mode \in {"directory", "tool"}
    /\ options.list => mode = "tool"
    /\ phase = "parse"
    /\ given \in 0..MaxFiles
    /\ files = given
    /\ queue = <<>>
    /\ unread = 0
    /\ scenario = NoScenario
    /\ at = 0
    /\ expecting = NoExpect
    /\ capture = FALSE
    /\ captured = <<>>
    /\ results = <<>>
    /\ failure = "none"
    /\ stopped = FALSE
    /\ verdict = NoVerdict
    /\ batch = NoBatch
    /\ exit = "none"

------------------------------------------------------------------------------
(* Verdicts *)

\* A verdict that looks at the expectations only.
PassedByExpectations(failed, expected) == \A i \in DOMAIN expected : expected[i].passed

\* run: no error message, and no expectation that failed, be it required or
\* not.  An exception without text leaves the error message empty.
Passed(failed, expected) ==
    failed \in {"none", "silent"} /\ \A i \in DOMAIN expected : expected[i].passed

\* A report of the expectations only.
NotOkExpectations(passed, expected) == Among(expected, LAMBDA e : ~e.passed)

\* TapReportGenerator::generate: the lines "not ok" of one scenario.
NotOk(passed, expected) ==
    IF expected = <<>> THEN IF passed THEN 0 ELSE 1
    ELSE Among(expected, LAMBDA e : ~e.passed)

\* JUnitXmlReportGenerator::generate: the elements "failure" of one scenario.
JUnitFailures(passed, expected) ==
    Cardinality({e \in DOMAIN expected : ~expected[e].passed})
        + (IF expected = <<>> /\ ~passed THEN 1 ELSE 0)

\* JsonReportGenerator::generate: "passed" is false, of the scenario and of
\* its expectations.
JsonFailures(passed, expected) ==
    (IF passed THEN 0 ELSE 1) + Among(expected, LAMBDA e : ~e.passed)

\* TextReportGenerator::generate: the lines "[FAIL]".
TextFailures(passed, expected) == JsonFailures(passed, expected)

\* The batch counts a scenario's result, and the reports show it.  A failed
\* scenario with expectations, none of which failed, was cut short.
Counted(b, passed, expected) ==
    [b EXCEPT !.passed = IF passed THEN @ + 1 ELSE @,
              !.failed = IF passed THEN @ ELSE @ + 1,
              !.tap = @ + NotOk(passed, expected),
              !.junit = @ + JUnitFailures(passed, expected),
              !.json = @ + JsonFailures(passed, expected),
              !.text = @ + TextFailures(passed, expected),
              !.cut = IF /\ ~passed /\ expected # <<>>
                         /\ \A i \in DOMAIN expected : expected[i].passed THEN @ + 1 ELSE @]

------------------------------------------------------------------------------
(* The batch *)

\* run begins: a dry run passes at once.
Begin(format, steps) ==
    IF options.dry
    THEN batch' = Counted(batch, TRUE, <<>>) /\ UNCHANGED <<phase, scenario>>
    ELSE /\ scenario' = [format |-> format, steps |-> steps]
         /\ phase' = "steps"
         /\ batch' = batch

\* run_scenario_files and run_scenarios_in_directory take the next file: one
\* that does not parse is a failed result, one without a tag is skipped.
NextFile ==
    /\ phase = "parse" /\ mode \in {"files", "directory"} /\ files > 0
    /\ files' = files - 1
    /\ \E f \in Files, n \in 0..MaxSteps :
        /\ mode = "directory" => f.format # "other"
        /\ \/ /\ ~FileParses(f)
              /\ batch' = Counted(batch, FALSE, <<>>)
              /\ unread' = unread + 1
              /\ UNCHANGED <<phase, scenario>>
           \/ /\ FileParses(f) /\ options.tags /\ ~FileHasTag(f)
              /\ batch' = [batch EXCEPT !.skipped = @ + 1]
              /\ UNCHANGED <<phase, scenario, unread>>
           \/ /\ FileParses(f) /\ (options.tags => FileHasTag(f))
              /\ Begin(f.format, FileSteps(f, n))
              /\ unread' = unread
    /\ verdict' = NoVerdict
    /\ UNCHANGED <<fixedVars, queue, stepVars, stopped, exit>>

\* wadjet-run and a caller of run_all parse every file before one is run.
ParseAll ==
    /\ phase = "parse" /\ mode \in {"tool", "library"} /\ files > 0
    /\ files' = files - 1
    /\ \E f \in Files, n \in 0..MaxSteps :
        /\ unread' = IF FileParses(f) THEN unread ELSE unread + 1
        /\ queue' = IF FileParses(f) /\ (options.tags => FileHasTag(f))
                    THEN Append(queue, [format |-> f.format, steps |-> FileSteps(f, n)])
                    ELSE queue
    /\ UNCHANGED <<fixedVars, phase, scenario, stepVars, verdict, stopped, batch, exit>>

\* main: there was no file, or none that parses and a scenario to run.
NothingToRun == given = 0 \/ (unread > 0 /\ queue = <<>>)

ParsedAll ==
    /\ phase = "parse" /\ mode \in {"tool", "library"} /\ files = 0
    /\ \/ /\ mode = "tool" /\ NothingToRun
          /\ exit' = "failure" /\ phase' = "done"
       \/ /\ mode = "tool" /\ ~NothingToRun /\ options.list
          /\ exit' = "success" /\ phase' = "done"
       \/ /\ mode = "tool" => ~NothingToRun /\ ~options.list
          /\ phase' = "run" /\ exit' = exit
    /\ UNCHANGED <<fixedVars, files, queue, unread, scenario, stepVars, verdict, stopped, batch>>

\* run_all: the next scenario, unless the runner was stopped.
RunNext ==
    /\ phase = "run" /\ queue # <<>> /\ ~stopped
    /\ queue' = Tail(queue)
    /\ Begin(Head(queue).format, Head(queue).steps)
    /\ verdict' = NoVerdict
    /\ UNCHANGED <<fixedVars, files, unread, stepVars, stopped, exit>>

ExitCode(b) == IF b.failed > 0 THEN "failure" ELSE "success"

\* The batch is over.
Finish ==
    /\ \/ phase = "parse" /\ mode \in {"files", "directory"} /\ files = 0
       \/ phase = "run" /\ (queue = <<>> \/ stopped)
    /\ phase' = "done"
    /\ exit' = IF mode = "tool" THEN ExitCode(batch) ELSE exit
    /\ UNCHANGED <<fixedVars, files, queue, unread, scenario, stepVars, verdict, stopped, batch>>

------------------------------------------------------------------------------
(* The steps of a scenario *)

batchVars == <<fixedVars, files, queue, unread, scenario, verdict, batch, exit>>

StepAhead == phase = "steps" /\ at < scenario.steps /\ ~stopped

\* execute_step(CaptureStep): a file that cannot be opened leaves no packets,
\* an interface that cannot be opened no capture.
CaptureStep ==
    /\ StepAhead
    /\ \E doc \in StepDocs : \E step \in StepsOf(scenario.format, doc) :
        /\ step.kind = "capture"
        /\ \/ /\ step.file
              /\ capture' = FALSE
              /\ \E n \in 0..MaxPackets : captured' \in [1..n -> Packets]
           \/ /\ ~step.file
              /\ capture' \in BOOLEAN
              /\ captured' = <<>>
    /\ at' = at + 1
    /\ UNCHANGED <<batchVars, phase, expecting, results, failure, stopped>>

\* execute_step(SendStep) and WaitStep sleep: a packet is never sent.
SilentStep ==
    /\ StepAhead
    /\ \E doc \in StepDocs : \E step \in StepsOf(scenario.format, doc) :
        step.kind \in {"send", "wait"}
    /\ at' = at + 1
    /\ UNCHANGED <<batchVars, phase, expecting, capture, captured, results, failure, stopped>>

\* execute_step(LogStep): the text goes to on_log, if there is one.
LogStep ==
    /\ StepAhead
    /\ \E doc \in StepDocs : \E step \in StepsOf(scenario.format, doc) : step.kind = "log"
    /\ at' = at + 1
    /\ UNCHANGED <<batchVars, phase, expecting, capture, captured, results, failure, stopped>>

\* The end of execute_step(ExpectStep), and the early way out of run.
Conclude(doc, step, matches, meeting) ==
    LET passed == Evaluate(step.count, matches)
    IN /\ results' = Append(results, [passed |-> passed, required |-> step.required,
                                      honoured |-> Evaluate(step.count, meeting)])
       /\ at' = at + 1
       /\ phase' = IF options.stopFirst /\ ~passed THEN "verdict" ELSE "steps"
       /\ expecting' = NoExpect

\* execute_step(ExpectStep) without a live capture: the packets there are.
ExpectOffline ==
    /\ StepAhead /\ ~capture
    /\ \E doc \in StepDocs : \E step \in StepsOf(scenario.format, doc) :
        /\ step.kind = "expect"
        /\ Conclude(doc, step, Among(captured, LAMBDA p : Matches(step, p)),
                    Among(captured, LAMBDA p : Meets(doc, p)))
    /\ UNCHANGED <<batchVars, capture, captured, failure, stopped>>

\* execute_step(ExpectStep) on a live capture waits for packets.
ExpectLive ==
    /\ StepAhead /\ capture
    /\ \E doc \in StepDocs : \E step \in StepsOf(scenario.format, doc) :
        /\ step.kind = "expect"
        /\ expecting' = [kind |-> "expect", doc |-> doc, step |-> step, matches |-> 0,
                         meeting |-> 0]
    /\ phase' = "expecting"
    /\ UNCHANGED <<batchVars, at, capture, captured, results, failure, stopped>>

\* A packet comes: the count is asked after every one.
PacketComes ==
    /\ phase = "expecting" /\ Len(captured) < MaxPackets
    /\ \E p \in Packets :
        LET matches == expecting.matches + (IF Matches(expecting.step, p) THEN 1 ELSE 0)
            meeting == expecting.meeting + (IF Meets(expecting.doc, p) THEN 1 ELSE 0)
        IN /\ captured' = Append(captured, p)
           /\ IF Evaluate(expecting.step.count, matches)
              THEN Conclude(expecting.doc, expecting.step, matches, meeting)
              ELSE /\ expecting' = [expecting EXCEPT !.matches = matches, !.meeting = meeting]
                   /\ UNCHANGED <<phase, at, results>>
    /\ UNCHANGED <<batchVars, capture, failure, stopped>>

\* A deadline that is set anew while the count is not right.
DeadlineAnew ==
    /\ phase = "expecting"
    /\ \/ /\ Evaluate(expecting.step.count, expecting.matches)
          /\ Conclude(expecting.doc, expecting.step, expecting.matches, expecting.meeting)
          /\ UNCHANGED <<batchVars, capture, captured, failure, stopped>>
       \/ ~Evaluate(expecting.step.count, expecting.matches) /\ UNCHANGED vars

\* The deadline passes.
Deadline ==
    /\ phase = "expecting"
    /\ Conclude(expecting.doc, expecting.step, expecting.matches, expecting.meeting)
    /\ UNCHANGED <<batchVars, capture, captured, failure, stopped>>

\* A callback of the caller throws out of the step it is called from (for
\* on_packet_captured the packet is kept already).  run takes the exception's
\* text for its error message, which may be empty.
CallbackThrows ==
    /\ mode = "library"
    /\ \/ StepAhead /\ UNCHANGED captured
       \/ phase = "expecting" /\ UNCHANGED captured
       \/ /\ phase = "expecting" /\ Len(captured) < MaxPackets
          /\ \E p \in Packets : captured' = Append(captured, p)
    /\ failure' \in {"exception", "silent"}
    /\ phase' = "verdict"
    /\ expecting' = NoExpect
    /\ UNCHANGED <<batchVars, at, capture, results, stopped>>

\* What run does not catch leaves run_all, and the results so far are lost: an
\* exception of on_scenario_start or on_scenario_end, and from a step one that
\* is no std::exception.
CallbackEscapes ==
    /\ mode = "library"
    /\ \/ phase = "run" /\ queue # <<>> /\ ~stopped
       \/ StepAhead
       \/ phase \in {"expecting", "verdict"}
    /\ phase' = "done" /\ exit' = "thrown"
    /\ batch' = NoBatch /\ verdict' = NoVerdict
    /\ scenario' = NoScenario
    /\ at' = 0 /\ expecting' = NoExpect /\ capture' = FALSE /\ captured' = <<>>
    /\ results' = <<>> /\ failure' = "none"
    /\ UNCHANGED <<fixedVars, files, queue, unread, stopped>>

\* stop, from another thread.
Stop ==
    /\ mode = "library" /\ ~stopped /\ phase # "done"
    /\ stopped' = TRUE
    /\ UNCHANGED <<batchVars, phase, at, expecting, capture, captured, results, failure>>

\* The loop over the steps meets the stop before a step.
StoppedByUser ==
    /\ phase = "steps" /\ at < scenario.steps /\ stopped
    /\ failure' = "stopped"
    /\ phase' = "verdict"
    /\ UNCHANGED <<batchVars, at, expecting, capture, captured, results, stopped>>

StepsDone ==
    /\ phase = "steps" /\ at = scenario.steps
    /\ phase' = "verdict"
    /\ UNCHANGED <<batchVars, at, expecting, capture, captured, results, failure, stopped>>

\* save_failure_pcap gives back the name of the file, whether or not it could be
\* created.
SaveFailurePcap == {"written", "missing"}

\* The packets of a failed scenario are saved if the options ask for it.
SavedPcap(passed) ==
    {"unnamed"} \union IF ~passed /\ captured # <<>> THEN SaveFailurePcap ELSE {}

\* The end of run: the verdict, the saved packets, and the next scenario.
Verdict ==
    /\ phase = "verdict"
    /\ LET passed == Passed(failure, results)
       IN /\ \E pcap \in SavedPcap(passed) :
               verdict' = [kind |-> "verdict", passed |-> passed, executed |-> at = scenario.steps,
                           results |-> results, stopped |-> failure = "stopped",
                           threw |-> failure \in {"exception", "silent"},
                           silent |-> failure = "silent", pcap |-> pcap]
          /\ batch' = Counted(batch, passed, results)
    /\ phase' = IF mode \in {"files", "directory"} THEN "parse" ELSE "run"
    /\ scenario' = NoScenario
    /\ at' = 0 /\ capture' = FALSE /\ captured' = <<>> /\ results' = <<>> /\ failure' = "none"
    /\ UNCHANGED <<fixedVars, files, queue, unread, expecting, stopped, exit>>

Done == phase = "done" /\ UNCHANGED vars

Runs == NextFile \/ ParseAll \/ ParsedAll \/ RunNext \/ Finish \/ CaptureStep \/ SilentStep \/ LogStep
        \/ ExpectOffline \/ ExpectLive \/ StoppedByUser \/ StepsDone \/ Verdict

Next == Runs \/ PacketComes \/ Deadline \/ CallbackThrows \/ CallbackEscapes \/ Stop \/ Done

Spec == Init /\ [][Next]_vars

\* The runner's thread goes on, and time passes.
FairSpec == Spec /\ WF_vars(Runs) /\ WF_vars(Deadline)

------------------------------------------------------------------------------
(* Properties *)

\* A scenario is reported as passed only if every expectation it requires
\* passed, and if all of its steps were executed or an exception without text
\* cut it short; one reported as failed was stopped, threw, or has an
\* expectation that failed (ScenarioRunner::Impl::run).
VerdictJustified ==
    verdict.kind = "verdict" =>
        IF verdict.passed
        THEN /\ verdict.executed \/ verdict.silent
             /\ \A i \in DOMAIN verdict.results : verdict.results[i].required =>
                    verdict.results[i].passed
        ELSE \/ verdict.stopped
             \/ verdict.threw
             \/ \E i \in DOMAIN verdict.results : ~verdict.results[i].passed

\* When a batch is over, every file is accounted for once: as a result, as
\* skipped, as unreadable, or among the scenarios a stopped runner did not come
\* to (unless an exception left run_all).  The tool returns failure if a
\* scenario failed.  The JSON and the text report show a failure exactly if a
\* scenario failed, TAP and the JUnit test cases exactly if one failed that was
\* not cut short by a stop or an exception after expectations that passed.
BatchCountsAgree ==
    phase = "done" =>
        /\ mode \in {"files", "directory"} =>
             /\ batch.passed + batch.failed + batch.skipped = given
             /\ unread <= batch.failed
        /\ mode \in {"tool", "library"} /\ ~options.tags /\ exit # "thrown" =>
             batch.passed + batch.failed + unread + Len(queue) = given
        /\ \A shown \in {batch.json, batch.text} : batch.failed > 0 <=> shown > 0
        /\ \A shown \in {batch.tap, batch.junit} : batch.failed > batch.cut <=> shown > 0
        /\ batch.cut > 0 => mode = "library"
        /\ mode = "tool" /\ batch.failed > 0 => exit = "failure"

\* A batch ends, even if no packet ever comes (the deadline of an expect step).
BatchEnds == <>(phase = "done")

\* What ExpectStep says of its protocol expectations, "all optional, checked
\* if present": a scenario passes only if its expectations hold of packets
\* that meet all that the document asks for.
ExpectationsChecked ==
    verdict.kind = "verdict" /\ verdict.passed =>
        \A i \in DOMAIN verdict.results : verdict.results[i].honoured

\* The following are refuted (README, section 6).
\* The comment on ExpectStep::required, "Fail scenario if not met": a scenario
\* that neither was stopped nor threw fails only for a required expectation.
OptionalNeverFails ==
    verdict.kind = "verdict" /\ ~verdict.passed /\ ~verdict.stopped /\ ~verdict.threw =>
        \E i \in DOMAIN verdict.results : ~verdict.results[i].passed /\ verdict.results[i].required

\* A scenario that passed executed all of its steps.
PassedIsExecuted == verdict.kind = "verdict" /\ verdict.passed => verdict.executed

\* ScenarioResult::pcap_file, "Saved pcap on failure", names a file that is there.
NamedIsSaved == verdict.kind = "verdict" => verdict.pcap # "missing"

\* A report of every format shows a failure if a scenario failed.
EveryReportShowsFailure ==
    phase = "done" /\ batch.failed > 0 =>
        \A shown \in {batch.tap, batch.junit, batch.json, batch.text} : shown > 0

\* FR-023, "non-zero on any failure": a file that does not parse is one.
ParseFailureFails == phase = "done" /\ mode = "tool" /\ unread > 0 => exit = "failure"

==============================================================================
