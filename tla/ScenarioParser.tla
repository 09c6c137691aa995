---------------------------- MODULE ScenarioParser ----------------------------
(***************************************************************************)
(* The YAML and JSON scenario parsers, CountExpression and the matcher an  *)
(* expect step is checked with.                                            *)
(*                                                                         *)
(* A step document is what a scenario file holds for one step, a step what *)
(* the parsers make of it.  An expectation is a pair <<layer, name>>: the  *)
(* value that is asked for is not distinguished.  A packet is the set of   *)
(* layers <<layer>> it decodes to and of the expectations it meets.        *)
(***************************************************************************)
EXTENDS Naturals, Sequences, FiniteSets

CONSTANTS
    AskedLayers,    \* layers and names the documents ask about
    AskedNames,
    CountTexts,     \* forms of count expressions in the documents
    CountValues     \* and their numbers

CountOps == {"==", "!=", ">", ">=", "<", "<="}

ASSUME ParserAssumption ==
    /\ CountTexts \subseteq {"missing", "invalid", "bare"} \union CountOps
    /\ CountValues \subseteq Nat

\* parse_ethernet_expect .. parse_tcp_expect
YamlNetworkFields ==
    [ethernet |-> {"src_mac", "dst_mac", "ethertype", "vlan_id"},
     ipv4 |-> {"src_ip", "dst_ip", "protocol", "ttl"},
     udp |-> {"src_port", "dst_port"},
     tcp |-> {"src_port", "dst_port", "syn", "ack", "fin", "rst"}]

\* parse_someip_message_type .. parse_payload_expect; a type that is not
\* known is read as Any.
YamlMessageFields ==
    [someip |-> {"service_id", "method_id", "client_id", "session_id", "message_type",
                 "return_code"},
     someip_sd |-> {"service_id", "instance_id", "entry_type", "major_version"},
     doip |-> {"payload_type", "source_address", "target_address"},
     payload |-> {"contains", "equals", "min_size", "max_size"}]

\* The JSON parser reads the same keys.
JsonNetworkFields == YamlNetworkFields

JsonMessageFields == YamlMessageFields

\* The fields ExpectStepMatcher::matches compares.
CheckedNetworkFields ==
    [ethernet |-> {"ethertype", "vlan_id"},
     ipv4 |-> {"protocol", "ttl"},
     udp |-> {"src_port", "dst_port"},
     tcp |-> {"src_port", "dst_port", "syn", "ack", "fin", "rst"}]

CheckedMessageFields ==
    [someip |-> {"service_id", "method_id", "client_id", "session_id", "message_type",
                 "return_code"},
     someip_sd |-> {"service_id", "instance_id"},
     doip |-> {"payload_type"},
     payload |-> {"contains", "equals", "min_size", "max_size"}]

Pairs(fields) == UNION {{l} \X fields[l] : l \in DOMAIN fields}

YamlFields == Pairs(YamlNetworkFields) \union Pairs(YamlMessageFields)
JsonFields == Pairs(JsonNetworkFields) \union Pairs(JsonMessageFields)
CheckedFields == Pairs(CheckedNetworkFields) \union Pairs(CheckedMessageFields)

\* UdsExpect can be written into a scenario, and is read by neither parser.
UdsFields == {"uds"} \X {"service", "is_request", "is_negative_response", "nrc", "session_type",
                         "data_identifiers", "routine_id", "security_level", "reset_type"}

Asked == {f \in YamlFields \union UdsFields : f[1] \in AskedLayers /\ f[2] \in AskedNames}

------------------------------------------------------------------------------
(* Documents *)

\* A count is missing, not a count expression, a bare number or an
\* operator with a number.
CountDocs ==
    {c \in [text : CountTexts, value : CountValues \union {0}] :
        c.value = 0 \/ c.text \in {"bare"} \union CountOps}

\* "other" is a step under a name the parsers do not know.
StepDocs ==
    [kind : {"capture"}, source : {"live", "pcap_file", "pcap"}]
    \union [kind : {"expect"}, asked : SUBSET Asked, count : CountDocs,
            required : BOOLEAN]
    \union [kind : {"other"}, asked : {{}}, count : [text : {"missing"}, value : {0}],
            required : {TRUE}]
    \union [kind : {"send", "wait", "log"}]

------------------------------------------------------------------------------
(* Parsing *)

\* CountExpression::evaluate
Evaluate(count, matches) ==
    CASE count.op = "==" -> matches = count.value
      [] count.op = "!=" -> matches # count.value
      [] count.op = ">" -> matches > count.value
      [] count.op = ">=" -> matches >= count.value
      [] count.op = "<" -> matches < count.value
      [] count.op = "<=" -> matches <= count.value

\* CountExpression::parse with the default of ExpectStep: an expression that
\* cannot be read leaves ">= 1", a bare number asks for at least as many.
ParseCount(doc) ==
    CASE doc.text \in {"missing", "invalid"} -> [op |-> ">=", value |-> 1]
      [] doc.text = "bare" -> [op |-> ">=", value |-> doc.value]
      [] OTHER -> [op |-> doc.text, value |-> doc.value]

\* parse_expect_step: what is asked in a block the parser reads is kept, and
\* the block's layer is asked for; a document that does not say whether the
\* expectation is required counts as one that says it is.
YamlExpectStep(doc) ==
    LET read == doc.asked \cap YamlFields
    IN [kind |-> "expect", fields |-> read, layers |-> {<<f[1]>> : f \in read},
        count |-> ParseCount(doc.count), required |-> doc.required]

JsonExpectStep(doc) ==
    LET read == doc.asked \cap JsonFields
    IN [kind |-> "expect", fields |-> read, layers |-> {<<f[1]>> : f \in read},
        count |-> ParseCount(doc.count), required |-> doc.required]

\* parse_capture_config: without pcap_file the YAML parser looks into an
\* empty optional, and takes the alternative name or not as the bytes there
\* happen to read.
YamlCaptureStep(doc) ==
    CASE doc.source = "pcap_file" -> {[kind |-> "capture", file |-> TRUE]}
      [] doc.source = "pcap" -> [kind : {"capture"}, file : BOOLEAN]
      [] doc.source = "live" -> {[kind |-> "capture", file |-> FALSE]}

JsonCaptureStep(doc) == {[kind |-> "capture", file |-> doc.source # "live"]}

\* parse_send_step and parse_wait_step: what is to be sent, and for how long to
\* wait, decides nothing later, so that a step is what its name says.
YamlPlainStep(doc) == {[kind |-> doc.kind]}

JsonPlainStep(doc) == {[kind |-> doc.kind]}

\* parse_log_step: the text stands alone or beside a level, "info" without one.
YamlLogStep(doc) == {[kind |-> "log"]}

JsonLogStep(doc) == {[kind |-> "log"]}

\* parse_step: a step under no known name is read as an expect step.
YamlStep(doc) ==
    CASE doc.kind = "capture" -> YamlCaptureStep(doc)
      [] doc.kind \in {"expect", "other"} -> {YamlExpectStep(doc)}
      [] doc.kind = "log" -> YamlLogStep(doc)
      [] OTHER -> YamlPlainStep(doc)

JsonStep(doc) ==
    CASE doc.kind = "capture" -> JsonCaptureStep(doc)
      [] doc.kind \in {"expect", "other"} -> {JsonExpectStep(doc)}
      [] doc.kind = "log" -> JsonLogStep(doc)
      [] OTHER -> JsonPlainStep(doc)

\* A scenario file, and what may become of it.
Files == [format : {"yaml", "json", "other"}, readable : BOOLEAN, wellFormed : BOOLEAN,
          tagged : BOOLEAN]

\* parse_scenario_file: a YAML file that cannot be opened is an empty
\* document, a JSON file that cannot be opened is an error.
FileParses(f) ==
    CASE f.format = "yaml" -> ~f.readable \/ f.wellFormed
      [] f.format = "json" -> f.readable /\ f.wellFormed
      [] f.format = "other" -> FALSE

FileSteps(f, n) == IF f.readable THEN n ELSE 0

\* What the parser of the file's format may make of a step.
StepsOf(format, doc) == IF format = "yaml" THEN YamlStep(doc) ELSE JsonStep(doc)

\* The tags of a file nobody could read are not found.
FileHasTag(f) == f.readable /\ f.tagged

------------------------------------------------------------------------------
(* Matching *)

Packets ==
    {p \in SUBSET ({<<l>> : l \in AskedLayers} \union Asked) :
        \A f \in p \cap Asked : <<f[1]>> \in p}

\* ExpectStepMatcher::matches: the layer of each block is there, and the
\* fields that are compared agree.
Matches(step, packet) == step.layers \union (step.fields \cap CheckedFields) \subseteq packet

\* The packet meets all that the document asks for.
Meets(doc, packet) == doc.asked \subseteq packet

Among(packets, Test(_)) == Cardinality({i \in DOMAIN packets : Test(packets[i])})

==============================================================================
