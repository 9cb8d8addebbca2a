------------------------------ MODULE LogFormat ------------------------------
(***************************************************************************)
(* From a log line to fields: the default, csv, generic and generickv      *)
(* parsers, all of which materialise only the fields of the query's plan   *)
(* (internal/mapr/logformat).  A line is the sequence of the tokens        *)
(* between its delimiters.                                                 *)
(***************************************************************************)
EXTENDS QueryLanguage

CONSTANTS
    KeyValueOf,      \* tokens of the form key=value: [key, value]
    InfoTokens,      \* tokens that start with INFO
    MapreduceTokens, \* tokens that start with MAPREDUCE:
    DateOf,          \* 15-letter time stamps: [$date, $hour, $minute, $second]
    LineText,        \* [line -> the text of the line]
    CommonValues     \* $hostname, $server, $timezone and $timeoffset of this server

NoFields == << >>
Ignored == [outcome |-> "ignore", fields |-> NoFields]
Refused == [outcome |-> "error", fields |-> NoFields]
Parsed(fields) == [outcome |-> "fields", fields |-> fields]

Wanted(plan, fields) == [f \in {g \in DOMAIN fields : Needs(plan, g)} |-> fields[f]]

\* addDefaultFields
DefaultFields(line) ==
    "*" :> "*" @@ "$line" :> LineText[line] @@ "$empty" :> "" @@ CommonValues

Positional == <<"$severity", "$time", "$pid", "$caller", "$cpus", "$goroutines", "$cgocalls",
                "$loadavg", "$uptime">>

PositionalFields(line) ==
    [name \in Range(Positional) |-> line[CHOOSE i \in DOMAIN Positional : Positional[i] = name]]
        @@ "$loglevel" :> line[1]
        @@ (IF line[2] \in DOMAIN DateOf THEN DateOf[line[2]] ELSE NoFields)

\* Of two equal keys the later one wins.
KeyValueFields(tokens) ==
    FoldLeft(LAMBDA fs, t : KeyValueOf[t].key :> KeyValueOf[t].value @@ fs, NoFields, tokens)

AllKeyValue(tokens) == Range(tokens) \subseteq DOMAIN KeyValueOf

DefaultMakeFields(line) ==
    LET dynamic == SubSeq(line, 11, Len(line))
    IN  IF line[1] \notin InfoTokens \/ Len(line) < 11 \/ line[10] \notin MapreduceTokens THEN Ignored
        ELSE IF ~AllKeyValue(dynamic) THEN Refused
        ELSE Parsed(KeyValueFields(dynamic) @@ PositionalFields(line) @@ DefaultFields(line))

\* The first line of a source is its header (ensureHeader).
CsvMakeFields(line, header) ==
    IF header = <<>> THEN Ignored
    ELSE IF Len(line) > Len(header) THEN Refused
    ELSE LET columns == FoldLeftDomain(LAMBDA fs, i : header[i] :> line[i] @@ fs, NoFields, line)
         IN  Parsed(columns @@ DefaultFields(line))

HeaderAfter(format, line, header) == IF format = "csv" /\ header = <<>> THEN line ELSE header

GenericMakeFields(line) == Parsed(DefaultFields(line))

\* Defined for lines of key=value tokens only: at any other token the loop does
\* not advance.
GenericKVMakeFields(line) == Parsed(KeyValueFields(line) @@ DefaultFields(line))

\* NewParser refuses a format that nobody registered or that is only a stub, and
\* NewAggregate then takes the generic parser.
Parse(format, line, header) ==
    CASE format = "csv" -> CsvMakeFields(line, header)
      [] format = "default" -> DefaultMakeFields(line)
      [] format = "generickv" -> GenericKVMakeFields(line)
      [] OTHER -> GenericMakeFields(line)

\* No parser sets a field that the plan does not need.
MakeFields(format, plan, line, header) ==
    LET parsed == Parse(format, line, header)
    IN  [outcome |-> parsed.outcome, fields |-> Wanted(plan, parsed.fields)]
=============================================================================
