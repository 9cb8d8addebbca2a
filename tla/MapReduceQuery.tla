--------------------------- MODULE MapReduceQuery ---------------------------
(***************************************************************************)
(* A mapreduce query from its text to its result: the server parses it and *)
(* checks the user's permission, its parsers and its aggregate take in the *)
(* lines of several sources with the field plan of the query, partial      *)
(* results are serialized at any time, and the client adds them up.  How   *)
(* the goroutines synchronise is in the modules Aggregate and              *)
(* ClientMapReduce; this one is about the values.                          *)
(***************************************************************************)
EXTENDS AggregateSet, Permissions

CONSTANTS
    Cases,           \* [parts, query, configured, files, user, rules, path, type]
    Sources, Servers,
    ServerOf         \* [Sources -> Servers]

ASSUME MapReduceAssumption == ServerOf \in [Sources -> Servers]

\* The permissions of a user and the clauses of a query that parses are lists.
Rule == [type : STRING, deny : BOOLEAN, regex : STRING]
SelectConditions == [ok : {TRUE}, Field : STRING, FieldStorage : STRING, Operation : Aggregations]
SetConditions == [ok : {TRUE}, lString : STRING, rType : {"Field", "Float", "FunctionStack"},
                  rString : STRING, functionStack : Seq(STRING)]
CasesTyped ==
    \A c \in Cases : /\ c.rules \in Seq(Rule)
                     /\ LET q == NewQuery(c.parts)
                        IN  q.ok => q.Select \in Seq(SelectConditions) /\ q.Set \in Seq(SetConditions)

ASSUME CasesAssumption == CasesTyped

VARIABLES
    case,
    query,           \* the parsed query
    granted,         \* the user may read the files
    files,           \* [Sources -> lines yet to be read]
    headers,         \* [Sources -> csv header]
    sets,            \* [Servers -> group key -> aggregate set]
    wire,            \* [Servers -> messages]
    local,           \* [Servers -> sets], the client's per connection
    global,
    fullSets,        \* history: sets of a parser that materialises every field
    evaluated        \* history: [Servers -> fields of the lines that count]

queryVars == <<case, query, granted, files, headers, sets, wire, local, global, fullSets, evaluated>>

NotParsed == [ok |-> FALSE, parsed |-> FALSE]

QueryInit ==
    /\ case \in Cases
    /\ query = NotParsed /\ granted = FALSE
    /\ files = case.files
    /\ headers = [f \in Sources |-> <<>>]
    /\ sets = [s \in Servers |-> NoSets] /\ fullSets = sets
    /\ wire = [s \in Servers |-> <<>>]
    /\ local = [s \in Servers |-> NoSets] /\ global = NoSets
    /\ evaluated = [s \in Servers |-> <<>>]

\* NewAggregate and the permission check of the read command.
StartQuery ==
    /\ query = NotParsed
    /\ query' = NewQuery(case.parts)
    /\ granted' = ValidateReadTarget(case.user, case.rules, case.path, case.type)
    /\ UNCHANGED <<case, files, headers, sets, wire, local, global, fullSets, evaluated>>

Format == EffectiveLogFormat(query, case.configured)

\* A number that the set clause assigns is no field, and neither is the empty
\* name, unless a clause asks for it.
Literals(q) == {""} \union {sc.rString : sc \in {s \in Range(q.Set) : s.rType = "Float"}}
WithoutLiterals(parsed) ==
    LET ignored == Literals(query) \ ParserFieldPlan(query).Fields
        fields == parsed.fields
    IN  [outcome |-> parsed.outcome, fields |-> [n \in DOMAIN fields \ ignored |-> fields[n]]]

\* The next line of a source, or the one after it: two goroutines may each have
\* taken a batch, and the later batch be processed first.
ProcessLine(f, i) ==
    LET s == ServerOf[f]
        line == files[f][i]
        planned == MakeFields(Format, ParserFieldPlan(query), line, headers[f])
        full == WithoutLiterals(MakeFields(Format, AllFields, line, headers[f]))
        counts == full.outcome = "fields" /\ WhereClause(query, full.fields)
    IN  /\ query.ok /\ granted /\ i \in DOMAIN files[f]
        /\ files' = [files EXCEPT ![f] = RemoveAt(@, i)]
        /\ headers' = [headers EXCEPT ![f] = HeaderAfter(Format, line, @)]
        /\ sets' = [sets EXCEPT ![s] = ProcessParsed(query, @, planned)]
        /\ fullSets' = [fullSets EXCEPT ![s] = ProcessParsed(query, @, full)]
        /\ evaluated' = IF counts THEN [evaluated EXCEPT ![s] = Append(@, SetClause(query, full.fields))]
                        ELSE evaluated
        /\ UNCHANGED <<case, query, granted, wire, local, global>>

Serialize(s) ==
    /\ sets[s] # NoSets
    /\ wire' = [wire EXCEPT ![s] = @ \o SetToSeq(Messages(sets[s]))]
    /\ sets' = [sets EXCEPT ![s] = NoSets]
    /\ fullSets' = [fullSets EXCEPT ![s] = NoSets]
    /\ UNCHANGED <<case, query, granted, files, headers, local, global, evaluated>>

Receive(s) ==
    /\ wire[s] # <<>>
    /\ wire' = [wire EXCEPT ![s] = Tail(@)]
    /\ local' = [local EXCEPT ![s] = AggregateMessage(query, @, Head(wire[s]))]
    /\ UNCHANGED <<case, query, granted, files, headers, sets, global, fullSets, evaluated>>

\* MergeNoblock when it gets the semaphore, or the final Flush.
Merge(s) ==
    /\ local[s] # NoSets
    /\ global' = MergeSets(query, global, local[s])
    /\ local' = [local EXCEPT ![s] = NoSets]
    /\ UNCHANGED <<case, query, granted, files, headers, sets, wire, fullSets, evaluated>>

QueryNext ==
    \/ StartQuery
    \/ \E f \in Sources : \E i \in 1..2 : ProcessLine(f, i)
    \/ \E s \in Servers : Serialize(s) \/ Receive(s) \/ Merge(s)

QuerySpec == QueryInit /\ [][QueryNext]_queryVars

------------------------------------------------------------------------------
(* Properties.                                                               *)

\* A query is read as it was meant, whatever the order of its clauses, the case
\* of its keywords and the quotes around names, and a malformed one is refused.
ParsedAsMeant == query # NotParsed => query = case.query

\* The parsers leave out every field that the plan does not name, and no result
\* depends on one they left out.
PlanSufficient == sets = fullSets

\* Deny wins: a user reads a file only if a rule of the right type allows its
\* resolved path, no rule denies it and all of them compile, in whatever order
\* the rules stand; the server's own users need no rule.
RulesGrant(path) ==
    LET applicable == {r \in Range(case.rules) : r.type = case.type}
        matches(r) == path \in Matching[r.regex]
    IN  /\ \A r \in applicable : r.regex \in DOMAIN Matching /\ ~(r.deny /\ matches(r))
        /\ \E r \in applicable : ~r.deny /\ matches(r)
DenyWins ==
    query # NotParsed =>
        (granted <=> \/ /\ case.path \in Journals
                        /\ case.user \in InternalUsers \/ RulesGrant(case.path)
                     \/ /\ case.path \in DOMAIN CleanPath \ Journals
                        /\ CleanPath[case.path] \in Regular
                        /\ \/ case.user \in InternalUsers
                           \/ <<case.user, CleanPath[case.path]>> \in OsReadable /\ RulesGrant(CleanPath[case.path]))

Finished ==
    /\ query.ok /\ granted
    /\ \A f \in Sources : files[f] = <<>>
    /\ \A s \in Servers : sets[s] = NoSets /\ wire[s] = <<>> /\ local[s] = NoSets

\* The lines that count, by server and position, of one group.
LinesOf(key) ==
    {p \in UNION {{s} \X DOMAIN evaluated[s] : s \in Servers} :
        BuildGroupKey(query.GroupBy, evaluated[p[1]][p[2]]) = key}
Field(p, name) == evaluated[p[1]][p[2]][name]
Number(p, name) == Floats[Field(p, name)]
LastOf(key) == {p \in LinesOf(key) : \A o \in LinesOf(key) : o[1] = p[1] => o[2] <= p[2]}

\* What the select clause asks for, from all lines of a group at once.  The last
\* value is the last one of some server.
Expected(sc, key, set) ==
    LET ps == LinesOf(key)
        value == FValue(set, sc.FieldStorage)
        sum == MapThenSumSet(LAMBDA p : Number(p, sc.Field), ps)
    IN  CASE sc.Operation = "count" -> value = Cardinality(ps)
          [] sc.Operation = "min" -> value = Min({Number(p, sc.Field) : p \in ps})
          [] sc.Operation = "max" -> value = Max({Number(p, sc.Field) : p \in ps})
          [] sc.Operation = "last" -> SValue(set, sc.FieldStorage) \in {Field(p, sc.Field) : p \in LastOf(key)}
          [] sc.Operation = "len" -> value \in {LengthOf[Field(p, sc.Field)] : p \in LastOf(key)}
          [] sc.Operation = "avg" -> value = sum /\ set.Samples = Cardinality(ps)
          [] OTHER -> value = sum

\* The groups of the result are those of the lines with a value that can be
\* aggregated: none is lost, and none invented.
Groups ==
    LET lines == UNION {Range(evaluated[s]) : s \in Servers}
    IN  {BuildGroupKey(query.GroupBy, line) : line \in {l \in lines : Aggregated(query, l, FALSE) # {}}}
GroupsExact == Finished => DOMAIN global = Groups

\* What the csv parser is documented to do: the first line of a file is its header.
FirstLineIsHeader == \A f \in Sources : headers[f] # <<>> => headers[f] = Head(case.files[f])

\* However the lines are spread over servers, batches, partial results and merges,
\* the result has one row per group with the values computed from all lines,
\* ordered and limited as the query says (lines that lack a selected field, and
\* csv files whose header was overtaken, excepted).
ResultExact ==
    Finished /\ FirstLineIsHeader =>
        LET keys == Groups
            rows == ResultKeys(query, global)
            order == CHOOSE sc \in Range(query.Select) : sc.FieldStorage = query.OrderBy
            value(key) == ResultValue(global, order, global[key])
            ahead(a, b) == a[1] * b[2] > b[1] * a[2]
        IN  /\ GroupsExact
            /\ \A key \in keys : \A sc \in Range(query.Select) : Expected(sc, key, global[key])
            /\ Len(rows) = IF query.Limit >= 0 THEN Min({query.Limit, Cardinality(keys)}) ELSE Cardinality(keys)
            /\ query.OrderBy # "" =>
                \A i \in DOMAIN rows : \A key \in keys :
                    key \notin {rows[j] : j \in 1..i} =>
                        ~(IF query.ReverseOrder THEN ahead(value(rows[i]), value(key))
                                                ELSE ahead(value(key), value(rows[i])))
=============================================================================
