-------------------------- MODULE MCMapReduceQuery --------------------------
EXTENDS MapReduceQuery

MCServerOf == "f1" :> "s1" @@ "f2" :> "s2" @@ "f3" :> "s1"

MCLowerOf == "SELECT" :> "select" @@ "From" :> "from" @@ "LIMIT" :> "limit" @@ "AND" :> "and" @@ "By" :> "by"
MCUpperOf == "stats" :> "STATS"
\* ~ stands for the back quote.
MCUnquoted == "~limit~" :> "limit" @@ "~count(a)~" :> "count(a)"
MCFloats == "01" :> 1 @@ [s \in {ToString(n) : n \in 0..12} |-> CHOOSE n \in 0..12 : ToString(n) = s]
Call(names, arg) == [names |-> names, arg |-> arg, balanced |-> TRUE, closed |-> TRUE]
MCCalls ==
    "count(a)" :> Call(<<"count">>, "a") @@ "sum(b)" :> Call(<<"sum">>, "b") @@ "sum(c)" :> Call(<<"sum">>, "c")
    @@ "min(b)" :> Call(<<"min">>, "b") @@ "max(b)" :> Call(<<"max">>, "b") @@ "avg(b)" :> Call(<<"avg">>, "b") @@ "len($v)" :> Call(<<"len">>, "$v")
    @@ "last($v)" :> Call(<<"last">>, "$v") @@ "percentage(b)" :> Call(<<"percentage">>, "b")
    @@ "percentile(b)" :> Call(<<"percentile">>, "b") @@ "maskdigits(c)" :> Call(<<"maskdigits">>, "c")
    @@ "maskdigits(md5sum(c))" :> Call(<<"maskdigits", "md5sum">>, "c") @@ "mode(b)" :> Call(<<"mode">>, "b")
    @@ "sum(b" :> [names |-> <<"sum">>, arg |-> "b", balanced |-> FALSE, closed |-> FALSE]
MCVariables == {"$v", "$w", "$line"}
MCCallbackOf == [name \in {"maskdigits", "md5sum"} |->
    [s \in {"2", "01", "7", "u", "c", "3", "digest", "."} |->
        IF name = "md5sum" THEN "digest" ELSE IF s \in DOMAIN MCFloats THEN "." ELSE s]]
MCRelated == {<<"StringContains", "xy", "y">>, <<"StringHasPrefix", "xy", "x">>, <<"StringHasSuffix", "xy", "y">>,
              <<"StringContains", "x", "x">>, <<"StringHasPrefix", "x", "x">>}
MCKeyValueOf == "a=x" :> [key |-> "a", value |-> "x"] @@ "a=y" :> [key |-> "a", value |-> "y"]
             @@ "b=3" :> [key |-> "b", value |-> "3"] @@ "c=u" :> [key |-> "c", value |-> "u"]
             @@ "$w=2" :> [key |-> "$w", value |-> "2"] @@ "$w=3" :> [key |-> "$w", value |-> "3"]
MCDateOf == "20211002-071209" :> ("$date" :> "20211002" @@ "$hour" :> "07" @@ "$minute" :> "12" @@ "$second" :> "09")
MCCommonValues == "$hostname" :> "h" @@ "$server" :> "h" @@ "$timezone" :> "UTC" @@ "$timeoffset" :> "0"

\* Lines: default format, and csv with its header.
Default(rest) == <<"INFO", "20211002-071209", "1", "main", "4", "5", "6", "7", "8", "MAPREDUCE:STATS">> \o rest
Header == <<"a", "b", "c">>
Numbered == <<"a", "b", "7">>      \* a column with the name of a number
CsvLines == {<<"x", "1", "2">>, <<"y", "3", "01">>, <<"x", "0", "u">>}
Broken == <<"x", "1", "2", "3">>
DefaultLines == {Default(<<"a=x", "b=3", "c=u", "$w=2">>), Default(<<"a=y", "b=3", "c=u", "$w=3">>)}
Alien == Default(<<"a=x", "noise">>)
KVLines == {<<"a=x", "b=3">>, <<"a=y", "b=3", "a=x">>, <<"a=y", "b=3", "c=u">>}
AllLines == KVLines \union CsvLines \union DefaultLines \union {Header, Numbered, Broken, Alien, <<"WARN">>}
MCLineText == [l \in AllLines |-> "text"]
MCLengthOf == [s \in {"$w", "2", "01", "7", "u", "c", "digest", ".", "3", "text"} |->
    IF s = "digest" THEN 6 ELSE IF s \in {"01", "$w"} THEN 2 ELSE 1]
MCRank == LET sorted == <<"", ".", "0", "01", "1", "2", "3", "7", "text", "u", "x", "y">>
          IN  [str \in Range(sorted) |-> CHOOSE i \in DOMAIN sorted : sorted[i] = str]

\* Clauses: how they are written, cut at the double quotes, and what they mean.
Clause(text, key, value) == [text |-> text, meaning |-> key :> value]
Plain(name) == [ok |-> TRUE, Field |-> name, FieldStorage |-> name, Operation |-> "last"]
Agg(op, field, text) == [ok |-> TRUE, Field |-> field, FieldStorage |-> text, Operation |-> op]
Where(op, l, r) == [ok |-> TRUE, Operation |-> op, l |-> l, r |-> r]
O(type, str) == [type |-> type, str |-> str]
Set(l, type, r, stack) == [ok |-> TRUE, lString |-> l, rType |-> type, rString |-> r, functionStack |-> stack]

SelectTotals == Clause(<<<<"SELECT", "a", "count(a)", "sum(b)", "avg(b)", "percentile(b)">>>>, "Select",
    <<Plain("a"), Agg("count", "a", "count(a)"), Agg("sum", "b", "sum(b)"), Agg("avg", "b", "avg(b)"),
      Agg("percentile", "b", "percentile(b)")>>)
SelectExtremes == Clause(<<<<"select", "min(b)", "max(b)", "len($v)", "last($v)", "percentage(b)">>>>, "Select",
    <<Agg("min", "b", "min(b)"), Agg("max", "b", "max(b)"), Agg("len", "$v", "len($v)"), Agg("last", "$v", "last($v)"),
      Agg("percentage", "b", "percentage(b)")>>)
SelectSum == Clause(<<<<"select", "sum(c)">>>>, "Select", <<Agg("sum", "c", "sum(c)")>>)
SelectQuoted == Clause(<<<<"select", "~limit~", "~count(a)~", "a">>>>, "Select",
    <<Plain("limit"), Plain("count(a)"), Plain("a")>>)
SelectLines == Clause(<<<<"select", "$line", "$hostname">>>>, "Select", <<Plain("$line"), Plain("$hostname")>>)
From == Clause(<<<<"From", "stats">>>>, "Table", "STATS")
WhereBoth == Clause(<<<<"where", "b", ">=", "01", "AND", "a", "ne">>, <<"y">>, <<>>>>, "Where",
    <<Where("FloatGe", O("Field", "b"), O("Float", "01")), Where("StringNe", O("Field", "a"), O("String", "y"))>>)
WhereLimit == Clause(<<<<"where">>, <<"x">>, <<"hasprefix", "~limit~">>>>, "Where",
    <<Where("StringHasPrefix", O("String", "x"), O("Field", "limit"))>>)
WhereWritten == Clause(<<<<"where", "$w", "eq", "b">>>>, "Where",
    <<Where("StringEq", O("Field", "$w"), O("Field", "b"))>>)
SetMasked == Clause(<<<<"set", "$v", "=", "maskdigits(c)">>>>, "Set", <<Set("$v", "FunctionStack", "c", <<"maskdigits">>)>>)
SetNumber == Clause(<<<<"set", "$v", "=", "7">>>>, "Set", <<Set("$v", "Float", "7", <<>>)>>)
SetSwapped == Clause(<<<<"set", "$v", "=", "$w", "$w", "=", "maskdigits(md5sum(c))">>>>, "Set",
    <<Set("$v", "Field", "$w", <<>>), Set("$w", "FunctionStack", "c", <<"maskdigits", "md5sum">>)>>)
SetOpen == Clause(<<<<"set", "$v", "=", "sum(b">>>>, "Set", <<Set("$v", "Field", "sum(b", <<>>)>>)
GroupA == Clause(<<<<"group", "By", "a">>>>, "GroupBy", <<"a">>)
GroupAB == Clause(<<<<"group", "by", "a", "b">>>>, "GroupBy", <<"a", "b">>)
GroupVar == Clause(<<<<"group", "$v", "a">>>>, "GroupBy", <<"$v", "a">>)
OrderSum == Clause(<<<<"order", "by", "sum(b)">>>>, "OrderBy", "sum(b)")
RorderMax == [text |-> <<<<"rorder", "max(b)">>>>, meaning |-> "OrderBy" :> "max(b)" @@ "ReverseOrder" :> TRUE]
Limit1 == Clause(<<<<"LIMIT", "1">>>>, "Limit", 1)
Every2 == Clause(<<<<"interval", "2">>>>, "Interval", 2)
Append1 == Clause(<<<<"outfile", "append">>, <<"r.csv">>, <<>>>>, "Outfile", [path |-> "r.csv", append |-> TRUE])
Csv == Clause(<<<<"logformat", "csv">>>>, "LogFormat", "csv")

KeyValue == Clause(<<<<"logformat", "generickv">>>>, "LogFormat", "generickv")
Stub == Clause(<<<<"logformat", "custom1">>>>, "LogFormat", "custom1")

JoinParts(p, q) == Front(p) \o <<Last(p) \o Head(q)>> \o Tail(q)
TextOf(clauses) == FoldLeft(LAMBDA t, c : JoinParts(t, c.text), <<<<>>>>, clauses)
MeaningOf(clauses) ==
    LET q == FoldLeft(LAMBDA m, c : c.meaning @@ m, EmptyQuery, clauses)
    IN  [q EXCEPT !.GroupBy = IF @ = <<>> THEN <<q.Select[1].Field>> ELSE @,
                  !.Table = IF @ = "" /\ q.LogFormat = "csv" THEN "." ELSE @]

\* Case of the query language only: the user may not read anything.
NoRules == [user |-> "u", rules |-> <<>>, path |-> "/log", type |-> "readfiles"]
NoLines == [files |-> [f \in Sources |-> <<>>], configured |-> ""]
WellFormed == {[parts |-> TextOf(cs), query |-> MeaningOf(cs)] : cs \in
    UNION {SetToSeqs(set) : set \in {
        {SelectTotals, From, WhereBoth, GroupA, OrderSum},
        {SelectExtremes, SetSwapped, GroupVar, Limit1, Csv},
        {SelectQuoted, WhereLimit, Every2, Append1},
        {SelectLines, SetOpen},
        {SelectExtremes, SetMasked, RorderMax, Csv}}}}
Malformed == {[parts |-> <<text>>, query |-> Failed] : text \in {
    <<"a", "from", "stats">>, <<"from", "stats">>, <<"select", "mode(b)">>, <<"select", "sum(b">>,
    <<"select", "a", "group", "by">>, <<"select", "a", "where", "a", "eq">>, <<"select", "a", "set", "v", "=", "1">>,
    <<"select", "a", "order", "by", "b">>, <<"select", "a", "set", "$v", "=", "sum(b)">>, <<"select", "a", "limit", "b">>, <<"select", "a", "from", "x", "y">>}}
TextCases == {t @@ NoRules @@ NoLines : t \in WellFormed \union Malformed}

\* Cases of the values: everything may be read.
Everything == [user |-> "u", rules |-> <<[type |-> "readfiles", deny |-> FALSE, regex |-> ".*"]>>,
               path |-> "/log", type |-> "readfiles"]
Files(f1, f2, f3) == "f1" :> f1 @@ "f2" :> f2 @@ "f3" :> f3
CsvFiles == {Files(<<Header, l1, l2>>, <<Header, l2, Broken>>, <<Header, l1>>) :
                l1 \in CsvLines, l2 \in CsvLines}
NumberedFiles == {Files(<<Numbered, l1, l2>>, <<Numbered, l2>>, <<>>) : l1 \in CsvLines, l2 \in CsvLines}
DefaultFiles == {Files(<<l1, <<"WARN">>, l2>>, <<l2, Alien>>, <<>>) : l1 \in DefaultLines, l2 \in DefaultLines}
KVFiles == {Files(<<l1>>, <<l1, l2>>, <<l2>>) : l1 \in KVLines, l2 \in KVLines}
CsvQueries == {<<SelectTotals, OrderSum, Limit1, Csv>>, <<SelectExtremes, SetMasked, RorderMax, GroupVar, Csv>>,
               <<SelectSum, GroupAB, Csv>>}
DefaultQueries == {<<SelectTotals, From, WhereBoth, OrderSum>>, <<SelectExtremes, From, WhereWritten, SetSwapped, GroupA>>,
                   <<SelectExtremes, From, SetSwapped, GroupA>>}
KVQueries == {<<SelectTotals, WhereBoth, KeyValue>>, <<SelectTotals, From, KeyValue, OrderSum>>, <<SelectLines>>, <<SelectLines, From, Stub>>}
ValueCases ==
    {[parts |-> TextOf(cs), query |-> MeaningOf(cs), files |-> fs, configured |-> ""] @@ Everything :
        cs \in CsvQueries, fs \in CsvFiles}
    \union {[parts |-> TextOf(cs), query |-> MeaningOf(cs), files |-> fs, configured |-> ""] @@ Everything :
        cs \in {<<SelectExtremes, SetNumber, GroupVar, Csv>>}, fs \in NumberedFiles}
    \union {[parts |-> TextOf(cs), query |-> MeaningOf(cs), files |-> fs, configured |-> ""] @@ Everything :
        cs \in DefaultQueries, fs \in DefaultFiles}
    \union {[parts |-> TextOf(cs), query |-> MeaningOf(cs), files |-> fs, configured |-> ""] @@ Everything :
        cs \in KVQueries, fs \in KVFiles}

\* Cases of the permissions.
MCMatching == ".*" :> {"/log", "/secret", "journal:a"} @@ "secret" :> {"/secret"} @@ "journal" :> {"journal:a"}
MCOsReadable == {<<"u", "/log">>, <<"u", "/secret">>}
MCCleanPath == "/log" :> "/log" @@ "/link" :> "/secret" @@ "/dir" :> "/dir"
Rules == {[type |-> t, deny |-> d, regex |-> r] : t \in {"readfiles", "other"}, d \in BOOLEAN, r \in {".*", "secret", "("}}
RuleCases ==
    {[parts |-> <<<<"select", "a">>>>, query |-> MeaningOf(<<Clause(<<>>, "Select", <<Plain("a")>>)>>),
      user |-> u, path |-> p, type |-> "readfiles", rules |-> rs] @@ NoLines :
        u \in {"u", "DTAIL-SCHEDULE"}, p \in {"/log", "/link", "/dir", "/gone", "journal:a"},
        rs \in {<<>>} \union [1..1 -> Rules] \union [1..2 -> Rules]}

MCCases == TextCases \union ValueCases \union RuleCases
=============================================================================
