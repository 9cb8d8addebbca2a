---------------------------- MODULE QueryLanguage ----------------------------
(***************************************************************************)
(* The mapreduce query language: from tokens to a query, and what the      *)
(* where and set clauses of a query do to the fields of a line             *)
(* (internal/mapr/query.go, token.go, the condition and clause files,      *)
(* funcs/function.go).  A string is an atom; what the code finds out by    *)
(* looking into one (its lower case, the number it spells, the call it     *)
(* spells, whether it contains another) is a table.                        *)
(***************************************************************************)
EXTENDS Integers, Sequences, SequencesExt, TLC

CONSTANTS
    LowerOf,        \* strings whose lower case is another string
    UpperOf,        \* the same for upper case
    Unquoted,       \* back-quoted strings, without their quotes
    Floats,         \* strings that spell a number
    Calls,          \* strings like f(g(x)): [names, arg, balanced, closed]
    Variables,      \* strings that start with $
    CallbackOf,     \* [function name -> [string -> string]]
    Related         \* <<operation, l, r>>: l contains, starts or ends with r

ToLower(s) == IF s \in DOMAIN LowerOf THEN LowerOf[s] ELSE s
ToUpper(s) == IF s \in DOMAIN UpperOf THEN UpperOf[s] ELSE s
IsFloat(s) == s \in DOMAIN Floats

Keywords == {"select", "from", "where", "set", "group", "rorder", "order", "interval",
             "limit", "outfile", "logformat"}

\* Mutant: keywords are recognised in lower case only.
IsKeywordExact(t) == t.isBareword /\ t.str \in Keywords

IsKeyword(t) == t.isBareword /\ ToLower(t.str) \in Keywords

\* The query string, cut at its double quotes: words that are not quoted and
\* quoted strings alternate.
Tokenize(parts) ==
    FlattenSeq([i \in DOMAIN parts |->
        [j \in DOMAIN parts[i] |-> [str |-> parts[i][j], isBareword |-> i % 2 = 1]]])

\* Back quotes are stripped, empty strings skipped.
Strip(t) ==
    [str |-> IF t.str \in DOMAIN Unquoted THEN Unquoted[t.str] ELSE t.str,
     isBareword |-> t.isBareword, quotesStripped |-> t.str \in DOMAIN Unquoted]

Consumed(tokens) ==
    LET kept == SelectSeq(tokens, LAMBDA t : t.str # "")
    IN  [i \in DOMAIN kept |-> Strip(kept[i])]

ConsumeOptional(tokens, word) ==
    IF tokens # <<>> /\ ToLower(Head(tokens).str) = word THEN Tail(tokens) ELSE tokens

Strs(tokens) == [i \in DOMAIN tokens |-> tokens[i].str]

------------------------------------------------------------------------------
(* Conditions.  A condition that cannot be parsed has ok = FALSE.            *)

Failed == [ok |-> FALSE]

Aggregations == {"count", "sum", "min", "max", "last", "avg", "len", "percentage", "percentile"}

SelectCondition(t) ==
    IF t.quotesStripped \/ t.str \notin DOMAIN Calls
    THEN [ok |-> TRUE, Field |-> t.str, FieldStorage |-> t.str, Operation |-> "last"]
    ELSE LET call == Calls[t.str]
         IN  IF call.balanced /\ Len(call.names) = 1 /\ call.names[1] \in Aggregations
             THEN [ok |-> TRUE, Field |-> call.arg, FieldStorage |-> t.str, Operation |-> call.names[1]]
             ELSE Failed

FloatOperationOf == "==" :> "FloatEq" @@ "!=" :> "FloatNe" @@ "<" :> "FloatLt" @@ "<=" :> "FloatLe"
                 @@ "=<" :> "FloatLe" @@ ">" :> "FloatGt" @@ ">=" :> "FloatGe" @@ "=>" :> "FloatGe"
StringOperationOf == "eq" :> "StringEq" @@ "ne" :> "StringNe" @@ "contains" :> "StringContains"
                  @@ "lacks" :> "StringNotContains" @@ "ncontains" :> "StringNotContains"
                  @@ "hasprefix" :> "StringHasPrefix" @@ "nhasprefix" :> "StringNotHasPrefix"
                  @@ "hassuffix" :> "StringHasSuffix" @@ "nhassuffix" :> "StringNotHasSuffix"

Operand(type, t) == [type |-> type, str |-> t.str]
FloatOperand(t) == Operand(IF IsFloat(t.str) THEN "Float" ELSE "Field", t)
StringOperand(t) == Operand(IF t.isBareword THEN "Field" ELSE "String", t)

WhereCondition(l, op, r) ==
    LET name == ToLower(op.str)
    IN  IF name \in DOMAIN FloatOperationOf /\ l.isBareword /\ r.isBareword
        THEN [ok |-> TRUE, Operation |-> FloatOperationOf[name], l |-> FloatOperand(l), r |-> FloatOperand(r)]
        ELSE IF name \in DOMAIN StringOperationOf
        THEN [ok |-> TRUE, Operation |-> StringOperationOf[name], l |-> StringOperand(l), r |-> StringOperand(r)]
        ELSE Failed

\* A right-hand side that ends with a parenthesis is a stack of functions around
\* a field or a literal, unless it was back-quoted.
SetCondition(l, op, r) ==
    LET condition(type, str, functions) ==
            [ok |-> TRUE, lString |-> l.str, rType |-> type, rString |-> str, functionStack |-> functions]
    IN  CASE op.str # "=" \/ ~l.isBareword \/ l.str \notin Variables -> Failed
          [] r.quotesStripped -> condition("Field", r.str, <<>>)
          [] r.str \in DOMAIN Calls /\ Calls[r.str].closed ->
                LET call == Calls[r.str]
                IN  IF call.balanced /\ Range(call.names) \subseteq DOMAIN CallbackOf
                    THEN condition("FunctionStack", call.arg, call.names)
                    ELSE Failed
          [] OTHER -> condition(IF IsFloat(r.str) THEN "Float" ELSE "Field", r.str, <<>>)

\* Three tokens make a condition, an optional word may follow it.
Conditions(clause, tokens) ==
    LET optional == IF clause = "where" THEN "and" ELSE ","
        make(l, op, r) == IF clause = "where" THEN WhereCondition(l, op, r) ELSE SetCondition(l, op, r)
        step(acc, t) ==
            IF acc.buf = <<>> /\ acc.optional /\ ToLower(t.str) = optional
            THEN [acc EXCEPT !.optional = FALSE]
            ELSE IF Len(acc.buf) < 2 THEN [acc EXCEPT !.buf = Append(@, t), !.optional = FALSE]
            ELSE [conds |-> Append(acc.conds, make(acc.buf[1], acc.buf[2], t)), buf |-> <<>>, optional |-> TRUE]
        all == FoldLeft(step, [conds |-> <<>>, buf |-> <<>>, optional |-> FALSE], tokens)
    IN  IF all.buf = <<>> THEN all.conds ELSE <<Failed>>

AllOk(conds) == \A i \in DOMAIN conds : conds[i].ok

------------------------------------------------------------------------------
(* Clauses and queries.                                                      *)

NoOutfile == [path |-> "", append |-> FALSE]

EmptyQuery ==
    [ok |-> TRUE, Select |-> <<>>, Table |-> "", Where |-> <<>>, Set |-> <<>>, GroupBy |-> <<>>,
     OrderBy |-> "", ReverseOrder |-> FALSE, Interval |-> 5, Limit |-> -1, Outfile |-> NoOutfile,
     LogFormat |-> ""]

\* One clause: its keyword and the raw tokens up to the next keyword, or to the
\* end of the query.
ParseClause(q, keyword, raw, last) ==
    LET found == Consumed(raw)
        by == ConsumeOptional(raw, "by")
        foundBy == Consumed(by)
        outfile(path, append) == [q EXCEPT !.Outfile = [path |-> path, append |-> append]]
    IN  CASE keyword = "select" ->
                LET conds == [i \in DOMAIN found |-> SelectCondition(found[i])]
                IN  IF AllOk(conds) THEN [q EXCEPT !.Select = conds] ELSE Failed
          [] keyword = "from" ->
                IF Len(found) = 1 THEN [q EXCEPT !.Table = ToUpper(found[1].str)] ELSE Failed
          [] keyword = "where" ->
                LET conds == Conditions("where", found)
                IN  IF AllOk(conds) THEN [q EXCEPT !.Where = conds] ELSE Failed
          [] keyword = "set" ->
                LET conds == Conditions("set", found)
                IN  IF AllOk(conds) THEN [q EXCEPT !.Set = conds] ELSE Failed
          [] keyword = "group" ->
                IF by = <<>> /\ last THEN Failed ELSE [q EXCEPT !.GroupBy = Strs(foundBy)]
          [] keyword \in {"order", "rorder"} ->
                IF foundBy = <<>> THEN Failed
                ELSE [q EXCEPT !.OrderBy = foundBy[1].str, !.ReverseOrder = @ \/ keyword = "rorder"]
          [] keyword = "interval" ->
                IF found = <<>> THEN q
                ELSE IF IsFloat(found[1].str) THEN [q EXCEPT !.Interval = Floats[found[1].str]] ELSE Failed
          [] keyword = "limit" ->
                IF found # <<>> /\ IsFloat(found[1].str) THEN [q EXCEPT !.Limit = Floats[found[1].str]] ELSE Failed
          [] keyword = "outfile" ->
                CASE Len(found) = 1 -> outfile(found[1].str, FALSE)
                  [] Len(found) = 2 /\ found[1].str = "append" -> outfile(found[2].str, TRUE)
                  [] OTHER -> Failed
          [] keyword = "logformat" ->
                IF found = <<>> THEN Failed ELSE [q EXCEPT !.LogFormat = found[1].str]
          [] OTHER -> Failed

\* Every keyword starts a clause; so does the first token, whatever it is.
ClauseStarts(tokens) == {i \in DOMAIN tokens : i = 1 \/ IsKeyword(tokens[i])}

ParseTokens(tokens) ==
    LET starts == ClauseStarts(tokens)
        end(i) == CHOOSE j \in i..Len(tokens) :
                    (j = Len(tokens) \/ j + 1 \in starts) /\ \A k \in (i + 1)..j : k \notin starts
        step(q, i) == IF i \notin starts \/ ~q.ok THEN q
                      ELSE ParseClause(q, ToLower(tokens[i].str), SubSeq(tokens, i + 1, end(i)), end(i) = Len(tokens))
    IN  FoldLeftDomain(step, EmptyQuery, tokens)

\* parse and NewQuery: what must hold of all clauses together, and defaults.
NewQuery(parts) ==
    LET q == ParseTokens(Tokenize(parts))
        grouped == [q EXCEPT !.GroupBy = IF @ = <<>> THEN <<q.Select[1].Field>> ELSE @,
                             !.Table = IF @ = "" /\ q.LogFormat = "csv" THEN "." ELSE @]
    IN  IF q.ok /\ q.Select # <<>>
           /\ (q.OrderBy # "" => \E i \in DOMAIN q.Select : q.Select[i].FieldStorage = q.OrderBy)
        THEN grouped
        ELSE Failed

EffectiveLogFormat(q, configured) ==
    IF q.LogFormat # "" THEN q.LogFormat
    ELSE IF q.Table = "" THEN "generic"
    ELSE IF configured = "" THEN "default" ELSE configured

------------------------------------------------------------------------------
(* Evaluation on the fields of a line.                                       *)

FloatClause(op, l, r) ==
    CASE op = "FloatEq" -> l = r
      [] op = "FloatNe" -> l # r
      [] op = "FloatLt" -> l < r
      [] op = "FloatLe" -> l <= r
      [] op = "FloatGt" -> l > r
      [] op = "FloatGe" -> l >= r

StringClause(op, l, r) ==
    CASE op = "StringEq" -> l = r
      [] op = "StringNe" -> l # r
      [] op \in {"StringContains", "StringHasPrefix", "StringHasSuffix"} -> <<op, l, r>> \in Related
      [] op = "StringNotContains" -> <<"StringContains", l, r>> \notin Related
      [] op = "StringNotHasPrefix" -> <<"StringHasPrefix", l, r>> \notin Related
      [] op = "StringNotHasSuffix" -> <<"StringHasSuffix", l, r>> \notin Related

\* A field that is missing, or is no number where one is needed, makes the
\* condition false.
Resolves(fields, o) == o.type = "Field" => o.str \in DOMAIN fields
Value(fields, o) == IF o.type = "Field" THEN fields[o.str] ELSE o.str

WhereClause(q, fields) ==
    \A i \in DOMAIN q.Where :
        LET wc == q.Where[i]
            l == Value(fields, wc.l)
            r == Value(fields, wc.r)
        IN  /\ Resolves(fields, wc.l) /\ Resolves(fields, wc.r)
            /\ IF wc.Operation \in Range(FloatOperationOf)
               THEN IsFloat(l) /\ IsFloat(r) /\ FloatClause(wc.Operation, Floats[l], Floats[r])
               ELSE StringClause(wc.Operation, l, r)

\* The innermost function is the last of the stack.
CallStack(functions, text) ==
    FoldRight(LAMBDA name, str : CallbackOf[name][str], functions, text)

Put(map, key, value) == [k \in DOMAIN map \union {key} |-> IF k = key THEN value ELSE map[k]]

\* What is no field is taken literally.
Assign(fields, sc) ==
    LET value == IF sc.rString \in DOMAIN fields THEN fields[sc.rString] ELSE sc.rString
    IN  Put(fields, sc.lString, CallStack(sc.functionStack, value))

\* One after another.
SetClause(q, fields) ==
    LET after[i \in 0..Len(q.Set)] ==
            IF i = 0 THEN fields ELSE Assign(after[i - 1], q.Set[i])
    IN  after[Len(q.Set)]

------------------------------------------------------------------------------
(* ParserFieldPlan: the raw fields that a query needs.                       *)

AllFields == [AllFields |-> TRUE, Fields |-> {}]
Needs(plan, field) == plan.AllFields \/ field \in plan.Fields

WhereFields(q) ==
    {wc.l.str : wc \in {w \in Range(q.Where) : w.l.type = "Field"}}
        \union {wc.r.str : wc \in {w \in Range(q.Where) : w.r.type = "Field"}}

\* Variables that the set clause has produced before its i-th condition.
ProducedBefore(q, i) == {q.Set[j].lString : j \in 1..(i - 1)}

\* Mutant: a variable that the set clause produces anywhere is never read raw.
PlanForgetsOrder(q) ==
    LET produced == ProducedBefore(q, Len(q.Set) + 1)
        read == {sc.rString : sc \in Range(q.Set)} \union Range(q.GroupBy) \union {sc.Field : sc \in Range(q.Select)}
    IN  [AllFields |-> FALSE, Fields |-> WhereFields(q) \union (read \ produced)]

ParserFieldPlan(q) ==
    LET produced == ProducedBefore(q, Len(q.Set) + 1)
        bySet == {q.Set[i].rString : i \in {j \in DOMAIN q.Set :
                    q.Set[j].rType # "Float" /\ q.Set[j].rString \notin ProducedBefore(q, j)}}
        byGroup == Range(q.GroupBy) \ produced
        bySelect == {sc.Field : sc \in Range(q.Select)} \ produced
    IN  [AllFields |-> FALSE, Fields |-> (WhereFields(q) \union bySet \union byGroup \union bySelect) \ {""}]
=============================================================================
