---------------------------- MODULE AggregateSet ----------------------------
(***************************************************************************)
(* The values of a mapreduce query: how a server adds the fields of a line *)
(* to an aggregate set, how the set goes over the wire, how a client adds  *)
(* it up again and what the result table shows                             *)
(* (internal/mapr/aggregateset.go, groupset.go, client/aggregate.go).      *)
(* Quotients are pairs <<numerator, denominator>>.                         *)
(***************************************************************************)
EXTENDS LogFormat, FiniteSets, FiniteSetsExt

CONSTANTS
    LengthOf,        \* len of a string
    Rank             \* position of a string in lexicographic order

NewAggregateSet == [Samples |-> 0, FValues |-> << >>, SValues |-> << >>]
NoSets == << >>
GetSet(sets, key) == IF key \in DOMAIN sets THEN sets[key] ELSE NewAggregateSet

SetFloat(set, key, value) == [set EXCEPT !.FValues = Put(@, key, value)]
SetString(set, key, value) == [set EXCEPT !.SValues = Put(@, key, value)]

Least(a, b) == IF b < a THEN b ELSE a
Greatest(a, b) == IF b > a THEN b ELSE a

\* addFloat, addFloatMin, addFloatMax
AddFloat(set, key, op, value) ==
    LET old == set.FValues[key]
    IN  SetFloat(set, key, CASE key \notin DOMAIN set.FValues -> value
                             [] OTHER -> CASE op = "min" -> Least(old, value)
                                           [] op = "max" -> Greatest(old, value)
                                           [] OTHER -> old + value)

\* Whether the value can be aggregated: the others must be numbers.
Aggregates(op, value, client) == op \in {"last", "len"} \/ (op = "count" /\ ~client) \/ IsFloat(value)

\* Mutant: the client counts messages instead of adding up their counts.
AggregateCountsMessages(set, key, op, value, client) ==
    CASE op = "last" -> SetString(set, key, value)
      [] op = "len" -> SetFloat(SetString(set, key, value), key, LengthOf[value])
      [] op = "count" -> AddFloat(set, key, op, 1)
      [] OTHER -> AddFloat(set, key, op, Floats[value])

Aggregate(set, key, op, value, client) ==
    CASE op = "last" -> SetString(set, key, value)
      [] op = "len" -> SetFloat(SetString(set, key, value), key, LengthOf[value])
      [] op = "count" /\ ~client -> AddFloat(set, key, op, 1)
      [] OTHER -> AddFloat(set, key, op, Floats[value])

\* Values of the select clause, by position, are aggregated one after another;
\* if there are any, samples count.
AggregateValues(q, set, values, samples, client) ==
    LET after[i \in 0..Len(q.Select)] ==
            IF i = 0 THEN set
            ELSE IF i \in DOMAIN values
            THEN Aggregate(after[i - 1], q.Select[i].FieldStorage, q.Select[i].Operation, values[i], client)
            ELSE after[i - 1]
    IN  [after[Len(q.Select)] EXCEPT !.Samples = IF DOMAIN values # {} THEN @ + samples ELSE @]

\* The values that are present in fields and can be aggregated.  On the wire a
\* value has the name of its storage.
Name(sc, client) == IF client THEN sc.FieldStorage ELSE sc.Field
Aggregated(q, fields, client) ==
    {i \in DOMAIN q.Select :
        LET name == Name(q.Select[i], client)
        IN  name \in DOMAIN fields /\ Aggregates(q.Select[i].Operation, fields[name], client)}

AggregateFields(q, set, fields, samples, client) ==
    LET values == [i \in Aggregated(q, fields, client) |-> fields[Name(q.Select[i], client)]]
    IN  AggregateValues(q, set, values, samples, client)

------------------------------------------------------------------------------
(* The server: one line.                                                     *)

BuildGroupKey(groupBy, fields) ==
    [i \in DOMAIN groupBy |-> IF groupBy[i] \in DOMAIN fields THEN fields[groupBy[i]] ELSE ""]

\* The set of a group is made when the first selected field is found.
AggregateLine(q, sets, fields) ==
    LET key == BuildGroupKey(q.GroupBy, fields)
    IN  IF \E i \in DOMAIN q.Select : q.Select[i].Field \in DOMAIN fields
        THEN Put(sets, key, AggregateFields(q, GetSet(sets, key), fields, 1, FALSE))
        ELSE sets

\* processLine, on what the parser made of the line.
ProcessParsed(q, sets, parsed) ==
    IF parsed.outcome = "fields" /\ WhereClause(q, parsed.fields)
    THEN AggregateLine(q, sets, SetClause(q, parsed.fields))
    ELSE sets

------------------------------------------------------------------------------
(* The wire and the client.                                                  *)

\* Float values are written first: of two values under one key makeFields keeps
\* the string.
Message(key, set) ==
    [groupKey |-> key, samples |-> set.Samples,
     fields |-> [f \in DOMAIN set.SValues \union DOMAIN set.FValues |->
                    IF f \in DOMAIN set.SValues THEN set.SValues[f] ELSE ToString(set.FValues[f])]]

Messages(sets) == {Message(key, sets[key]) : key \in DOMAIN sets}

\* A message without any value is an error and changes nothing.
AggregateMessage(q, sets, message) ==
    IF DOMAIN message.fields = {} THEN sets
    ELSE Put(sets, message.groupKey,
             AggregateFields(q, GetSet(sets, message.groupKey), message.fields, message.samples, TRUE))

FValue(set, key) == IF key \in DOMAIN set.FValues THEN set.FValues[key] ELSE 0
SValue(set, key) == IF key \in DOMAIN set.SValues THEN set.SValues[key] ELSE ""

MergeSet(q, into, set) ==
    LET step(s, sc) ==
            LET key == sc.FieldStorage
            IN  CASE sc.Operation = "last" -> SetString(s, key, SValue(set, key))
                  [] sc.Operation = "len" -> SetFloat(SetString(s, key, SValue(set, key)), key, FValue(set, key))
                  [] OTHER -> AddFloat(s, key, sc.Operation, FValue(set, key))
    IN  FoldLeft(step, [into EXCEPT !.Samples = @ + set.Samples], q.Select)

MergeSets(q, into, sets) ==
    [key \in DOMAIN into \union DOMAIN sets |->
        IF key \in DOMAIN sets THEN MergeSet(q, GetSet(into, key), sets[key]) ELSE into[key]]

------------------------------------------------------------------------------
(* The result table.                                                         *)

Total(sets, storage) == MapThenSumSet(LAMBDA key : FValue(sets[key], storage), DOMAIN sets)

\* How many groups have a value that is not greater.
PercentileRank(sets, storage, value) ==
    Cardinality({key \in DOMAIN sets : FValue(sets[key], storage) <= value})

Quotient(a, b) == IF b = 0 THEN <<0, 1>> ELSE <<a, b>>

ResultValue(sets, sc, set) ==
    LET value == FValue(set, sc.FieldStorage)
    IN  CASE sc.Operation = "avg" -> Quotient(value, set.Samples)
          [] sc.Operation = "percentage" -> Quotient(100 * value, Total(sets, sc.FieldStorage))
          [] sc.Operation = "percentile" ->
                Quotient(100 * PercentileRank(sets, sc.FieldStorage, value), Cardinality(DOMAIN sets))
          [] sc.Operation = "last" ->
                LET str == SValue(set, sc.FieldStorage) IN Quotient(IF IsFloat(str) THEN Floats[str] ELSE 0, 1)
          [] OTHER -> Quotient(value, 1)

KeyLess(a, b) ==
    \E i \in DOMAIN a : Rank[a[i]] < Rank[b[i]] /\ \A j \in 1..(i - 1) : a[j] = b[j]

\* A stable sort by the order clause, descending unless it is rorder.
ResultOrderBy(q, sets, keys) ==
    LET order == CHOOSE sc \in Range(q.Select) : sc.FieldStorage = q.OrderBy
        value(i) == ResultValue(sets, order, sets[keys[i]])
        less(a, b) == a[1] * b[2] < b[1] * a[2]
        ahead(i, j) == IF q.ReverseOrder THEN less(value(i), value(j)) ELSE less(value(j), value(i))
        before(i, j) == ahead(i, j) \/ (~ahead(j, i) /\ i < j)
    IN  LET indices == SetToSortSeq(DOMAIN keys, before)
        IN  [i \in DOMAIN indices |-> keys[indices[i]]]

Limited(q, rows) == IF q.Limit >= 0 /\ q.Limit < Len(rows) THEN SubSeq(rows, 1, q.Limit) ELSE rows

ResultKeys(q, sets) ==
    LET sorted == SetToSortSeq(DOMAIN sets, KeyLess)
    IN  Limited(q, IF q.OrderBy = "" THEN sorted ELSE ResultOrderBy(q, sets, sorted))
=============================================================================
