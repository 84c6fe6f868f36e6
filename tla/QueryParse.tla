------------------------------ MODULE QueryParse ------------------------------
(***************************************************************************)
(* postrust-core/src/api_request/query_params.rs: reading ?select=,        *)
(* ?order=, filters and logic trees, and payload.rs: reading a CSV body.   *)
(* A text is a sequence of lexemes: words, and the punctuation the grammar *)
(* reserves, one each ("->" and "->>" too).  The client writes what it     *)
(* means in the grammar's own spelling, quoting what would otherwise be    *)
(* read as syntax; the server reads the text.                              *)
(***************************************************************************)
EXTENDS Naturals, Sequences, FiniteSets

CONSTANTS
  Words,       \* the lexemes an identifier is made of
  Meanings,    \* [kind, value]: what a client may ask
  Texts        \* [kind, text]: texts nobody meant anything by

VARIABLES meant, text, read

parseVars == <<meant, text, read>>

Nothing == [ok |-> FALSE, rest |-> <<>>, val |-> <<>>]
Got(rest, val) == [ok |-> TRUE, rest |-> rest, val |-> val]
\* Parsers one after another, and one where another fails.
Then(got, Parser(_, _)) == IF got.ok THEN Parser(got.rest, got.val) ELSE Nothing
OrElse(got, other) == IF got.ok THEN got ELSE other
Starts(ts, prefix) == Len(ts) >= Len(prefix) /\ SubSeq(ts, 1, Len(prefix)) = prefix
Drop(ts, n) == SubSeq(ts, n + 1, Len(ts))
Find(ts, S) == IF \E i \in 1..Len(ts) : ts[i] \in S
               THEN CHOOSE i \in 1..Len(ts) : ts[i] \in S /\ \A k \in 1..(i - 1) : ts[k] \notin S
               ELSE Len(ts) + 1
RECURSIVE Trim(_)
Trim(ts) ==
  IF ts = <<>> THEN ts
  ELSE IF Head(ts) = " " THEN Trim(Tail(ts))
  ELSE IF ts[Len(ts)] = " " THEN Trim(SubSeq(ts, 1, Len(ts) - 1)) ELSE ts

(***************************************************************************)
(* Names                                                                   *)
(***************************************************************************)
ParseIdentifier(ts) ==
  LET n == Find([i \in 1..Len(ts) |-> IF ts[i] \in Words \cup {" "} THEN "w" ELSE "x"], {"x"}) - 1
  IN IF n = 0 THEN Nothing ELSE Got(Drop(ts, n), Trim(SubSeq(ts, 1, n)))

\* Inside quotes a backslash escapes the next character.
RECURSIVE QuotedBody(_, _)
QuotedBody(ts, name) ==
  IF ts = <<>> THEN Nothing
  ELSE CASE Head(ts) = "\\" -> IF Len(ts) = 1 THEN Nothing ELSE QuotedBody(Drop(ts, 2), Append(name, ts[2]))
         [] Head(ts) = "\"" -> Got(Tail(ts), name)
         [] OTHER -> QuotedBody(Tail(ts), Append(name, Head(ts)))
ParseQuotedName(ts) == IF Starts(ts, <<"\"">>) THEN QuotedBody(Tail(ts), <<>>) ELSE Nothing

RECURSIVE Dashes(_)
Dashes(got) ==
  IF ~Starts(got.rest, <<"-">>) THEN got
  ELSE LET next == ParseIdentifier(Tail(got.rest))
       IN IF ~next.ok THEN got ELSE Dashes(Got(next.rest, got.val \o <<"-">> \o next.val))
ParseFieldName(ts) ==
  OrElse(ParseQuotedName(ts), Then(ParseIdentifier(ts), LAMBDA rest, first : Dashes(Got(rest, first))))

\* A key runs to the next reserved lexeme, and is an index where it is digits.
ParseJsonOperand(ts) ==
  LET n == Find(ts, {",", "(", ")", ":", "->", "->>"}) - 1
  IN IF n = 0 THEN Nothing ELSE Got(Drop(ts, n), SubSeq(ts, 1, n))
RECURSIVE ParseJsonPath(_)
ParseJsonPath(ts) ==
  LET key == ParseJsonOperand(Tail(ts))
  IN IF ts = <<>> \/ Head(ts) \notin {"->", "->>"} \/ ~key.ok THEN Got(ts, <<>>)
     ELSE LET more == ParseJsonPath(key.rest) IN Got(more.rest, << <<Head(ts), key.val>> >> \o more.val)

(***************************************************************************)
(* select=                                                                 *)
(***************************************************************************)
Item(kind, name, items) ==
  [k |-> kind, name |-> name, alias |-> <<>>, hint |-> <<>>, join |-> "", cast |-> <<>>, agg |-> "",
   aggCast |-> <<>>, path |-> <<>>, items |-> items]

\* alias: and not the :: of a cast; none is <<>>.
ParseAliasPrefix(ts) ==
  OrElse(Then(ParseFieldName(ts), LAMBDA rest, name :
           IF Starts(rest, <<":">>) /\ ~Starts(rest, <<":", ":">>) THEN Got(Tail(rest), name) ELSE Nothing),
         Got(ts, <<>>))
ParseCast(ts) ==
  LET n == ParseIdentifier(Drop(ts, 2)) IN IF Starts(ts, <<":", ":">>) /\ n.ok THEN n ELSE Got(ts, <<>>)

\* !hint, !inner, !left, in any order; the last of each counts.
RECURSIVE ParseModifiers(_, _)
ParseModifiers(ts, item) ==
  LET n == ParseIdentifier(Tail(ts))
  IN IF ~Starts(ts, <<"!">>) \/ ~n.ok THEN Got(ts, item)
     ELSE ParseModifiers(n.rest, IF n.val \in {<<"inner">>, <<"left">>} THEN [item EXCEPT !.join = n.val[1]]
                                 ELSE [item EXCEPT !.hint = n.val])

ParseBareAggregate(ts) ==
  Then(ParseAliasPrefix(ts), LAMBDA call, alias :
    IF ~Starts(call, <<"count", "(", ")">>) THEN Nothing
    ELSE Then(ParseCast(Drop(call, 3)), LAMBDA rest, cast :
      Got(rest, [Item("field", <<>>, <<>>) EXCEPT !.agg = "count", !.aggCast = cast, !.alias = alias])))

ParseAggregateSuffix(ts) ==
  IF Len(ts) >= 4 /\ ts[1] = "." /\ ts[2] \in {"sum", "count"} /\ ts[3] = "(" /\ ts[4] = ")"
  THEN Got(Drop(ts, 4), ts[2]) ELSE Got(ts, "")

ParseFieldSelect(ts) ==
  Then(ParseAliasPrefix(ts), LAMBDA r1, alias :
  Then(ParseFieldName(r1), LAMBDA r2, name :
  Then(ParseJsonPath(r2), LAMBDA r3, path :
  Then(ParseCast(r3), LAMBDA r4, cast :
  Then(ParseAggregateSuffix(r4), LAMBDA r5, agg :
  Then(IF agg # "" THEN ParseCast(r5) ELSE Got(r5, <<>>), LAMBDA rest, aggCast :
    Got(rest, [Item("field", name, <<>>) EXCEPT !.alias = alias, !.path = path,
                 !.cast = cast, !.agg = agg, !.aggCast = aggCast])))))))

\* Where the group closes: its parentheses are counted, quoted or not.
RECURSIVE CloseFrom(_, _, _)
CloseFrom(ts, i, depth) ==
  IF i > Len(ts) THEN Len(ts)
  ELSE IF ts[i] = ")" /\ depth = 0 THEN i - 1
  ELSE CloseFrom(ts, i + 1, IF ts[i] = "(" THEN depth + 1 ELSE IF ts[i] = ")" THEN depth - 1 ELSE depth)
NestedEnd(ts) == CloseFrom(ts, 1, 0)

\* separated_list0: a comma with no item after it is left in the rest.
RECURSIVE ParseSelectItems(_)
RECURSIVE MoreItems(_)
ParseNested(ts) ==
  LET body == SubSeq(ts, 1, NestedEnd(ts))
  IN IF body = <<>> THEN Got(ts, <<>>)
     ELSE Then(ParseSelectItems(body), LAMBDA rest, items :
            IF rest = <<>> THEN Got(Drop(ts, Len(body)), items) ELSE Nothing)
ParseRelation(kind, ts) ==
  Then(IF kind = "rel" THEN ParseAliasPrefix(ts) ELSE Got(ts, <<>>), LAMBDA r1, alias :
  Then(ParseFieldName(r1), LAMBDA r2, name :
  Then(ParseModifiers(r2, [Item(kind, name, <<>>) EXCEPT !.alias = alias]), LAMBDA r3, relation :
    IF ~Starts(r3, <<"(">>) THEN Nothing
    ELSE Then(ParseNested(Tail(r3)), LAMBDA r4, items :
           IF Starts(r4, <<")">>) THEN Got(Tail(r4), [relation EXCEPT !.items = items]) ELSE Nothing))))
ParseSelectItem(ts0) ==
  LET ts == Drop(ts0, Find([i \in 1..Len(ts0) |-> IF ts0[i] = " " THEN "s" ELSE "x"], {"x"}) - 1)
  IN IF Starts(ts, <<"*">>) THEN Got(Tail(ts), Item("field", <<"*">>, <<>>))
     ELSE OrElse(ParseBareAggregate(ts),
            IF Starts(ts, <<"...">>) THEN ParseRelation("spread", Tail(ts))
            ELSE OrElse(ParseRelation("rel", ts), ParseFieldSelect(ts)))
ItemsFrom(ts) ==
  Then(ParseSelectItem(ts), LAMBDA r1, item : Then(MoreItems(r1), LAMBDA r2, more : Got(r2, <<item>> \o more)))
MoreItems(ts) == OrElse(IF Starts(ts, <<",">>) THEN ItemsFrom(Tail(ts)) ELSE Nothing, Got(ts, <<>>))
ParseSelectItems(ts) == OrElse(ItemsFrom(ts), Got(ts, <<>>))

ParseSelect(ts) == Then(ParseSelectItems(ts), LAMBDA rest, items : IF rest = <<>> THEN Got(<<>>, items) ELSE Nothing)

(***************************************************************************)
(* order=                                                                  *)
(***************************************************************************)
RECURSIVE SplitOn(_, _)
SplitOn(ts, sep) ==
  LET i == Find(ts, {sep}) IN IF i > Len(ts) THEN <<ts>> ELSE <<SubSeq(ts, 1, i - 1)>> \o SplitOn(Drop(ts, i), sep)

SplitJsonPath(ts) ==
  LET i == Find(ts, {"->", "->>"}) - 1
      split == Then(ParseJsonPath(Drop(ts, i)), LAMBDA rest, path :
                 IF rest = <<>> /\ path # <<>> THEN Got(<<>>, [name |-> SubSeq(ts, 1, i), path |-> path]) ELSE Nothing)
  IN OrElse(split, Got(<<>>, [name |-> ts, path |-> <<>>])).val

Last(parts, S) ==
  LET at == {i \in 2..Len(parts) : parts[i] \in S} IN IF at = {} THEN <<>> ELSE parts[CHOOSE i \in at : \A k \in at : k <= i]
Directions == {<<"asc">>, <<"desc">>}
NullOrders == {<<"nullsfirst">>, <<"nullslast">>}
ParseOrderTerm(ts) ==
  LET parts == SplitOn(ts, ".")
      field == parts[1]
      open == Find(field, {"("})
      related == open <= Len(field) /\ field[Len(field)] = ")"
      base == IF related THEN SplitJsonPath(SubSeq(field, open + 1, Len(field) - 1)) ELSE SplitJsonPath(field)
  IN IF \E i \in 2..Len(parts) : parts[i] \notin Directions \cup NullOrders THEN Nothing
     ELSE Got(<<>>, [rel |-> IF related THEN SubSeq(field, 1, open - 1) ELSE <<>>, name |-> base.name, path |-> base.path,
                     dir |-> Last(parts, Directions), nulls |-> Last(parts, NullOrders)])
ParseOrder(ts) ==
  LET terms == SplitOn(ts, ",")
      got == [i \in 1..Len(terms) |-> ParseOrderTerm(Trim(terms[i]))]
  IN IF \A i \in 1..Len(got) : got[i].ok THEN Got(<<>>, [i \in 1..Len(got) |-> got[i].val]) ELSE Nothing

(***************************************************************************)
(* Filters                                                                 *)
(***************************************************************************)
QuantOps == {"eq", "like"}
SimpleOps == {"neq", "cs"}
Op(op, quant, lang, vals) == [op |-> op, quant |-> quant, lang |-> lang, vals |-> vals]

\* A quoted element counts where the closing quote ends it.
QuotedElement(ts) ==
  LET q == ParseQuotedName(ts) IN IF q.ok /\ (q.rest = <<>> \/ Head(q.rest) = ",") THEN q ELSE Nothing
RECURSIVE Elements(_)
Elements(ts) ==
  LET q == QuotedElement(ts)
      n == Find(ts, {","}) - 1
      e == IF q.ok THEN q ELSE Got(Drop(ts, n), SubSeq(ts, 1, n))
  IN IF Starts(e.rest, <<",">>) THEN <<e.val>> \o Elements(Tail(e.rest)) ELSE <<e.val>>

ParseInList(ts0) ==
  LET ts == Trim(ts0)
      inner == Trim(SubSeq(ts, 2, Len(ts) - 1))
  IN IF Len(ts) < 2 \/ ts[1] # "(" \/ ts[Len(ts)] # ")" THEN Nothing
     ELSE Got(<<>>, IF inner = <<>> THEN <<>> ELSE Elements(inner))

ParseFts(ts) ==
  LET close == CHOOSE i \in 0..Len(ts) : (i = 0 /\ \A k \in 1..(Len(ts) - 1) : SubSeq(ts, k, k + 1) # <<")", ".">>)
                 \/ (i > 0 /\ i < Len(ts) /\ SubSeq(ts, i, i + 1) = <<")", ".">> /\ \A k \in 1..(i - 1) : SubSeq(ts, k, k + 1) # <<")", ".">>)
  IN CASE Starts(ts, <<"(">>) -> IF close = 0 THEN Nothing
                                 ELSE Got(<<>>, Op("fts", "", SubSeq(ts, 2, close - 1), <<Drop(ts, close + 1)>>))
       [] Starts(ts, <<".">>) -> Got(<<>>, Op("fts", "", <<>>, <<Tail(ts)>>))
       [] OTHER -> Nothing

ParseOperation(ts) ==
  LET rest == Drop(ts, 2)
      list == ParseInList(rest)
  IN CASE Len(ts) >= 5 /\ ts[1] \in QuantOps /\ ts[2] = "(" /\ ts[3] \in {"any", "all"} /\ ts[4] = ")" /\ ts[5] = "." ->
            Got(<<>>, Op(ts[1], ts[3], <<>>, <<Drop(ts, 5)>>))
       [] Len(ts) >= 2 /\ ts[1] \in QuantOps \cup SimpleOps /\ ts[2] = "." -> Got(<<>>, Op(ts[1], "", <<>>, <<rest>>))
       [] Starts(ts, <<"in", ".">>) -> IF list.ok THEN Got(<<>>, Op("in", "", <<>>, list.val)) ELSE Nothing
       [] Starts(ts, <<"is", ".">>) -> IF rest \in {<<"null">>, <<"not_null">>} THEN Got(<<>>, Op("is", rest[1], <<>>, <<>>)) ELSE Nothing
       [] Starts(ts, <<"fts">>) -> ParseFts(Tail(ts))
       [] OTHER -> Nothing

\* not. before the operator; value_is_filter is whether this reads at all.
ParseFilterValue(ts) ==
  LET neg == Starts(ts, <<"not", ".">>)
  IN Then(ParseOperation(IF neg THEN Drop(ts, 2) ELSE ts), LAMBDA rest, op : Got(<<>>, [neg |-> neg, op |-> op]))

\* A dotted run of names and a JSON path; what that grammar does not read is
\* split at its dots.
RECURSIVE DottedNames(_)
DottedNames(ts) ==
  Then(ParseFieldName(ts), LAMBDA r1, name :
    IF ~Starts(r1, <<".">>) THEN Got(r1, <<name>>)
    ELSE Then(DottedNames(Tail(r1)), LAMBDA r2, more : Got(r2, <<name>> \o more)))
Front(s) == SubSeq(s, 1, Len(s) - 1)
ParseFilterKey(ts) ==
  LET parts == SplitOn(ts, ".")
      Key(names, path) == [path |-> Front(names), field |-> [name |-> names[Len(names)], path |-> path]]
      dotted == Then(DottedNames(ts), LAMBDA r1, names : Then(ParseJsonPath(r1), LAMBDA r2, path :
                  IF r2 = <<>> THEN Got(<<>>, Key(names, path)) ELSE Nothing))
  IN OrElse(dotted, Got(<<>>, [path |-> Front(parts), field |-> SplitJsonPath(parts[Len(parts)])])).val

ParseFilter(key, value) ==
  LET Filter(k, v) == [path |-> k.path, field |-> k.field, neg |-> v.neg, op |-> v.op]
  IN Then(ParseFilterValue(value), LAMBDA rest, v : Got(<<>>, Filter(ParseFilterKey(key), v)))

\* Order, limit, offset and logic come before filters: both are dotted.
ModifierOf(key) ==
  LET parts == SplitOn(key, ".")
      last == parts[Len(parts)]
      logic == last \in {<<"and">>, <<"or">>}
      neg == logic /\ Len(parts) > 1 /\ parts[Len(parts) - 1] = <<"not">>
  IN IF last \in {<<"order">>, <<"limit">>, <<"offset">>} \/ logic
     THEN [name |-> last[1], neg |-> neg, path |-> SubSeq(parts, 1, Len(parts) - (IF neg THEN 2 ELSE 1))]
     ELSE [name |-> "", neg |-> FALSE, path |-> <<>>]

(***************************************************************************)
(* Logic trees                                                             *)
(***************************************************************************)
\* The scan both group and split make: depth and quotes up to each lexeme.
RECURSIVE Scan(_, _, _)
Scan(ts, opens, closes) ==
  IF ts = <<>> THEN << [depth |-> 0, quoted |-> FALSE, escaped |-> FALSE] >>
  ELSE LET before == Scan(Front(ts), opens, closes)
           s == before[Len(before)]
           c == ts[Len(ts)]
       IN Append(before,
            IF s.quoted THEN [s EXCEPT !.escaped = ~s.escaped /\ c = "\\", !.quoted = s.escaped \/ c # "\""]
            ELSE [s EXCEPT !.quoted = c = "\"",
                           !.depth = IF c \in opens THEN @ + 1 ELSE IF c \in closes /\ @ > 0 THEN @ - 1 ELSE @])

BalancedGroup(ts) ==
  LET body == Tail(ts)
      at == Scan(body, {"("}, {")"})
      ends == {i \in 1..Len(body) : body[i] = ")" /\ at[i].depth = 0 /\ ~at[i].quoted}
  IN IF ~Starts(ts, <<"(">>) \/ ends = {} THEN Nothing
     ELSE Got(<<>>, SubSeq(body, 1, (CHOOSE i \in ends : \A k \in ends : i <= k) - 1))

\* Mutant: a comma inside quotes separates.
SplitUnquoted(ts) ==
  LET at == Scan(ts, {"(", "{"}, {")", "}"})
      cuts == {i \in 1..Len(ts) : ts[i] = "," /\ at[i].depth = 0}
      Piece(i) == SubSeq(ts, i + 1, (CHOOSE k \in cuts \cup {Len(ts) + 1} : k > i /\ \A m \in cuts : m > i => k <= m) - 1)
      nth[n \in 0..Cardinality(cuts)] == IF n = 0 THEN 0 ELSE CHOOSE i \in cuts : i > nth[n - 1] /\ \A m \in cuts : m > nth[n - 1] => i <= m
  IN [n \in 1..(Cardinality(cuts) + 1) |-> Piece(nth[n - 1])]

\* split_top_level: the commas outside brackets and quotes.
SplitTopLevel(ts) ==
  LET at == Scan(ts, {"(", "{"}, {")", "}"})
      cuts == {i \in 1..Len(ts) : ts[i] = "," /\ at[i].depth = 0 /\ ~at[i].quoted}
      Piece(i) == SubSeq(ts, i + 1, (CHOOSE k \in cuts \cup {Len(ts) + 1} : k > i /\ \A m \in cuts : m > i => k <= m) - 1)
      nth[n \in 0..Cardinality(cuts)] == IF n = 0 THEN 0 ELSE CHOOSE i \in cuts : i > nth[n - 1] /\ \A m \in cuts : m > nth[n - 1] => i <= m
  IN [n \in 1..(Cardinality(cuts) + 1) |-> Piece(nth[n - 1])]

RECURSIVE Unescaped(_)
Unescaped(ts) ==
  IF ts = <<>> THEN <<>>
  ELSE IF Head(ts) # "\\" THEN <<Head(ts)>> \o Unescaped(Tail(ts))
  ELSE IF Len(ts) = 1 THEN <<>> ELSE <<ts[2]>> \o Unescaped(Drop(ts, 2))
\* The quotes of an operand are syntax where one opens it and one ends it.
UnquoteLogicOperand(ts) ==
  LET open == Find(ts, {"\""})
  IN IF open > Len(ts) \/ (open > 1 /\ ts[open - 1] # ".") \/ ts[Len(ts)] # "\"" \/ Len(ts) < open + 1 THEN ts
     ELSE SubSeq(ts, 1, open - 1) \o Unescaped(SubSeq(ts, open + 1, Len(ts) - 1))

RECURSIVE ParseLogic(_, _, _)
ParseLogicMember(neg, body) ==
  LET group == Trim(Tail(body))
      dot == Find(body, {"."})
  IN IF body # <<>> /\ Head(body) \in {"and", "or"} /\ Len(group) > 0 /\ group[1] = "(" /\ group[Len(group)] = ")"
     THEN ParseLogic(Head(body), neg, group)
     ELSE IF dot > Len(body) THEN Nothing
     ELSE ParseFilter(SubSeq(body, 1, dot - 1), UnquoteLogicOperand(Drop(body, dot)))
ParseLogicChild(item) ==
  IF Len(item) > 3 /\ Starts(item, <<"not", ".">>) /\ item[3] \in {"and", "or"} /\ item[4] = "("
  THEN ParseLogicMember(TRUE, Drop(item, 2)) ELSE ParseLogicMember(FALSE, item)
ParseLogic(op, neg, ts) ==
  LET AllOf(kids) == IF \A i \in 1..Len(kids) : kids[i].ok
                     THEN Got(<<>>, [logic |-> op, neg |-> neg, kids |-> [i \in 1..Len(kids) |-> kids[i].val]]) ELSE Nothing
      Child(member) == IF member = <<>> THEN Nothing ELSE ParseLogicChild(member)
      Members(list) == AllOf([i \in 1..Len(list) |-> Child(Trim(list[i]))])
  IN Then(BalancedGroup(Trim(ts)), LAMBDA rest, group : Members(SplitTopLevel(group)))

(***************************************************************************)
(* A CSV body                                                              *)
(***************************************************************************)
\* read_csv: fields of [val, quoted]; "" in a quoted field is one quote, CR LF
\* or either ends a record, and a last record needs neither.
RECURSIVE CsvFrom(_, _, _, _, _)
CsvFrom(ts, field, inQuotes, record, records) ==
  LET done == Append(record, field)
      more == [field EXCEPT !.val = Append(@, Head(ts))]
      empty == [val |-> <<>>, quoted |-> FALSE]
  IN IF ts = <<>>
     THEN IF field.val # <<>> \/ field.quoted \/ record # <<>> THEN Append(records, done) ELSE records
     ELSE IF inQuotes
     THEN CASE Starts(ts, <<"\"", "\"">>) -> CsvFrom(Drop(ts, 2), more, TRUE, record, records)
            [] Head(ts) = "\"" /\ ~Starts(ts, <<"\"", "\"">>) -> CsvFrom(Tail(ts), field, FALSE, record, records)
            [] OTHER -> CsvFrom(Tail(ts), more, TRUE, record, records)
     ELSE CASE Head(ts) = "\"" -> CsvFrom(Tail(ts), [field EXCEPT !.quoted = TRUE], TRUE, record, records)
            [] Head(ts) = "," -> CsvFrom(Tail(ts), empty, FALSE, done, records)
            [] Head(ts) \in {"\r", "\n"} ->
                 CsvFrom(Drop(ts, IF Starts(ts, <<"\r", "\n">>) THEN 2 ELSE 1), empty, FALSE, <<>>, Append(records, done))
            [] OTHER -> CsvFrom(Tail(ts), more, FALSE, record, records)
ReadCsv(ts) == CsvFrom(ts, [val |-> <<>>, quoted |-> FALSE], FALSE, <<>>, <<>>)

\* Null is an unquoted empty field or an unquoted NULL; every record has the
\* header's fields.
CsvNull == <<"null">>
ParseCsv(ts) ==
  LET records == ReadCsv(ts)
      Value(f) == IF ~f.quoted /\ f.val \in {<<>>, <<"NULL">>} THEN CsvNull ELSE <<"text">> \o f.val
  IN IF records = <<>> THEN Got(<<>>, <<>>)
     ELSE IF \E i \in 2..Len(records) : Len(records[i]) # Len(records[1]) THEN Nothing
     ELSE Got(<<>>, [i \in 1..Len(records) |->
                       [k \in 1..Len(records[i]) |-> IF i = 1 THEN <<"text">> \o records[1][k].val ELSE Value(records[i][k])]])

(***************************************************************************)
(* The client's spelling                                                   *)
(***************************************************************************)
RECURSIVE Commas(_)
Commas(lists) == IF lists = <<>> THEN <<>> ELSE lists[1] \o (IF Len(lists) > 1 THEN <<",">> \o Commas(Tail(lists)) ELSE <<>>)
\* A null is nothing at all; a text is quoted, its quotes doubled.
RECURSIVE Doubled(_)
Doubled(ts) == IF ts = <<>> THEN <<>> ELSE (IF Head(ts) = "\"" THEN <<"\"", "\"">> ELSE <<Head(ts)>>) \o Doubled(Tail(ts))
RECURSIVE PrintCsv(_, _)
PrintCsv(rows, eol) ==
  LET Field(v) == IF v = CsvNull THEN <<>> ELSE <<"\"">> \o Doubled(Tail(v)) \o <<"\"">>
  IN IF rows = <<>> THEN <<>>
     ELSE Commas([i \in 1..Len(rows[1]) |-> Field(rows[1][i])]) \o eol \o PrintCsv(Tail(rows), eol)
RECURSIVE Escaped(_)
Escaped(ts) ==
  IF ts = <<>> THEN <<>> ELSE (IF Head(ts) \in {"\"", "\\"} THEN <<"\\", Head(ts)>> ELSE <<Head(ts)>>) \o Escaped(Tail(ts))
Quote(ts) == <<"\"">> \o Escaped(ts) \o <<"\"">>
PrintName(name) == IF \A i \in 1..Len(name) : name[i] \in Words THEN name ELSE Quote(name)
RECURSIVE PrintPath(_)
PrintPath(path) == IF path = <<>> THEN <<>> ELSE <<path[1][1]>> \o path[1][2] \o PrintPath(Tail(path))
If(b, ts) == IF b THEN ts ELSE <<>>
RECURSIVE PrintItem(_)
PrintItem(i) ==
  If(i.k = "spread", <<"...">>) \o If(i.alias # <<>>, PrintName(i.alias) \o <<":">>)
  \o CASE i.k = "field" /\ i.name = <<"*">> -> <<"*">>
       [] i.k = "field" /\ i.name = <<>> -> <<"count", "(", ")">> \o If(i.aggCast # <<>>, <<":", ":">> \o i.aggCast)
       [] i.k = "field" /\ i.name \notin {<<>>, <<"*">>} ->
            PrintName(i.name) \o PrintPath(i.path) \o If(i.cast # <<>>, <<":", ":">> \o i.cast)
            \o If(i.agg # "", <<".", i.agg, "(", ")">>) \o If(i.aggCast # <<>>, <<":", ":">> \o i.aggCast)
       [] OTHER -> PrintName(i.name) \o If(i.hint # <<>>, <<"!">> \o i.hint) \o If(i.join # "", <<"!", i.join>>)
                   \o <<"(">> \o Commas([k \in 1..Len(i.items) |-> PrintItem(i.items[k])]) \o <<")">>
PrintSelect(items) == Commas([k \in 1..Len(items) |-> PrintItem(items[k])])
PrintOrder(terms) ==
  Commas([i \in 1..Len(terms) |->
    LET t == terms[i]
    IN If(t.rel # <<>>, t.rel \o <<"(">>) \o t.name \o PrintPath(t.path) \o If(t.rel # <<>>, <<")">>)
       \o If(t.dir # <<>>, <<".">> \o t.dir) \o If(t.nulls # <<>>, <<".">> \o t.nulls)])
\* An operand is quoted in a logic tree and left as it is outside one.
PrintOperation(f, inTree) ==
  LET v == IF inTree THEN Quote(f.op.vals[1]) ELSE f.op.vals[1]
  IN If(f.neg, <<"not", ".">>)
     \o CASE f.op.op = "in" -> <<"in", ".", "(">> \o Commas([i \in 1..Len(f.op.vals) |-> Quote(f.op.vals[i])]) \o <<")">>
          [] f.op.op = "is" -> <<"is", ".", f.op.quant>>
          [] f.op.op = "fts" -> <<"fts">> \o If(f.op.lang # <<>>, <<"(">> \o f.op.lang \o <<")">>) \o <<".">> \o v
          [] OTHER -> <<f.op.op>> \o If(f.op.quant # "", <<"(", f.op.quant, ")">>) \o <<".">> \o v
RECURSIVE PrintKey(_)
PrintKey(names) == PrintName(names[1]) \o (IF Len(names) > 1 THEN <<".">> \o PrintKey(Tail(names)) ELSE <<>>)
FilterKey(f) == PrintKey(Append(f.path, f.field.name)) \o PrintPath(f.field.path)
RECURSIVE PrintLogic(_)
PrintLogic(t) ==
  IF "op" \in DOMAIN t THEN FilterKey(t) \o <<".">> \o PrintOperation(t, TRUE)
  ELSE If(t.neg, <<"not", ".">>) \o <<t.logic, "(">> \o Commas([i \in 1..Len(t.kids) |-> PrintLogic(t.kids[i])]) \o <<")">>

(***************************************************************************)
(* Behaviour                                                               *)
(***************************************************************************)
NotYet == <<"not yet">>

\* What the client puts in the URL: a key and a value.
Spelling(m) ==
  CASE m.kind = "select" -> <<<<"select">>, PrintSelect(m.value)>>
    [] m.kind = "order" -> <<<<"order">>, PrintOrder(m.value)>>
    [] m.kind = "filter" -> <<FilterKey(m.value), PrintOperation(m.value, FALSE)>>
    [] m.kind = "csv" -> <<<<"body">>, PrintCsv(m.value, m.eol)>>
    [] m.kind = "logic" -> <<If(m.value.neg, <<"not", ".">>) \o <<m.value.logic>>, Drop(PrintLogic(m.value), IF m.value.neg THEN 3 ELSE 1)>>
Write ==
  /\ meant.kind # "text" /\ text = NotYet
  /\ text' = Spelling(meant) /\ UNCHANGED <<meant, read>>

\* parse_query_params of one pair.
Read ==
  /\ text # NotYet /\ read = NotYet
  /\ LET mod == ModifierOf(text[1])
     IN read' = CASE mod.name = "order" -> <<"order", ParseOrder(text[2])>>
                  [] mod.name \in {"and", "or"} -> <<"logic", ParseLogic(mod.name, mod.neg, text[2])>>
                  [] mod.name = "" /\ text[1] = <<"select">> -> <<"select", ParseSelect(text[2])>>
                  [] mod.name = "" /\ text[1] = <<"body">> -> <<"csv", ParseCsv(text[2])>>
                  [] OTHER -> <<"filter", ParseFilter(text[1], text[2])>>
  /\ UNCHANGED <<meant, text>>

ParseInit ==
  /\ read = NotYet
  /\ \/ meant \in Meanings /\ text = NotYet
     \/ meant = [kind |-> "text"] /\ text \in Texts
ParseNext == Write \/ Read

(***************************************************************************)
(* Properties                                                              *)
(***************************************************************************)
\* A name's own parentheses pair up, read from the left.
PairsUp(name) ==
  LET Count(p, n) == Cardinality({i \in 1..n : name[i] = p})
  IN Count("(", Len(name)) = Count(")", Len(name)) /\ \A n \in 1..Len(name) : Count(")", n) <= Count("(", n)
RECURSIVE NamesPairUp(_)
NamesPairUp(items) ==
  \A k \in 1..Len(items) : PairsUp(items[k].name) /\ PairsUp(items[k].alias) /\ NamesPairUp(items[k].items)

RECURSIVE KeysHaveNoDot(_)
KeysHaveNoDot(t) ==
  IF "op" \in DOMAIN t THEN t.path = <<>> /\ \A i \in 1..Len(t.field.name) : t.field.name[i] # "."
  ELSE \A k \in 1..Len(t.kids) : KeysHaveNoDot(t.kids[k])

\* Whatever a name or a value is made of, the server reads what the client
\* wrote: commas, dots, quotes and backslashes inside quotes are not syntax, at
\* any depth of embedding or grouping, and neither are parentheses, except
\* where the code reads them as such:
\*   - parse_nested_select counts the parentheses of a quoted name too, so an
\*     embed is read as meant only where those of the names inside it pair up
\*     (against :1214-1216, which offers quotes for any name);
\*   - a condition inside and=/or= is split at its first dot, quoted or not;
\*   - order= knows no quotes, and its names are plain words.
ReadsWhatWasMeant ==
  (/\ read # NotYet /\ meant.kind # "text"
   /\ meant.kind = "select" => \A k \in 1..Len(meant.value) : NamesPairUp(meant.value[k].items)
   /\ meant.kind = "logic" => KeysHaveNoDot(meant.value)) =>
    read[1] = meant.kind /\ read[2].ok /\ read[2].val = meant.value

\* A text that is accepted is read to the end: no item, name, hint or cast of
\* it is silently left out ("one unparsable item silently discarded every item
\* after it").
RECURSIVE WordsIn(_)
WordsIn(items) ==
  IF items = <<>> THEN 0
  ELSE LET i == Head(items)
       IN Len(SelectSeq(i.name \o i.alias \o i.hint \o i.cast \o i.aggCast, LAMBDA w : w \in Words))
          + (IF i.join # "" THEN 1 ELSE 0) + (IF i.agg # "" THEN 1 ELSE 0)
          + WordsIn(i.items) + WordsIn(Tail(items))
NothingLeftOut ==
  (read # NotYet /\ meant.kind = "text" /\ read[1] = "select" /\ read[2].ok) =>
    WordsIn(read[2].val) = Len(SelectSeq(text[2], LAMBDA w : w \in Words))

\* The server reads what the client wrote, and all of it.
ReadsWhatWasWritten == ReadsWhatWasMeant /\ NothingLeftOut
=============================================================================
