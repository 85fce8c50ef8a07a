------------------------------- MODULE SqlText -------------------------------
\* SQL as the program writes it and reads it: the quoting of names and values,
\* changes of rows and definitions of tables (db/sql_render.rs), and the reader
\* that splits a script into statements again (db/sql_script).
\*
\* A text is a sequence of symbols: a character that means something to some
\* reader of SQL, or a whole word.  A statement is a sequence of tokens: names,
\* text values and words, which rendering turns into symbols.
EXTENDS Integers, Sequences, FiniteSets, SequencesExt

CONSTANT Error   \* what is not a text

Quote == "quote"
DoubleQuote == "double quote"
Tick == "backtick"
Backslash == "backslash"
NL == "newline"
NUL == "NUL"
Spaces == {" ", NL}
\* Not a letter, a digit or an underscore.
Punctuation == Spaces \cup {Quote, DoubleQuote, Tick, "[", "]", Backslash, ";", "-", "#", "/", "*", "$", ".",
                            ",", "(", ")", "=", NUL}
IsWord(c) == c \notin Punctuation

Symbol(s, i) == IF i \in DOMAIN s THEN s[i] ELSE "end"
Replace(text, c, by) == FlattenSeq([i \in DOMAIN text |-> IF text[i] = c THEN by ELSE <<text[i]>>])
Joined(texts) == FlattenSeq(texts)

-----------------------------------------------------------------------------
\* Names and values.

Word(w) == [kind |-> "word", value |-> w]
Name(text) == [kind |-> "name", value |-> text]
Text(text) == [kind |-> "text", value |-> text]
\* A string without escapes, or a body between dollars, that holds SQL itself.
Plain(tokens) == [kind |-> "plain", value |-> tokens]
Body(tokens) == [kind |-> "body", value |-> tokens]
\* A text between dollars with a tag.
Tagged(text) == [kind |-> "tagged", value |-> text]
Words(ws) == [i \in DOMAIN ws |-> Word(ws[i])]
IsNull(token) == token.kind = "word" /\ token.value = "NULL"

ValidIdentifier(text) ==
  /\ text # <<>> /\ text # <<"*">>
  /\ Symbol(text, 1) \notin Spaces /\ Symbol(text, Len(text)) \notin Spaces
  /\ ~Contains(text, NL) /\ ~Contains(text, NUL)

Doubled(text, c) == Replace(text, c, <<c, c>>)
Escaped(text, c) == Replace(text, c, <<Backslash, c>>)

QuoteBacktick(text) == <<Tick>> \o Doubled(text, Tick) \o <<Tick>>
QuoteClickHouse(text) == <<Tick>> \o Escaped(Escaped(text, Backslash), Tick) \o <<Tick>>
QuoteDouble(text) == <<DoubleQuote>> \o Doubled(text, DoubleQuote) \o <<DoubleQuote>>
QuoteBracket(text) == <<"[">> \o Doubled(text, "]") \o <<"]">>

\* The style is Native, or Export for what leaves the program.
RenderIdentifier(e, style, text) ==
  CASE e = "MySQL" \/ (e = "SQLite" /\ style = "Export") -> QuoteBacktick(text)
    [] e = "ClickHouse" -> QuoteClickHouse(text)
    [] e = "PostgreSQL" \/ (e = "SQLite" /\ style = "Native") -> QuoteDouble(text)
    [] e = "SQLServer" -> QuoteBracket(text)

\* Mutant: the backslashes of a MySQL value are left alone.
StringLiteralPlain(e, text) ==
  CASE e \in {"MySQL", "SQLite"} -> <<Quote>> \o Doubled(text, Quote) \o <<Quote>>
    [] e = "PostgreSQL" -> <<"E", Quote>> \o Doubled(Escaped(text, Backslash), Quote) \o <<Quote>>
    [] e = "SQLServer" -> <<"N", Quote>> \o Doubled(text, Quote) \o <<Quote>>
    [] e = "ClickHouse" -> <<Quote>> \o Escaped(Escaped(text, Backslash), Quote) \o <<Quote>>

StringLiteral(e, text) ==
  CASE e = "MySQL" -> <<Quote>> \o Doubled(Escaped(text, Backslash), Quote) \o <<Quote>>
    [] e = "PostgreSQL" -> <<"E", Quote>> \o Doubled(Escaped(text, Backslash), Quote) \o <<Quote>>
    [] e = "SQLite" -> <<Quote>> \o Doubled(text, Quote) \o <<Quote>>
    [] e = "SQLServer" -> <<"N", Quote>> \o Doubled(text, Quote) \o <<Quote>>
    [] e = "ClickHouse" -> <<Quote>> \o Escaped(Escaped(text, Backslash), Quote) \o <<Quote>>

\* A boolean is a word of its own only in PostgreSQL.
Bool(e) == Word(IF e = "PostgreSQL" THEN "TRUE" ELSE "1")

RECURSIVE Renderable(_)
Renderable(tokens) ==
  \A i \in DOMAIN tokens :
    LET t == tokens[i]
    IN CASE t.kind = "name" -> ValidIdentifier(t.value)
         [] t.kind = "text" -> ~Contains(t.value, NUL)
         [] t.kind \in {"word", "tagged"} -> TRUE
         [] OTHER -> Renderable(t.value)

\* dollar_quote: a tag that the text does not hold.
DollarTag(text) ==
  LET holds(tag) == \E i \in 1..Len(text) - 2 : SubSeq(text, i, i + 2) = <<"$", tag, "$">>
  IN CASE ~holds("astesia") -> "astesia"
       [] holds("astesia") /\ ~holds("astesia_") -> "astesia_"
       [] OTHER -> "astesia__"

RECURSIVE Rendered(_, _, _)
Rendered(e, style, tokens) ==
  Joined([i \in DOMAIN tokens |->
    LET t == tokens[i]
    IN CASE t.kind = "name" -> RenderIdentifier(e, style, t.value)
         [] t.kind = "text" -> StringLiteral(e, t.value)
         [] t.kind = "word" -> IF IsWord(t.value) THEN <<t.value, " ">> ELSE <<t.value>>
         [] t.kind = "plain" -> <<Quote>> \o Doubled(Rendered(e, style, t.value), Quote) \o <<Quote>>
         [] t.kind = "body" -> <<"$", "$", " ">> \o Rendered(e, style, t.value) \o <<"$", "$">>
         [] t.kind = "tagged" ->
              LET tag == <<"$", DollarTag(t.value), "$">>
              IN tag \o <<NL>> \o t.value \o <<NL>> \o tag])

\* The elements of a list, between commas.
Listed(lists) == Joined([i \in DOMAIN lists |-> IF i = 1 THEN lists[i] ELSE <<Word(",")>> \o lists[i]])
Parens(lists) == <<Word("(")>> \o Listed(lists) \o <<Word(")")>>

-----------------------------------------------------------------------------
\* The changes of rows that a grid, a copy or a tool asks for.

InsertRow(e, table, columns, values) ==
  CASE Len(columns) # Len(values) -> Error
    [] columns = <<>> /\ values = <<>> ->
         Words(<<"INSERT", "INTO">>) \o table
           \o Words(IF e = "MySQL" THEN <<"(", ")", "VALUES", "(", ")">> ELSE <<"DEFAULT", "VALUES">>)
    [] OTHER -> Words(<<"INSERT", "INTO">>) \o table \o Parens(columns) \o <<Word("VALUES")>>
                  \o Parens(values)

UpdateRow(e, table, key, keyValue, column, value) ==
  IF IsNull(keyValue) THEN Error
  ELSE IF e = "ClickHouse"
  THEN Words(<<"ALTER", "TABLE">>) \o table \o <<Word("UPDATE"), column, Word("="), value,
         Word("WHERE"), key, Word("="), keyValue, Word("SETTINGS")>>
  ELSE <<Word("UPDATE")>> \o table \o <<Word("SET"), column, Word("="), value, Word("WHERE"), key,
         Word("="), keyValue>>

DeleteRows(e, table, key, keyValues) ==
  IF keyValues = <<>> \/ \E i \in DOMAIN keyValues : IsNull(Head(keyValues[i])) THEN Error
  ELSE IF e = "ClickHouse"
  THEN Words(<<"ALTER", "TABLE">>) \o table \o Words(<<"DELETE", "WHERE">>) \o <<key, Word("IN")>>
         \o Parens(keyValues) \o <<Word("SETTINGS")>>
  ELSE Words(<<"DELETE", "FROM">>) \o table \o <<Word("WHERE"), key, Word("IN")>> \o Parens(keyValues)

-----------------------------------------------------------------------------
\* CREATE TABLE for another name.  A cursor is a position, or 0 for an error.

RECURSIVE SkipWhitespace(_, _)
SkipWhitespace(s, i) == IF Symbol(s, i) \in Spaces THEN SkipWhitespace(s, i + 1) ELSE i

\* The position after a keyword and the spaces that follow it.
Keyword(s, i, word) ==
  IF i # 0 /\ Symbol(s, i) = word /\ (i = Len(s) \/ ~IsWord(s[i + 1]))
  THEN SkipWhitespace(s, i + 1) ELSE 0
Optional(s, i, word) == IF Keyword(s, i, word) # 0 THEN Keyword(s, i, word) ELSE i

RECURSIVE ConsumeQuoted(_, _, _)
ConsumeQuoted(s, i, closing) ==
  CASE i > Len(s) -> 0
    [] s[i] = Backslash /\ closing = Tick -> IF i = Len(s) THEN 0 ELSE ConsumeQuoted(s, i + 2, closing)
    [] s[i] = closing -> IF Symbol(s, i + 1) = closing THEN ConsumeQuoted(s, i + 2, closing) ELSE i + 1
    [] OTHER -> ConsumeQuoted(s, i + 1, closing)

RECURSIVE ConsumeBare(_, _)
ConsumeBare(s, i) ==
  CASE Symbol(s, i) \in Spaces \cup {".", "(", "end"} -> i
    [] s[i] \in {";", Quote, DoubleQuote, Tick, "[", "]"} -> 0
    [] OTHER -> ConsumeBare(s, i + 1)

RECURSIVE ConsumeName(_, _)
ConsumeName(s, i) ==
  LET after == CASE Symbol(s, i) \in {Tick, DoubleQuote} -> ConsumeQuoted(s, i + 1, s[i])
                 [] Symbol(s, i) = "[" -> ConsumeQuoted(s, i + 1, "]")
                 [] OTHER -> IF ConsumeBare(s, i) = i THEN 0 ELSE ConsumeBare(s, i)
  IN IF after # 0 /\ Symbol(s, after) = "." THEN ConsumeName(s, after + 1) ELSE after

\* Where the name starts and ends, or an error.
CreateTableName(s) ==
  LET create == Keyword(s, SkipWhitespace(s, 1), "CREATE")
      modified == IF Keyword(s, create, "TEMPORARY") # 0 THEN Keyword(s, create, "TEMPORARY")
                  ELSE Optional(s, create, "TEMP")
      table == Keyword(s, modified, "TABLE")
      from == IF Keyword(s, table, "IF") # 0
              THEN Keyword(s, Keyword(s, Keyword(s, table, "IF"), "NOT"), "EXISTS") ELSE table
      to == IF from = 0 THEN 0 ELSE ConsumeName(s, from)
  IN IF to = 0 \/ Symbol(s, to) \notin Spaces \cup {"(", "end"} THEN Error ELSE <<from, to>>

\* The definition for another table; its schema goes with the name.
RetargetCreateTable(e, s, name) ==
  LET range == CreateTableName(s)
  IN IF range = Error \/ ~ValidIdentifier(name) THEN Error
     ELSE SubSeq(s, 1, range[1] - 1) \o RenderIdentifier(e, "Export", name)
            \o SubSeq(s, range[2], Len(s))

-----------------------------------------------------------------------------
\* The reader of scripts: r.at is its place, r.mode what it is inside of,
\* r.text the statement so far, r.start where that began, r.out the statements
\* that are complete.

Outside == [kind |-> "outside"]
Quoted(closing, escapes) == [kind |-> "quoted", closing |-> closing, escapes |-> escapes]
LineComment == [kind |-> "line"]
BlockComment == [kind |-> "block"]
DollarQuote(delimiter) == [kind |-> "dollar", delimiter |-> delimiter]

Skip(r, n) == [r EXCEPT !.at = @ + n]
\* append, n times.
Append_(r, s, n) ==
  LET more == SubSeq(s, r.at, r.at + n - 1)
      solid == {i \in DOMAIN more : more[i] \notin Spaces}
  IN [r EXCEPT !.at = @ + n, !.text = @ \o more,
               !.start = IF @ = 0 /\ solid # {} THEN r.at - 1 + CHOOSE i \in solid : \A j \in solid : i <= j
                         ELSE @]
Separate(r) ==
  IF r.text # <<>> /\ Last(r.text) \notin Spaces THEN [r EXCEPT !.text = Append(@, " ")] ELSE r

RECURSIVE Trimmed(_)
Trimmed(text) ==
  IF Symbol(text, 1) \in Spaces THEN Trimmed(Tail(text))
  ELSE IF Symbol(text, Len(text)) \in Spaces THEN Trimmed(Front(text))
  ELSE text

Take(r) ==
  LET sql == Trimmed(r.text)
  IN [r EXCEPT !.text = <<>>, !.start = 0,
               !.out = IF sql = <<>> THEN @ ELSE Append(@, [sql |-> sql, start |-> r.start])]

\* Mutant: the names of ClickHouse are read as those of MySQL.
EscapesOfText(e, s, i) ==
  \/ s[i] = Quote /\ e \in {"MySQL", "ClickHouse"}
  \/ /\ s[i] = Quote /\ e = "PostgreSQL"
     /\ Symbol(s, i - 1) = "E" /\ (i = 2 \/ ~IsWord(s[i - 2]))

Escapes(e, s, i) ==
  \/ s[i] = Quote /\ e \in {"MySQL", "ClickHouse"}
  \/ /\ s[i] = Quote /\ e = "PostgreSQL"
     /\ Symbol(s, i - 1) = "E" /\ (i = 2 \/ ~IsWord(s[i - 2]))
  \/ s[i] = Tick /\ e = "ClickHouse"

\* $, the letters of a tag, $: its length, or 0.
DollarDelimiter(s, i) ==
  LET ends == {j \in i + 1..Len(s) : s[j] = "$" /\ \A k \in i + 1..j - 1 : IsWord(s[k])}
  IN IF ends = {} THEN 0 ELSE (CHOOSE j \in ends : \A k \in ends : j <= k) - i + 1

ReadOutside(e, s, r) ==
  LET c == s[r.at]
      next == Symbol(s, r.at + 1)
      dollars == DollarDelimiter(s, r.at)
  IN CASE c \in {Quote, DoubleQuote, Tick} \/ (c = "[" /\ e = "SQLServer") ->
            [Append_(r, s, 1) EXCEPT !.mode = Quoted(IF c = "[" THEN "]" ELSE c, Escapes(e, s, r.at))]
       [] c = "-" /\ next = "-" -> [Skip(Separate(r), 2) EXCEPT !.mode = LineComment]
       [] c = "#" /\ e = "MySQL" -> [Skip(Separate(r), 1) EXCEPT !.mode = LineComment]
       [] c = "/" /\ next = "*" -> [Skip(Separate(r), 2) EXCEPT !.mode = BlockComment]
       [] c = "$" /\ e = "PostgreSQL" /\ dollars # 0 ->
            [Append_(r, s, dollars) EXCEPT
               !.mode = DollarQuote(SubSeq(s, r.at, r.at + dollars - 1))]
       [] c = ";" -> Take(Skip(r, 1))
       [] OTHER -> Append_(r, s, 1)

ReadQuoted(s, r) ==
  LET c == s[r.at]
      next == Symbol(s, r.at + 1)
  IN CASE r.mode.escapes /\ c = Backslash -> Append_(r, s, IF next = "end" THEN 1 ELSE 2)
       [] c = r.mode.closing /\ next = c -> Append_(r, s, 2)
       [] c = r.mode.closing /\ next # c -> [Append_(r, s, 1) EXCEPT !.mode = Outside]
       [] OTHER -> Append_(r, s, 1)

ReadComment(s, r) ==
  CASE r.mode = LineComment /\ s[r.at] = NL -> [Append_(r, s, 1) EXCEPT !.mode = Outside]
    [] r.mode = BlockComment /\ s[r.at] = "*" /\ Symbol(s, r.at + 1) = "/" ->
         [Skip(r, 2) EXCEPT !.mode = Outside]
    [] OTHER -> Skip(r, 1)

ReadDollars(s, r) ==
  LET n == Len(r.mode.delimiter)
  IN IF r.at + n - 1 <= Len(s) /\ SubSeq(s, r.at, r.at + n - 1) = r.mode.delimiter
     THEN [Append_(r, s, n) EXCEPT !.mode = Outside] ELSE Append_(r, s, 1)

RECURSIVE ReadOn(_, _, _)
ReadOn(e, s, r) ==
  IF r.at > Len(s) THEN r
  ELSE ReadOn(e, s, CASE r.mode.kind = "outside" -> ReadOutside(e, s, r)
                      [] r.mode.kind = "quoted" -> ReadQuoted(s, r)
                      [] r.mode.kind \in {"line", "block"} -> ReadComment(s, r)
                      [] r.mode.kind = "dollar" -> ReadDollars(s, r))

\* The statements of a script, or an error that leaves none of them.
Scan(e, s) ==
  LET r == ReadOn(e, s, [at |-> 1, mode |-> Outside, text |-> <<>>, start |-> 0, out |-> <<>>])
  IN IF Contains(s, NUL) \/ r.mode.kind \notin {"outside", "line"} THEN Error ELSE Take(r).out

\* The statement at a cursor.
StatementAt(statements, cursor) ==
  LET before == {i \in DOMAIN statements : statements[i].start <= cursor}
  IN IF before = {} THEN 1 ELSE CHOOSE i \in before : \A j \in before : i >= j

-----------------------------------------------------------------------------
\* How an engine reads one statement (external).

RECURSIVE Closed(_, _, _, _, _)
Closed(s, i, closing, escapes, value) ==
  CASE i > Len(s) -> [value |-> value, next |-> i]
    [] escapes /\ s[i] = Backslash /\ i < Len(s) ->
         Closed(s, i + 2, closing, escapes, Append(value, s[i + 1]))
    [] s[i] = closing /\ Symbol(s, i + 1) = closing ->
         Closed(s, i + 2, closing, escapes, Append(value, closing))
    [] s[i] = closing -> [value |-> value, next |-> i + 1]
    [] OTHER -> Closed(s, i + 1, closing, escapes, Append(value, s[i]))

NameQuotes(e) ==
  CASE e = "PostgreSQL" -> {DoubleQuote} [] e = "SQLite" -> {DoubleQuote, Tick, "["} [] e = "SQLServer" -> {DoubleQuote, "["}
    [] OTHER -> {Tick}

RECURSIVE Tokens(_, _, _)
Tokens(e, s, i) ==
  LET c == Symbol(s, i)
      next == Symbol(s, i + 1)
      name == Closed(s, i + 1, IF c = "[" THEN "]" ELSE c, e = "ClickHouse", <<>>)
      prefixed == c \in {"E", "N"} /\ next = Quote
      text == Closed(s, IF prefixed THEN i + 2 ELSE i + 1, Quote,
                     e \in {"MySQL", "ClickHouse"} \/ c = "E", <<>>)
      dollars == DollarDelimiter(s, i)
      ends == {j \in i + dollars..Len(s) - dollars + 1 :
                 SubSeq(s, j, j + dollars - 1) = SubSeq(s, i, i + dollars - 1)}
      end == CHOOSE j \in ends : \A k \in ends : j <= k
      between == SubSeq(s, i + dollars, end - 1)
  IN CASE c = "end" -> <<>>
       [] c \in Spaces -> Tokens(e, s, i + 1)
       [] c \in NameQuotes(e) -> <<Name(name.value)>> \o Tokens(e, s, name.next)
       [] prefixed \/ (c = Quote /\ e # "PostgreSQL") -> <<Text(text.value)>> \o Tokens(e, s, text.next)
       [] c = Quote /\ e = "PostgreSQL" ->
            <<Plain(Tokens(e, text.value, 1))>> \o Tokens(e, s, text.next)
       [] c = "$" /\ e = "PostgreSQL" /\ dollars # 0 /\ ends # {} ->
            <<IF dollars = 2 THEN Body(Tokens(e, between, 1)) ELSE Tagged(Trimmed(between))>>
              \o Tokens(e, s, end + dollars)
       [] OTHER -> <<Word(c)>> \o Tokens(e, s, i + 1)

RECURSIVE SameTokens(_, _)
SameTokens(left, right) ==
  /\ Len(left) = Len(right)
  /\ \A i \in DOMAIN left :
       /\ left[i].kind = right[i].kind
       /\ IF left[i].kind \in {"plain", "body"} THEN SameTokens(left[i].value, right[i].value)
          ELSE left[i].value = right[i].value
=============================================================================
