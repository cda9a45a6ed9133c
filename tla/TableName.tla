------------------------------ MODULE TableName ------------------------------
(***************************************************************************)
(* Qualified names of tables: how a Table writes its own name into a       *)
(* statement (schema.ts), and how a connection reads a name back from one  *)
(* (connection.ts, and the same scanner in dbnet-parser/schemata.ts).  A   *)
(* dialect is what the two depend on: its quote, whether names outside of  *)
(* quotes are upper case, and whether its names have a database part.      *)
(***************************************************************************)
EXTENDS Scanner

NoQuote == "none"

Dialects ==
  { [quote |-> "\"",     upper |-> FALSE, parts |-> 3],   \* postgres, redshift, sqlserver
    [quote |-> "\"",     upper |-> TRUE,  parts |-> 3],   \* oracle, snowflake
    [quote |-> "\"",     upper |-> FALSE, parts |-> 2],   \* sqlite, d1, clickhouse, duckdb
    [quote |-> BackTick, upper |-> FALSE, parts |-> 3],   \* bigquery
    [quote |-> BackTick, upper |-> FALSE, parts |-> 2],   \* mysql, starrocks
    [quote |-> NoQuote,  upper |-> FALSE, parts |-> 3] }  \* bigtable

Upper(c) == IF c = "a" THEN "A" ELSE c

\* A name with one of these outside of quotes is taken for a statement.
StatementChars == WhiteSpace \cup Parenthesis \cup {"-", "'"}

NotAName(kind) == [kind |-> kind, database |-> <<>>, schema |-> <<>>, name |-> <<>>]

Quoted(part, d) == IF d.quote = NoQuote THEN part ELSE <<d.quote>> \o part \o <<d.quote>>

\* fdqn: the parts the dialect has, each in quotes, with dots between them.
Fdqn(table, d) ==
  LET tail == Quoted(table.schema, d) \o <<".">> \o Quoted(table.name, d)
  IN  IF d.parts = 2 THEN tail ELSE Quoted(table.database, d) \o <<".">> \o tail

AddWord(s) == IF s.word = <<>> THEN s
              ELSE [s EXCEPT !.words = Append(@, s.word), !.word = <<>>]

\* A dot outside of quotes ends a word.
EndsWordBug(s, c) == c = "."
EndsWord(s, c) == ~s.inQuote /\ c = "."

\* One character: a quote, a dot or a character that ends the name outside of
\* quotes, or the next character of the word.
NameChar(s, c, d) ==
  CASE s.statement  -> s
    [] c = d.quote  -> [(IF s.inQuote THEN AddWord(s) ELSE s) EXCEPT !.inQuote = ~s.inQuote]
    [] c # d.quote /\ EndsWord(s, c) -> AddWord(s)
    [] c # d.quote /\ ~s.inQuote /\ c \in StatementChars -> [s EXCEPT !.statement = TRUE]
    [] OTHER -> [s EXCEPT !.word = Append(@, IF d.upper /\ ~s.inQuote THEN Upper(c) ELSE c)]

\* The table of a name; its database is the connection's where the name has
\* none.  Text that is no name becomes the statement of a table without name.
ParseTableName(t, d, database) ==
  LET scan[i \in 0 .. Len(t)] ==
        IF i = 0 THEN [inQuote |-> FALSE, words |-> <<>>, word |-> <<>>, statement |-> FALSE]
        ELSE NameChar(scan[i - 1], t[i], d)
      end == scan[Len(t)]
      words == AddWord(end).words
      n == Len(words)
  IN  CASE end.statement \/ (~end.inQuote /\ n > 3) -> NotAName("statement")
        [] ~end.statement /\ (end.inQuote \/ n = 0) -> NotAName("error")
        [] OTHER -> [kind     |-> "table",
                     database |-> IF n = 3 THEN words[1] ELSE database,
                     schema   |-> IF n = 1 THEN <<>> ELSE words[n - 1],
                     name     |-> words[n]]
=============================================================================
