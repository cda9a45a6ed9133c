------------------------------- MODULE Editor -------------------------------
(***************************************************************************)
(* The text of a worksheet: how it is cut into statements, and which       *)
(* statement or name the cursor stands on (state/monaco/monaco.ts).  The   *)
(* state is the text of the editor and the characters in use; typing is    *)
(* its only action, and what the operators compute for every text that can *)
(* be typed is compared with what it is for.                               *)
(***************************************************************************)
EXTENDS WorksheetNames, TLC

CONSTANTS Keyboards,  \* sets of characters to type from, each with the bound
                      \* max on the length of its texts
          MaxName,    \* bound: the length of a text tried as a name
          MaxAppend   \* bound: the length of a text appended to

VARIABLES keys, text
vars == <<keys, text>>

Among(t, S) == \A i \in DOMAIN t : t[i] \in S

----------------------------------------------------------------------------
(* getBlocks: the text up to each semicolon outside of all modes.  The     *)
(* modes are those of the scanner, but a jinja block and a comment in      *)
(* slashes end with their last character.                                  *)

BlockModeBug(m, w) ==
  NameQuotes(Pair(Comment(Jinja(m, w, w.p = "}" /\ w.c = "}"),
                          w, w.p = "*" /\ w.c = "/"), w.c, "'", "'", "single"), w.c)
BlockMode(m, w) ==
  NameQuotes(Quotes(Comment(Jinja(m, w, w.p = "}" /\ w.c = "}"),
                            w, w.p = "*" /\ w.c = "/"), w.c), w.c)

NoBlock == [value |-> <<>>, from |-> [line |-> -1, col |-> -1],
            to |-> [line |-> -1, col |-> -1]]

\* A block ends with a semicolon outside of all modes, and with the text.
EndsBlockBug(m, c, last) == m = "none" /\ c = ";"
EndsBlock(m, c, last) == (m = "none" /\ c = ";") \/ last

GetBlocks(t) ==
  LET scan[i \in 0 .. Len(t)] ==
        IF i = 0 THEN [mode |-> "none", at |-> [line |-> 1, col |-> 1],
                       block |-> NoBlock, blocks |-> <<>>]
        ELSE LET s == scan[i - 1]
                 w == Window(t, i)
                 m == BlockMode(s.mode, w)
                 next == Advance(s.at, w.c)
                 b == [value |-> Append(s.block.value, w.c),
                       from  |-> IF s.block = NoBlock THEN s.at ELSE s.block.from,
                       to    |-> IF w.c = "\n" THEN next ELSE s.at]
             IN  IF EndsBlock(m, w.c, i = Len(t))
                 THEN [mode |-> m, at |-> next, block |-> NoBlock,
                       blocks |-> Append(s.blocks, b)]
                 ELSE [mode |-> m, at |-> next, block |-> b, blocks |-> s.blocks]
  IN  scan[Len(t)].blocks

\* The first block whose lines, or whose first or last line, hold the cursor.
HoldsBug(b, at) ==
  \/ at.line > b.from.line /\ at.line < b.to.line
  \/ at.line = b.from.line /\ at.col >= b.from.col
  \/ at.line = b.to.line /\ at.col <= b.to.col
Holds(b, at) ==
  \/ at.line > b.from.line /\ at.line < b.to.line
  \/ at.line = b.from.line /\ at.col >= b.from.col
  \/ at.line = b.to.line /\ at.col <= b.to.col + 1

GetCurrentBlock(t, at) ==
  LET bs == GetBlocks(t)
      held == {k \in DOMAIN bs : Holds(bs[k], at)}
  IN  IF held = {} THEN NoBlock ELSE bs[CHOOSE k \in held : \A j \in held : k <= j]

\* The place of the i-th character; of the end of the text after the last one.
Place(t, i) == RangeEnd([line |-> 1, col |-> 1], SubSeq(t, 1, i - 1))

\* The characters from the i-th up to the j-th, when some are selected.
GetSelectedBlock(t, i, j) ==
  [value |-> SubSeq(t, i, j - 1), from |-> Place(t, i), to |-> Place(t, j)]

BlockToExecute(t, i, j) ==
  IF i # j THEN GetSelectedBlock(t, i, j) ELSE GetCurrentBlock(t, Place(t, j))

\* submitQuery cuts the blanks off, one semicolon, and the blanks before it.
QueryText(t) ==
  LET s == Trim(t)
  IN  IF s # <<>> /\ s[Len(s)] = ";" THEN Trim(SubSeq(s, 1, Len(s) - 1)) ELSE s

\* The mark beside the statement starts after the empty lines in front of it.
DecorationFrom(b) ==
  LET lines == {n \in 0 .. Len(b.value) : Among(SubSeq(b.value, 1, n), {"\n"})}
      n == Cardinality(lines) - 1
  IN  IF n = 0 THEN b.from ELSE [line |-> b.from.line + n, col |-> 1]

\* What Execute sends and marks; nothing for a blank statement.
ExecuteSQL(t, i, j) ==
  LET b == BlockToExecute(t, i, j)
  IN  IF Trim(b.value) = <<>> THEN NoBlock
      ELSE [value |-> QueryText(b.value), from |-> DecorationFrom(b), to |-> b.to]

\* appendSqlToTab: an empty line, then the statement, and the cursor two lines
\* below the last one of the editor of the worksheet, which still has the old
\* text; without an editor (shown = {}), below the last one of the new text.
LinesOf(t) == 1 + Cardinality({i \in DOMAIN t : t[i] = "\n"})
AppendSqlToTab(t, sql, shown) ==
  LET new == t \o <<"\n", "\n">> \o sql
  IN  [text |-> new, line |-> 2 + LinesOf(IF shown = {} THEN new ELSE CHOOSE x \in shown : TRUE)]

SelectionToBlock(sql, line) ==
  [value |-> sql, from |-> [line |-> line, col |-> 1], to |-> [line |-> line, col |-> 1]]

\* The menus and forms append their statement, and execute just that.
AppendAndSubmit(t, sql, shown) ==
  LET appended == AppendSqlToTab(t, sql, shown)
      block    == SelectionToBlock(sql, appended.line)
  IN  [text |-> appended.text, value |-> QueryText(block.value), from |-> DecorationFrom(block)]

\* The token under the cursor, or the word next to it.  The loop goes on
\* after the token is found.
StandsOnBug(o, col) == col >= o.from.col /\ col < o.to.col
StandsOn(o, col) == col >= o.from.col /\ col <= o.to.col

GetCurrentObject(line, col) ==
  LET tokens == TokenizeLine(line)
      Beside(o) ==
        IF o.isWord THEN o
        ELSE LET p == IF Previous(tokens, o).isWord THEN Previous(tokens, o) ELSE o
             IN  IF NextOf(tokens, p).isWord THEN NextOf(tokens, p) ELSE p
      seen[i \in 0 .. Len(tokens)] ==
        IF i = 0 THEN NoToken
        ELSE LET o == tokens[i]
             IN  Beside(IF StandsOn(o, col) THEN o ELSE seen[i - 1])
  IN  seen[Len(tokens)]


----------------------------------------------------------------------------
Init == keys \in Keyboards /\ text = <<>>

\* onChange of the editor: its text is the worksheet's.
Type(c) == Len(text) < keys.max /\ text' = Append(text, c) /\ UNCHANGED keys

Next == \E c \in keys.chars : Type(c)

Spec == Init /\ [][Next]_vars

----------------------------------------------------------------------------
(* Helpers of the properties. *)

\* Where the k-th of some consecutive pieces ends.
EndOf(pieces, k) == Len(TextOf(SubSeq(pieces, 1, k)))
PieceOf(pieces, i) == CHOOSE k \in DOMAIN pieces :
                        EndOf(pieces, k - 1) < i /\ i <= EndOf(pieces, k)

\* All statements of a text are ended; and what a menu appends to it is the
\* statement that Execute would take at the place marked.
Ended(t) == t = <<>> \/ Len(GetBlocks(t \o <<"b">>)) = Len(GetBlocks(t)) + 1
AppendedIsOwn(sql) ==
  LET sent == AppendAndSubmit(text, sql, {text})
      own  == GetCurrentBlock(sent.text, sent.from)
  IN  /\ sent.from = Place(sent.text, Len(text) + 3)
      /\ QueryText(own.value) = sent.value /\ DecorationFrom(own) = sent.from

OneLine(t) == \A i \in DOMAIN t : t[i] # "\n"
Has(t, part) == IsInfix(part, t)

----------------------------------------------------------------------------
(* Tokens are pieces of the text, none of it lost (the tests of the parser *)
(* expect body.text to be the query).  The tokens of a line carry the      *)
(* place in the line that the editor underlines and looks up, and their    *)
(* own index, by which their neighbours are found.                         *)
TokensTile ==
  /\ TextOf(Tokenize(text)) = text
  /\ LET tokens == TokenizeLine(text) IN
     /\ TextOf(tokens) = text
     /\ OneLine(text) => \A k \in DOMAIN tokens :
          /\ tokens[k].index = k - 1
          /\ tokens[k].from.col = EndOf(tokens, k - 1) + 1
          /\ tokens[k].to.col = EndOf(tokens, k) + 1

(* The statements of a text are all of it, and each of them, sent alone,   *)
(* is one statement: nothing of a quote or a comment leaks into the next.  *)
BlocksAreStatements ==
  LET bs == GetBlocks(text) IN
  /\ TextOf(bs) = text
  /\ \A k \in DOMAIN bs : Len(GetBlocks(bs[k].value)) = 1

\* What a menu appends is taken for its own statement; and the cursor takes its own.
AppendedAreOwn ==
  (Len(text) <= MaxAppend /\ Ended(text))
    => \A sql \in {<<"b">>, <<"b", ";">>} : AppendedIsOwn(sql)

CursorTakesOwn ==
  LET bs == GetBlocks(text)
      places == [i \in 1 .. Len(text) + 1 |-> Place(text, i)]
      seen == {i \in DOMAIN text : text[i] \notin WhiteSpace}
      lines == {n \in DOMAIN text : text[n] # "\n"}
  IN  \A i \in seen :
        (\A j \in seen : places[j].line = places[i].line
                           => PieceOf(bs, j) = PieceOf(bs, i))
        => LET k     == PieceOf(bs, i)
               first == EndOf(bs, k - 1) + 1
               whole == ExecuteSQL(text, first, EndOf(bs, k) + 1)
               start == CHOOSE n \in lines : n >= first /\ \A j \in lines : j >= first => j >= n
           IN  \A at \in {i, i + 1} :
                 /\ GetCurrentBlock(text, places[at]) = bs[k]
                 /\ ExecuteSQL(text, at, at).value = whole.value
                 /\ ExecuteSQL(text, at, at).from = places[start] /\ whole.from = places[start]

(* Execute and Format take the statement under the cursor: on a line that  *)
(* has characters of one statement only, the cursor on or right after one  *)
(* of them finds that statement.  (On a line of two, the first is found.)  *)
(* Execute does the same with the statement selected as a whole, and marks *)
(* it from its first line that is not empty.  A statement that a menu      *)
(* appends and submits is marked where it stands and is what Execute would *)
(* send from there, as long as all statements before it are ended.         *)
OwnStatement == AppendedAreOwn /\ CursorTakesOwn

(* The editor and the parser have each their copy of the scanner.  They    *)
(* cut a text at the same semicolons, unless a comment or a jinja block    *)
(* follows the end of one directly, which only the editor's copy sees, or  *)
(* a star stands before a comment, which for the parser ends it at once.   *)
Opened(t) == \/ \E open \in {<<"{", "{">>, <<"-", "-">>, <<"/", "*">>} :
                  Has(t, <<"*", "/">> \o open)
             \/ Has(t, <<"}", "}", "{", "{">>)
             \/ Has(t, <<"*", "/", "*">>)
ScannersAgree ==
  LET tokens == Tokenize(text)
      bs == GetBlocks(text)
      inner == {i \in DOMAIN text : i < Len(text) /\ text[i] = ";"}
  IN  Opened(text) \/
      \A i \in inner : Among(tokens[PieceOf(tokens, i)].value, Semicolon)
                         <=> i = EndOf(bs, PieceOf(bs, i))

(* Object Details takes the name under the cursor: a word that the cursor  *)
(* touches, if there is one, and never a token further than the next.      *)
ObjectAtCursor ==
  OneLine(text) =>
    LET tokens == TokenizeLine(text)
        Touches(o, col) == o.from.col <= col /\ col <= o.to.col
    IN  \A col \in 1 .. Len(text) + 1 :
          LET o == GetCurrentObject(text, col) IN
          /\ (\E k \in DOMAIN tokens : tokens[k].isWord /\ Touches(tokens[k], col))
               => o.isWord /\ Touches(o, col)
          /\ tokens # <<>> => \E k \in DOMAIN tokens :
               Touches(tokens[k], col) /\ o.index - tokens[k].index \in -1 .. 1

(* A qualified name that a table wrote into a statement is found under the *)
(* cursor and read back as that table, in every dialect, whatever stands   *)
(* in its parts but the quote, commas and parentheses (a token with one of *)
(* these is no word, quoted or not); names without quotes need plain ones. *)
Plain == {"a", "b", "s", "d"}
AnyChar == UNION {k.chars : k \in Keyboards}
NameUnderCursor ==
  \A d \in Dialects :
    (/\ Len(text) \in 1 .. MaxName /\ OneLine(text)
     /\ IF d.quote = NoQuote THEN Among(text, Plain) ELSE Among(text, AnyChar \ ({d.quote} \cup Parenthesis \cup Comma)))
    => \A own \in {"schema", "name"} :
         LET table == [[kind |-> "table", database |-> <<"d">>, schema |-> <<"s">>,
                        name |-> <<"b">>] EXCEPT ![own] = text]
             name == Fdqn(table, d)
             line == <<"x", " ">> \o name \o <<" ", "x">>
         IN  \A col \in {3, 4, Len(name) + 2, Len(name) + 3} :
               ParseTableName(GetCurrentObject(line, col).value, d, <<"d">>) = table

(* What a node of the schema panel shows is what its menu acts on.  Tables *)
(* listed by their columns, of which one is in a schema of the typed name  *)
(* and one has the typed name: each node's key leads back to its own       *)
(* database, schema or table, unless a name has a dot in it or differs     *)
(* from another one only in upper case; each two nodes together act on the *)
(* tables below them (those of hidden schemas too, when their database is  *)
(* selected); and every column listed is one of its table.  What a file or *)
(* a menu opens is there, selected and visible.  Two worksheets of a       *)
(* connection come to have one name, by which the tab bar finds them, only *)
(* by renaming one as a hidden one, when a dot cuts the name, or when one  *)
(* is made for another connection than the window's, whose name a          *)
(* worksheet of a third connection has first.                              *)
Listed(d) ==
  LET row(s, t, c) == [schema |-> s, table |-> t, column |-> c]
      fixed == <<row(<<"a">>, <<"A">>, <<"b">>), row(<<"a">>, <<"A">>, <<"A">>)>>
  IN  IF d = <<"e">> THEN fixed
      ELSE fixed \o <<row(<<"a">>, text, <<"b">>), row(text, <<"a">>, <<"b">>)>>
Tree == {[name |-> d, schemas |-> GetSchemata(Listed(d), d)] : d \in {<<"d">>, <<"e">>}}

Below(n) == CASE n.type = "table"    -> {n.data}
              [] n.type = "schema"   -> n.data.tables
              [] n.type = "database" -> UNION {s.tables : s \in n.data.schemas}
LeadsBack(n) ==
  CASE n.type = "table"    -> LookupTable(Tree, n.key) = n.data
    [] n.type = "schema"   -> LookupSchema(Tree, n.key) = n.data
    [] n.type = "database" -> LookupDatabase(Tree, n.key) = n.data

\* The window's connection is "c", and others have worksheets in front of its
\* own or of each other's; one that is not selected may be hidden.
Names == {OwnName(text), <<"b">>, Numbered(text, 1)} \ {<<>>}
Panels ==
  LET All == [tabs : {[i \in 1 .. 3 |-> [Worksheet(i, name[i], conn[i], <<"b">>, <<>>) EXCEPT !.hidden = (i = h)]]
                       : name \in [1 .. 3 -> Names], h \in 0 .. 3,
                         conn \in {<<"c", "c", "e">>, <<"f", "e", "c">>}},
              selected : 1 .. 3]
  IN  {p \in All : ~p.tabs[p.selected].hidden /\ (p.tabs[1].conn = "f" => p.selected = 3)}
DistinctNames(panel) ==
  \A conn \in {"c", "e", "f"} :
    Cardinality(NamesOf(OfConn(panel.tabs, conn))) = Len(OfConn(panel.tabs, conn))
Mine(panel) == {i \in DOMAIN panel.tabs : panel.tabs[i].conn = "c"}
ClickFinds(panel, t) == ActionTab(panel, "c", t.name).selected = t.id
IsAt(panel, conn, sql) ==
  \E i \in DOMAIN panel.tabs :
    LET t == panel.tabs[i]
    IN  /\ t.id = panel.selected /\ t.conn = conn /\ ~t.hidden
        /\ SubSeq(t.text, Len(t.text) - Len(sql) + 1, Len(t.text)) = sql

CreationLeadsBack(panel, name, conn) ==
  LET new   == CreateTab(panel, "c", 4, name, <<"x">>, conn, text)
      free  == NewTabName(panel.tabs, "c", name, text)
      third == \E i \in NamedIn(panel.tabs, free) : panel.tabs[i].conn # conn
  IN  /\ IsAt(new, conn, <<"x">>)
      /\ OwnName(free) = free =>
           /\ DistinctNames(new) \/ (conn # "c" /\ third)
           /\ conn = "c" => new.selected = 4 /\ \A i \in Mine(new) : ClickFinds(new, new.tabs[i])

WorksheetsLeadBack ==
  \A panel \in {p \in Panels : DistinctNames(p)} :
    /\ \A name \in {<<>>, text, text \o <<".", "s", "q", "l">>}, conn \in {"c", "e"} :
         CreationLeadsBack(panel, name, conn)
    /\ \A conn \in {"c", "e"}, db \in {text, <<"b">>} :
         IsAt(ParentTab(panel, "c", 4, conn, db), conn, <<>>)
    /\ \A name \in Names, k \in {i \in Mine(panel) : ~panel.tabs[i].hidden} :
         LET bar  == RenameInBar(panel, k, name)
             tree == RenameInTree(panel, "c", k, name)
         IN  /\ DistinctNames(tree) /\ ClickFinds(tree, tree.tabs[k])
             /\ (\E i \in Mine(panel) : panel.tabs[i].hidden /\ panel.tabs[i].name = name)
                  \/ (DistinctNames(bar) /\ ClickFinds(bar, bar.tabs[k]))

NodesLeadBack ==
  Len(text) <= MaxName => WorksheetsLeadBack /\
    LET nodes == Nodes(Tree)
        depth == [database |-> 1, schema |-> 2, table |-> 3]
        plain == {n \in nodes :
                    /\ Len(Parts(n.key)) = depth[n.type]
                    /\ \A m \in nodes : LowerCase(m.key) = LowerCase(n.key) => m = n}
    IN  /\ \A n \in plain :
             /\ LeadsBack(n)
             /\ n.type = "table" =>
                  LET own == <<n.data.database, n.data.schema, n.data.name>>
                  IN  /\ ComputeColumnStats(Tree, own) = {[table |-> n.data, columns |-> n.data.columns]}
                      /\ ComputeColumnStats(Tree, Append(own, <<"b">>)) = {[table |-> n.data, columns |-> {<<"b">>}]}
             /\ n.type = "table" => \A act \in {SelectAll(Tree, <<n.key>>), GetCount(Tree, <<n.key>>),
                                                 AnalyzeTable(Tree, <<n.key>>)} : act = {n.data}
        /\ \A n \in nodes : n.type = "table" /\ Len(Parts(n.key)) = 3
                              => ViewDDL(Tree, <<n.key>>) = {n.data}
        /\ \A m, n \in plain :
             LET both == Below(m) \cup Below(n)
                 two  == <<m.key, n.key>>
             IN  /\ TablesOf(Tree, two) = both
                 /\ GetCount(Tree, two) \in {both} \cup (IF m.type = "table" THEN {} ELSE {{}})
                 /\ CopyDrop(Tree, two) \subseteq {m.data, n.data}
        /\ \A d \in Tree : \A row \in {Listed(d.name)[i] : i \in DOMAIN Listed(d.name)} :
             (~Has(row.schema, <<".">>) /\ ~Has(row.table, <<".">>))
               => <<d.name, row.schema, row.table, row.column>> \in GetColumns(Tree, <<d.name>>)

(* parseFilterString: "words inside quotes represent one token"; and a row *)
(* is found by what one of its cells holds, in quotes or, in the result    *)
(* table, as it is.  A table is found by its name, with or without its     *)
(* schema, and its suggestion leads to it, if no name has a dot.  What the *)
(* explorer finds has every word ("space is AND") of a search without a    *)
(* comma, which it says is OR and takes for a character.  What is          *)
(* found can be taken out: the data copied, read as a table of cells with  *)
(* tabs and quotes, are the rows, and a click on a cell shows its row.     *)
\* A reader of cells between tabs, where two quotes in quotes are one.
ReadTable(t) ==
  LET PutIn(row, c)   == [row EXCEPT ![Len(row)] = Append(@, c)]
      Put(rows, c)    == [rows EXCEPT ![Len(rows)] = PutIn(@, c)]
      scan[i \in 0 .. Len(t)] ==
        IF i = 0 THEN [mode |-> "plain", rows |-> << << <<>> >> >>]
        ELSE LET s == scan[i - 1]
                 c == t[i]
             IN  CASE s.mode = "quoted" /\ c = "\"" -> [s EXCEPT !.mode = "quote"]
                   [] s.mode = "plain"  /\ c = "\"" -> [s EXCEPT !.mode = "quoted"]
                   [] s.mode = "quoted" /\ c # "\"" -> [s EXCEPT !.rows = Put(@, c)]
                   [] s.mode = "quote"  /\ c = "\"" -> [mode |-> "quoted", rows |-> Put(s.rows, c)]
                   [] s.mode # "quoted" /\ c = "\t" ->
                        [mode |-> "plain", rows |-> [s.rows EXCEPT ![Len(s.rows)] = Append(@, <<>>)]]
                   [] s.mode # "quoted" /\ c = "\n" ->
                        [mode |-> "plain", rows |-> Append(s.rows, << <<>> >>)]
                   [] OTHER -> [mode |-> "plain", rows |-> Put(s.rows, c)]
  IN  scan[Len(t)].rows

SearchWordsKeepQuotes ==
  LET words == ParseFilterString(text)
      QuotesBefore(w, i) == Cardinality({j \in 1 .. i : w[j] = "\""})
  IN  \A k \in DOMAIN words : \A i \in DOMAIN words[k] :
        words[k][i] = " " => QuotesBefore(words[k], i) % 2 = 1

BetweenQuotes(t) == <<"\"">> \o t \o <<"\"">>
RowIsFound ==
  LET row == << <<"x">>, text>>
  IN  /\ ~Has(text, <<"\"">>) => FilterAndMatched(row, ParseFilterString(BetweenQuotes(text)))
      /\ \A limit \in {-1, 1} : FilterRows(<<row>>, text, limit) # <<>>

FoundIsTakenOut ==
  LET headers == << <<"x">>, <<"y">> >>
      rows    == << <<text, <<"x">> >>, << <<"x">>, text>> >>
      cells   == [r \in 1 .. 2 |-> [i \in 1 .. 2 |-> rows[r][i] \o <<"\t">>]]
      shown   == FilterRows(rows, <<"x">>, -1)
  IN  /\ Len(text) <= MaxAppend =>
           /\ ReadTable(CopyData(headers, rows)) = <<headers>> \o rows
           /\ ReadTable(CopyData(headers, cells)) = <<headers>> \o cells
      /\ \A i \in 1 .. 2, r \in DOMAIN shown :
           LET after == AfterCellSelection(headers, shown, i, r)
           IN  /\ after.rowView[i].value = rows[r][i]
               /\ CopyHeaders(headers, after.selection) = <<headers[i]>>

TableIsFound ==
  (Len(text) <= MaxName /\ Trim(text) # <<>>) =>
    \A query \in {text, Dotted(<<"a">>, text)}, d \in Dialects :
      \A t \in {x \in GetAllTables(Tree) : x.schema = <<"a">> /\ x.name = text} :
        /\ t \in SearchTable(Tree, query)
        /\ (d.parts = 3 /\ ~Has(text, <<".">>))
             => Suggestion(Tree, query, FullName(t, d), d) = t

ExplorerFinds ==
  Len(text) <= MaxName => \A view \in {"Schemas", "Tables", "Columns"} :
    LET words == ParseFilterString(text)
        found == RefreshData(Tree, view, text)
    IN  /\ ~Has(text, <<",">>) =>
             \A k \in DOMAIN words : found \subseteq RefreshData(Tree, view, words[k])
        /\ ~Has(text, <<"\"">>) =>
             \A row \in RefreshData(Tree, view, <<>>) :
               (text # <<>> /\ \E i \in DOMAIN row : row[i] = text)
                  => row \in RefreshData(Tree, view, BetweenQuotes(text))

SearchFindsCell ==
  /\ SearchWordsKeepQuotes
  /\ RowIsFound
  /\ FoundIsTakenOut
  /\ TableIsFound
  /\ ExplorerFinds
=============================================================================
