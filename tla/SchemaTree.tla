----------------------------- MODULE SchemaTree -----------------------------
(***************************************************************************)
(* The tree of databases, schemas and tables of a connection: how it is    *)
(* built from the columns the server lists (dbnet.ts), the nodes the       *)
(* schema panel shows and the keys that lead back from them                *)
(* (connection.ts), what its menu does with the selected keys              *)
(* (SchemaPanel.tsx), and the searches over it (TopMenuBar.tsx,            *)
(* MetaExplorer.tsx).  Where the code takes the first match in the order   *)
(* of an object, CHOOSE does.                                              *)
(***************************************************************************)
EXTENDS TableName, RowFilter

CONSTANT InternalSchemas   \* pg_catalog, information_schema, ...: not shown

Dotted(s, t) == s \o <<".">> \o t
Parts(key)   == SplitAt(key, ".")

NewTable    == [database |-> <<>>, schema |-> <<>>, name |-> <<>>, columns |-> {}]
NewSchema   == [name |-> <<>>, tables |-> {}]
NewDatabase == [name |-> <<>>, schemas |-> {}]

\* getSchemata: rows of columns become tables, by schema and name with a dot
\* between them, and the tables become schemas.
GetSchemata(rows, database) ==
  LET key(i)   == Dotted(rows[i].schema, rows[i].table)
      first    == {i \in DOMAIN rows : \A j \in 1 .. i - 1 : key(j) # key(i)}
      table(i) == [database |-> database, schema |-> rows[i].schema, name |-> rows[i].table,
                   columns |-> {rows[j].column : j \in {k \in DOMAIN rows : key(k) = key(i)}}]
  IN  {[name   |-> rows[i].schema,
        tables |-> {table(j) : j \in {k \in first : rows[k].schema = rows[i].schema}}]
         : i \in DOMAIN rows}

\* A connection is the set of its databases.
GetAllTables(conn) == UNION {s.tables : s \in UNION {d.schemas : d \in conn}}

-----------------------------------------------------------------------------
Node(type, key, data) == [type |-> type, key |-> key, data |-> data]

DatabaseNodes(conn) == {Node("database", d.name, d) : d \in conn}
SchemaNodes(conn) ==
  UNION {{Node("schema", Dotted(d.name, s.name), s)
            : s \in {x \in d.schemas : LowerCase(x.name) \notin InternalSchemas}} : d \in conn}
TableNodes(conn) ==
  UNION {UNION {{Node("table", Dotted(Dotted(d.name, s.name), t.name), t) : t \in s.tables}
                  : s \in {x \in d.schemas : LowerCase(x.name) \notin InternalSchemas}} : d \in conn}
Nodes(conn) == DatabaseNodes(conn) \cup SchemaNodes(conn) \cup TableNodes(conn)

\* The panel shows a new object where a look-up finds none.
FirstOr(found, blank) == IF found = {} THEN blank ELSE CHOOSE x \in found : TRUE
Is(name, parts, i)    == i \in DOMAIN parts /\ LowerCase(name) = parts[i]

LookupDatabase(conn, key) ==
  FirstOr({d \in conn : LowerCase(d.name) = LowerCase(key)}, NewDatabase)

LookupSchema(conn, key) ==
  LET p == Parts(LowerCase(key))
  IN  FirstOr(UNION {{s \in d.schemas : Is(d.name, p, 1) /\ Is(s.name, p, 2)} : d \in conn},
              NewSchema)

\* The database of the key is not compared.
LookupTableBug(conn, key) ==
  LET p == Parts(LowerCase(key))
  IN  FirstOr(UNION {UNION {{t \in s.tables : Is(s.name, p, 2) /\ Is(t.name, p, 3)}
                              : s \in d.schemas} : d \in conn}, NewTable)

LookupTable(conn, key) ==
  LET p == Parts(LowerCase(key))
  IN  FirstOr(UNION {UNION {{t \in s.tables : Is(d.name, p, 1) /\ Is(s.name, p, 2) /\ Is(t.name, p, 3)}
                              : s \in d.schemas} : d \in conn}, NewTable)

-----------------------------------------------------------------------------
(* The menu, for the keys selected, in their order. *)

KeysOf(keys, kind) == {k \in {keys[i] : i \in DOMAIN keys} : Len(Parts(k)) = kind}

\* The tables of the databases and schemas selected, and the tables selected.
TablesOf(conn, keys) ==
  LET schemas == UNION {LookupDatabase(conn, k).schemas : k \in KeysOf(keys, 1)}
                   \cup {LookupSchema(conn, k) : k \in KeysOf(keys, 2)}
  IN  UNION {s.tables : s \in schemas} \cup {LookupTable(conn, k) : k \in KeysOf(keys, 3)}

\* A statement needs the connection of a table: for a new one nothing is sent.
Sent(table, tables) == IF table = NewTable THEN {} ELSE tables

SelectAll(conn, keys) ==
  LET table == LookupTable(conn, keys[1])
  IN  IF Len(keys) # 1 THEN {} ELSE Sent(table, {table})

\* Several keys: all tables, sent to the worksheet of the first one.
GetCount(conn, keys) ==
  LET table == LookupTable(conn, keys[1])
  IN  Sent(table, IF Len(keys) > 1 THEN TablesOf(conn, keys) ELSE {table})

\* The table whose node has this very key, if there is one.
ViewDDL(conn, keys) ==
  LET table == LookupTable(conn, keys[1])
      exact == {n.data : n \in {m \in TableNodes(conn) : m.key = keys[1]}}
  IN  IF Len(keys) # 1 \/ KeysOf(keys, 3) = {} THEN {}
      ELSE Sent(table, {FirstOr(exact, table)})

AnalyzeTable(conn, keys) ==
  IF KeysOf(keys, 3) = {} THEN {} ELSE SelectAll(conn, keys)

\* Schemas are only dropped when no table is selected.
CopyDrop(conn, keys) ==
  IF KeysOf(keys, 3) # {} THEN {LookupTable(conn, k) : k \in KeysOf(keys, 3)}
  ELSE {LookupSchema(conn, k) : k \in KeysOf(keys, 2)}

GetTables(conn, keys)  == {<<t.database, t.schema, t.name>> : t \in TablesOf(conn, keys)}
GetColumns(conn, keys) ==
  UNION {{<<t.database, t.schema, t.name, c>> : c \in t.columns} : t \in TablesOf(conn, keys)}

-----------------------------------------------------------------------------
\* The search box: tables whose name, with its schema, has every word in it.
SearchTable(conn, query) ==
  LET q == LowerCase(Trim(query))
      words == SplitAt(q, " ")
  IN  IF q = <<>> THEN {}
      ELSE {t \in GetAllTables(conn) :
              \A i \in DOMAIN words : IsInfix(words[i], LowerCase(Dotted(t.schema, t.name)))}

FullName(t, d) == LET name == Dotted(t.schema, t.name)
                  IN  IF d.parts = 2 THEN name ELSE Dotted(t.database, name)

\* Choosing a suggestion loads a table that was found by that full name.
Suggestion(conn, query, name, d) ==
  FirstOr({t \in SearchTable(conn, query) : FullName(t, d) = name}, NewTable)

-----------------------------------------------------------------------------
(* The explorer: a row has the names of a schema, a table or a column, its *)
(* key is one of the cells searched, and its numbers are left out.         *)

MetaRecKey(row) == LowerCase(Joined(row, <<".">>))
TableKey(row)   == MetaRecKey(SubSeq(row, 1, 3))

RefreshData(conn, view, filter) ==
  LET tables == GetAllTables(conn)
      rows   == CASE view = "Schemas" -> UNION {{<<d.name, s.name>> : s \in d.schemas} : d \in conn}
                  [] view = "Tables"  -> {<<t.database, t.schema, t.name>> : t \in tables}
                  [] view = "Columns" -> UNION {{<<t.database, t.schema, t.name, c>> : c \in t.columns}
                                                  : t \in tables}
  IN  {row \in rows : FilterAndMatched(<<MetaRecKey(row)>> \o row, ParseFilterString(filter))}

\* The table and the columns whose statistics a row asks for; no column asks
\* for all, and so does one that is not in lower case.  Nothing is asked when
\* the key leads to no table.
ComputeColumnStats(conn, row) ==
  LET table == LookupTable(conn, TableKey(row))
      found == {c \in table.columns : Len(row) = 3 \/ LowerCase(c) = row[4]}
  IN  IF table = NewTable THEN {} ELSE {[table |-> table, columns |-> found]}
=============================================================================
