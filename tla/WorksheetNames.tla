--------------------------- MODULE WorksheetNames ---------------------------
(***************************************************************************)
(* The names of the worksheets of a window (TabNames.tsx, WorkPanel.tsx).  *)
(* A new worksheet is named after a file or its database, with a number if *)
(* need be; it can be renamed in the tab bar and in the tree of the Work   *)
(* panel; the tab bar finds the worksheet of a click by its name, and      *)
(* createTab the one to append to.                                         *)
(*                                                                         *)
(* A name is a text; a number in it is one character.  A panel is the      *)
(* sequence of its worksheets and the id selected; current is the          *)
(* connection of the window, and names of connections are in lower case.   *)
(***************************************************************************)
EXTENDS SchemaTree, TLC

Worksheet(id, name, conn, db, sql) ==
  [id |-> id, name |-> name, conn |-> conn, db |-> db, hidden |-> FALSE, text |-> sql]

\* The worksheets of a connection, and the first one of some with a name.
OfConn(tabs, conn)   == SelectSeq(tabs, LAMBDA t : t.conn = conn)
NamesOf(tabs)        == {tabs[i].name : i \in DOMAIN tabs}
NamedIn(tabs, name)  == {i \in DOMAIN tabs : tabs[i].name = name
                                          /\ \A j \in 1 .. i - 1 : tabs[j].name # name}

\* The first of name, name_1, name_2, ... that is free in the window's connection.
\* Without a name the database gives one, and without that the day.
Day == <<"2", "0">>
Numbered(name, i) == IF i = 0 THEN name ELSE name \o <<"_", ToString(i)>>
NewTabName(tabs, current, name, db) ==
  LET taken == NamesOf(OfConn(tabs, current))
      start == IF name # <<>> THEN name ELSE IF db # <<>> THEN db ELSE Day
      free  == {i \in 0 .. Cardinality(taken) : Numbered(start, i) \notin taken}
  IN  Numbered(start, CHOOSE i \in free : \A j \in free : i <= j)

IsFile(name) == Len(name) > 3 /\ SubSeq(LowerCase(name), Len(name) - 3, Len(name)) = <<".", "s", "q", "l">>
OwnName(name) == IF IsFile(name) THEN name ELSE Parts(name)[Len(Parts(name))]

\* Selected, and visible again; the statement, if there is one, at its end.
Shown(panel, i, sql) ==
  [tabs     |-> [panel.tabs EXCEPT ![i].hidden = FALSE,
                                   ![i].text = IF sql = <<>> THEN @ ELSE @ \o <<"\n", "\n">> \o sql],
   selected |-> panel.tabs[i].id]

\* createTab: a worksheet of that name, whatever its connection, is looked at
\* first, and used if it is of the connection.
CreateTab(panel, current, id, name, sql, conn, db) ==
  LET own   == OwnName(NewTabName(panel.tabs, current, name, db))
      found == {i \in NamedIn(panel.tabs, own) : panel.tabs[i].conn = conn}
  IN  IF found # {} THEN Shown(panel, CHOOSE i \in found : TRUE, sql)
      ELSE [tabs |-> Append(panel.tabs, Worksheet(id, own, conn, db, sql)), selected |-> id]

\* getOrCreateParentTabState: the worksheet selected (it is there), if it is of the connection;
\* else the first one of the window's connection for that connection and database.
ParentTab(panel, current, id, conn, db) ==
  LET tabs  == panel.tabs
      mine  == {i \in DOMAIN tabs : tabs[i].id = panel.selected}
      likes == {i \in DOMAIN tabs : tabs[i].conn = current /\ tabs[i].conn = conn
                                       /\ LowerCase(tabs[i].db) = LowerCase(db)}
  IN  IF \E i \in mine : tabs[i].conn = conn THEN panel
      ELSE IF likes = {} THEN CreateTab(panel, current, id, <<>>, <<>>, conn, db)
      ELSE Shown(panel, CHOOSE i \in likes : \A j \in likes : i <= j, <<>>)

\* A click in the tab bar: the first worksheet of the connection with that name,
\* hidden or not (a name that is not blank, nor that of a button: add, del).
ActionTab(panel, current, name) ==
  LET mine  == OfConn(panel.tabs, current)
      found == CHOOSE i \in NamedIn(mine, name) : TRUE
      at    == CHOOSE i \in DOMAIN panel.tabs : panel.tabs[i].id = mine[found].id
  IN  Shown(panel, at, <<>>)

\* The tab bar takes a name that no other visible worksheet has, of any connection;
\* the tree one that no worksheet of the connection has.
Renamed(panel, id, name) ==
  [panel EXCEPT !.tabs = [i \in DOMAIN @ |-> IF @[i].id = id THEN [@[i] EXCEPT !.name = name] ELSE @[i]]]

RenameInBar(panel, id, name) ==
  IF \E i \in DOMAIN panel.tabs : /\ panel.tabs[i].id # id /\ ~panel.tabs[i].hidden
                                  /\ panel.tabs[i].name = name
  THEN panel ELSE Renamed(panel, id, name)

RenameInTree(panel, current, id, name) ==
  IF name \in NamesOf(OfConn(panel.tabs, current)) THEN panel
  ELSE Shown(Renamed(panel, id, name),
             CHOOSE i \in DOMAIN panel.tabs : panel.tabs[i].id = panel.selected, <<>>)
=============================================================================
