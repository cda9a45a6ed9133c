# A TLA+ development of dbNet

dbNet is a database client: a Go process that serves a REST API and the pages
of a browser front end, a React application of which several windows may be
open at once, and a desktop shell that starts both. This directory holds TLA+
modules that model its stateful parts, TLC configurations that check them on
small instances, and proofs, checked by TLAPS, that hold for every instance.

`PROJECT.json` is the index: which definition stands for which lines, which
run checks what, and which mutation of the model each property detects.
Paths below are relative to `src/`; `fe/` is short for `frontend/src/`.

## 1. The system

### Components

| Component | State | Operations | Module |
|---|---|---|---|
| Query panel: worksheets, their results, running statements (`fe/state/dbnet.ts` 363-502, `fe/components/TabNames.tsx`, `SubTabs.tsx`, `TabToolbar.tsx`, `TabTable.tsx`, `WorkPanel.tsx`, `SchemaPanel.tsx`) | arrays `tabs`, `results`, `selectedTabId`; each element's `selectedResult`, `parent`, `query`, `loading`, `pinned`; the handles a running `submitQuery` and a read of the cache keep | submit, answer, fail, refresh, fetch, read the cache, close, pin, select, create and delete a worksheet, clean-up, Load session | `QueryPanel` over `HsArray`; `AnswerBoard` is what it promises |
| Worksheets of several windows and the stored session (`fe/state/state.ts` 36-126, 233-348, `fe/Default.tsx`, `server/routes.go` 125-166) | per window: tabs, hidden tabs, texts, selection, last selected tab per connection; one stored session; broadcasts | select, create, edit, hide, delete, save with broadcast, load, start of a window | `Worksheets`, `StoredSession`; names in `WorksheetNames` |
| Object panel (`fe/components/MetaTablePanel.tsx`, `fe/state/state.ts` 211-230, `schema.ts`) | the table of the state and the panel's own copy of it, `history`, `historyI`, `loading`, the selected columns, the open form | load, back, forward, refresh, save, load of the session; select, statistics, distributions, comparison | `ObjectHistory`, `ObjectPanel` |
| Connections, databases and schemata of a window (`fe/state/dbnet.ts` 53-87, 107-345, `fe/Default.tsx`) | list of connections, a tree below each, `selectedConnection`, and its copy in `localStorage` | start of the window with its retries, loads of connections, databases and schemata, in any overlap | `Connections` |
| Schema panel and connection choosers (`fe/components/SchemaPanel.tsx`, `ConnectionChooser.tsx`) | the connection shown, a spinner, timers and effects, the dialog | mount, leave, select, refresh all or one database; what each entry of the menu does with the selected nodes | `Connections`, `SchemaTree` |
| The tree and its keys (`fe/state/connection.ts`, `schema.ts`), the search over tables (`TopMenuBar.tsx`), the explorer (`MetaExplorer.tsx`) | none of their own | nodes and keys, look-ups by key, tables of several keys, search and suggestions; what the explorer lists and does with the tables selected | `SchemaTree` |
| Editor (`fe/state/monaco/monaco.ts`), scanner (`frontend/dbnet-parser/src/token.ts`), names (`connection.ts`, `dbnet-parser/src/schemata.ts`), filters (`fe/utilities/methods.tsx`, `TabTable.tsx`) | the scanner's mode, token, level and place | the statements of a text, the statement and the name at the cursor, what Execute sends and marks; names written and read back; rows kept by a search, cells copied; a statement appended to a worksheet | `Editor`, `Scanner`, `TableName`, `RowFilter` |
| Statement, from button to history (`fe/state/dbnet.ts` 363-502, `TabTable.tsx`, `TabToolbar.tsx` 20-32, `fe/state/query.ts`, `server/functions.go`, `server/routes.go`, `store/db.go`) | the `Query` object a result shows, rows cached in IndexedDB, the session's result; on the server the statements that run, upserts under way, rows of the history | submit, 202 continuation, answer, failure, cancel, edit, fetch more rows, look-up in the cache, upsert | `Statement` |
| Project files (`server/files.go`) | files with modification times in seconds | read, write with a check, delete, list | `FileStore` |
| Start-up and shutdown (`dbnet.go`, `dbnet_cli.go`, `server/server.go`, `frontend/public/electron.js`) | the shell's window and the process it remembers, servers, signals | spawn, listen, load the page, interrupt, kill, quit | `Shell`; `Desktop` composes it with the two above |
| HTTP helpers, history panel, jobs, mock sessions, command line, telemetry | none, or filters and selections | - | not modelled (section 6) |

### How they interact

A window is one JavaScript thread. Handlers run to their next `await` without
interruption, and between two awaits of one call any other handler may run.
That is the interleaving of every module: an asynchronous function is split
into one action up to each await and one after it, and nothing smaller.

Panels are Hookstate states. `state.tabs[i]` is a *handle*: it stores the path,
that is the index, and not the element. Removing an element (`set(none)`, or a
filtered array) moves all later ones down, while a handle keeps its index.
`HsArray` models this and `QueryPanel` is about its consequences. Hookstate is
not in the repository; that it throws when the state of an unmounted component
is set, which `Connections` uses, is modelled from how the code calls it.

`submitQuery` ends in `save`, and so do many user actions (the models let it
happen at any time). `save` posts the whole session, all connections included,
and the server keeps the last one it got. After the answer, the window
broadcasts the worksheets of its own connection over a `BroadcastChannel`, and
the other windows merge them. A window that starts loads the session.

A window also loads a list of connections and below it a tree of databases,
schemata and tables. The schema panel draws the tree, and the keys of its nodes
(names joined by dots) lead back into it when the menu is used. The editor cuts
worksheets into statements and finds names in them, which go to the object panel.

Below all this, the desktop shell spawns a server per window it creates and
loads the page from a fixed port. A server that ends takes the statements and
the upserts it had with it; a page that is reloaded leaves its statements
without a reader. `Desktop` is this composition.

### What is hard

* state looked up before an await and written through after it (`QueryPanel`,
  `ObjectHistory`, `Connections`);
* several windows with copies of each other's worksheets, one stored row, and
  no versions (`Worksheets`);
* look-ups that fall back silently: `getResultIndexByID` returns 0 and
  `getTabState` returns `tabs[0]` for an id that is gone;
* clean-ups that remove elements other calls refer to;
* sessions that restore what was true when they were saved;
* objects two owners write to: a result and the submission that runs for it
  hold one `Query`, the object panel keeps a copy of a table that a session
  replaces (`Statement`, `ObjectPanel`);
* rows of the history, files and signals with several writers or receivers
  (`Statement`, `FileStore`, `Shell`);
* scanners that must agree with one another character by character (`Editor`).

## 2. The modules

| Module | What it is |
|---|---|
| `HsArray` | arrays as functions from ids to indices: `Push`, `Drop`, `Lookup`, `Dense` |
| `QueryPanel`, `MCQueryPanel` | the query panel of one window; two stored sessions and a constraint for TLC |
| `AnswerBoard` | abstract: a board of results, each answer in the result it was asked for |
| `ObjectHistory`, `MCObjectHistory` | the object panel's table and history; its symmetry for TLC |
| `ObjectPanel`, `MCObjectPanel` | extends it: selection, forms, and what the buttons submit |
| `Worksheets`, `MCWorksheets` | windows, stored session, broadcasts; values and state constraint for TLC |
| `StoredSession`, `MCStoredSession` | extends it: saves that follow one another, and what was stored |
| `Scanner`, `TableName`, `RowFilter` | the token scanner, qualified names, filters and copies of rows, as recursive functions |
| `SchemaTree` | the tree of a connection, the keys of its nodes, the menu, the search, the explorer |
| `WorksheetNames` | how worksheets are named, renamed, and found by their names |
| `Editor`, `MCEditor` | texts being typed, cut into statements and names; the keyboards for TLC |
| `Connections`, `MCConnections` | the loads of one window and its schema panel; two connections for TLC |
| `Shell` | the desktop shell and its servers |
| `Statement` | one result, its statements, the cache, the session, the history; extends `Shell` |
| `FileStore` | clients of one project file, and another program; extends `Shell` |
| `Desktop`, `MCDesktop` | the composition of the three; symmetry and constraint for TLC |
| `HsArrayProofs`, `QueryPanelProofs`, `ObjectPanelProofs` | proofs about arrays and the two panels |
| `EditorProofs`, `SearchProofs` | proofs about texts, and about searches and what is copied |
| `WorksheetsProofs`, `ConnectionsProofs`, `DesktopProofs` | proofs about worksheets and the stored session, loads, and the composition |

Each property needs a way to fail: definitions named `...Bug` stand directly
before the definition they spoil, are used by no specification, and a run with
the one in place of the other must report the property violated.

### HsArray

An array of elements with ids is a function `at` from ids to indices, `Absent`
for those not in it. `Push` appends, `Drop` removes a set and closes the gaps,
`Lookup` is `getTabState`/`getResultState` with their fallback to index 0
(`TabNames.tsx` 130-140). This makes "the handle is stale" an inequality
between two numbers: where the element is, and where the handle points.

### QueryPanel

Ids are numbers in order of creation, as the time stamps of `new_ts_id` are.
`query[q]` is a call of `submitQuery`: its status, the two handles, and, for
the properties only, the ids they were taken for (`of`, `from`). Tab 0 of a first
visit is the Q1 without a connection, which no list shows: `Own` is the worksheets
the lists do show. `stray` stands for an id no worksheet has, as the folder of the
Work panel; every look-up then falls back to the first element. A result's spinner
is "on" when `submitQuery` started it and "idle" when anything else did: `fetchRows`,
or a session that was stored with it.

| Action | Code |
|---|---|
| `Execute`, `Refresh`: up to the first await | `dbnet.ts` 364-430, callers in `TabToolbar.tsx` 34-77 |
| `Answer`, `Fail`, `Break`: after the last await; through good handles, in the catch block, or through a handle past the end, which throws | `dbnet.ts` 457-502 |
| `AddResult`: `createTabResult` and `AddResultAndCleanup` | `TabNames.tsx` 85-128 |
| `CloseResult`, `CloseOnlyResult`, `SelectResult`, `TogglePin` | `SubTabs.tsx` 110-171 |
| `CreateTab`, `DeleteTab`, `ReplaceTab`, `SelectTab` | `TabNames.tsx` 19-49, `WorkPanel.tsx` 84-104, `dbnet.ts` 88-105 |
| `ShowObjects` | `SchemaPanel.tsx` 408-479 |
| `FetchRows`, where it submits nothing; where it does, it is `Refresh` | `TabTable.tsx` 56-73, `TabToolbar.tsx` 49-55 |
| `StartPull`, `LandPull`: `pullResult` around its await | `TabTable.tsx` 28-53, 115-119 |
| `Load`, `LoadBare`: the Load session button, of a session with results or without | `TopMenuBar.tsx` 280-286, `state.ts` 104-126, 233-282 |

The await of a statement is one, however many 202 continuations it has: the
continuation changes only the text, which is left out.

A stored session is any record with the properties of `SessionsAssumption`: what
`QueryPanelState` makes of stored data, that is, dense arrays with a worksheet in
them, results of its worksheets only, and Query objects that are copies. Loading one
replaces both arrays while the statements under way keep their handles, which
then belong to no result: their `of` and `from` become `undefined`.

Two specifications. `Spec` has every action at any time; of what one window can do it
leaves out hidden worksheets and what other windows broadcast. `SteadySpec` is one
session (`SessionNext`, no `Load`), restricted to steps after which every running
statement's handles and every read of the cache still point at what they were taken for
(`Exact`, `PullExact`). That is a *condition on the user*, not a promise of the code;
what fails without it is shown by the run `query_panel_spinner`. What fails within
it is said by the properties: a spinner `fetchRows` started for a blank text ("idle")
stands for no statement and does not stop; the first worksheet, Q1, may show
foreign results; and any other does after an error (`ForeignOnlyAfterError`).

### AnswerBoard

The promise of a result panel, without arrays or handles: a statement is asked
for one result, its answer appears there and nowhere else, and a result that
is waited for stays. `BoardSafety` in `QueryPanel` is this specification under
the refinement mapping `open <- Results`, `shown <- ` the `query` of a result,
`asked <- of`, `pending <- Running`.

### ObjectHistory

`loadMetaTable` is `Open`, `Refresh`, `Back` or `Forward` up to its await, and
`Answer` or `Fail` after it; any number of loads may be in flight. `Back` and
`Forward` move `historyI` *before* the load (`MetaTablePanel.tsx` 479, 510).
`shown` is the table of the state and `local` the panel's own copy of it, which
its rows, its buttons and the refresh use. An effect brings the copy up to date
when the table's *name* or `loading` changes, and compares nothing else
(`Redrawn`, `MetaTablePanel.tsx` 168-175). A refresh holds what the library
handed out of that copy, which the effect may replace before the answer comes:
the name a refreshed table gets is chosen from the two it may have
(`NamesAtAnswer`). `Restore` models `data.historyI || -1` (`state.ts` 227),
which turns 0 into -1.

### ObjectPanel

Adds the selected columns, the form that is open, and the statement submitted
last (its table, and the table whose columns it names).

| Action | Code |
|---|---|
| `SelectionFollows`, with every step of the history | the effect, `MetaTablePanel.tsx` 168-175 |
| `Select`; `ShowForm`, `HideForms` | 670-694; 625-647, 182-197 |
| `Submit`: Select fields, Count rows, statistics | 554-611, `schema.ts` 91-154 |
| `SubmitDistro`: distributions of columns and dates | 613-623 |
| `StatsByGroup`, `CompareColumns`, through `Form.submit` | 262-306, 308-358, 133-146 |

The rows and buttons use the panel's copy, the forms the table of the state:
`StatementsFit` relates the two through any sequence of loads and selections.

### Worksheets

`panel[w]` is the window's panel: where each worksheet is in `tabs`, which are
hidden, their texts (the number of the last edit), `selectedTabId`, and
`selectedConnectionTab` (`last`). A stored session, one on its way, and a
panel have the same shape.

| Action | Code |
|---|---|
| `Create`, `Select`, `SelectFolder`, `SelectStale`, `Edit`, `Close`, `Delete` | `TabNames.tsx` 19-49 and 219-243, `dbnet.ts` 88-105, `WorkPanel.tsx` 84-104 and 205-209, `TabEditor.tsx` 97-103 |
| `Save`, `Store` or `Lose`, `Broadcast`: post, what the server does, the rest after the await | `state.ts` 70-102, `routes.go` 146-166 |
| `Receive` | `state.ts` 43-68 |
| `Boot`, `Open`, `OpenWithout`, `OpenDangling`: start of a window, and its end with the session, without it, or by an exception | `dbnet.ts` 58-69, `Default.tsx` 41-85, `TabNames.tsx` 142-166 |
| `AskLoad`, `Load`: the Load session button | `TopMenuBar.tsx` 280-286, `state.ts` 104-126 |

`Boot` reads the stored row in the step that asks for it: the answer carries
the row of some moment of the request, and the earliest is the hardest case,
for every later one is a `Boot` later on. `stale` is what the tree of the Work
panel still lists of deleted worksheets.

A click in the tree of the Work panel selects the id of the node, and the node
above the worksheets has one, `folder`, that no worksheet has: the window then shows
its first worksheet, of whatever connection, and has none selected. `save` stores that.

Specifications: `Spec` has everything; `CalmSpec` leaves out the Load session
button, failed loads at start, and clicks on nodes of deleted worksheets,
which each break the selection (section 5). A click on the folder is in both, and
`SelectionExists` and `SessionsCoherent` name it as their exception.

### StoredSession

A *condition on the users* again: `SerialSpec` lets a save, a start, an edit or a
removal begin only when nothing is in flight, and no save fails. `kept` is a
history variable: the text with which a worksheet was stored last by a window of
its own connection, or `Absent` if that window did not store it. `NothingLost`
says that the stored session holds each of them, whichever window stored last.

It says nothing of a worksheet its own window has closed and stored without. Such
a one may come back: a window that has a copy still stores it, and a third one,
which started in between and never saw it, stores without it. (That an open
worksheet stays once *any* window has stored it therefore holds of two windows
and fails with three.)

### Scanner, TableName, RowFilter

Pure algorithms, written as recursive functions over the turns of the code's
loops, on texts that are sequences of characters. `Scanner` is `Tokenize`,
`TokenizeLine` and the look-ups of `TokenBody` (`dbnet-parser/src/token.ts`,
which `monaco.ts` imports; `fe/state/monaco/token.ts` is an older copy nothing
imports). A mode is one value in place of eight flags, of which at most one is
true. `TableName` writes a table's name for six families of dialects
(`schema.ts` 37-87) and reads one back (`connection.ts` 244-354, and the same
scanner in `schemata.ts`). `RowFilter` is `parseFilterString` and
`filterAndMatched` (`methods.tsx`), `filterRows` of the result table, and what
its menu copies of the rows and of their headers.

### SchemaTree

| Operator | Code |
|---|---|
| `GetSchemata`: rows of columns to tables and schemas | `dbnet.ts` 289-324 |
| `DatabaseNodes`, `SchemaNodes`, `TableNodes`; `LookupDatabase`, `LookupSchema`, `LookupTable` | `connection.ts` 106-242 |
| `SelectAll`, `GetCount`, `ViewDDL`, `AnalyzeTable`, `CopyDrop`, `GetTables`, `GetColumns` | the menu, `SchemaPanel.tsx` 283-478 |
| `SearchTable`, `Suggestion` | `TopMenuBar.tsx` 182-234 |
| the rows the explorer lists, its filters, and what it does with those selected | `MetaExplorer.tsx` |

Trees are sets; where the code takes the first match in the order of an object,
CHOOSE takes one.

### WorksheetNames

A name is chosen from the file, the database or the day, with the first number
that makes it free (`NewTabName`); it is what the tab bar finds a click's
worksheet by (`ActionTab`), and what `CreateTab` finds the one to append to by.
`ParentTab` is `getOrCreateParentTabState`, and there are two ways to rename,
which exclude different names (`RenameInBar`, `RenameInTree`).

### Editor

The state is a text being typed; `Type` is the only action. What is checked is
what the operators compute for every such text: `GetBlocks`, `GetCurrentBlock`,
`GetCurrentObject` (`monaco.ts` 192-343), and `ExecuteSQL`, what the Execute key
sends and marks, with a selection or without (`monaco.ts` 91-114, `TabToolbar.tsx`
196-206, `dbnet.ts` 370-380, `editor.ts` 91-118).

### Connections

`jobs` are the asynchronous calls in flight; each is somewhere between two of its
awaits (`at`) and holds what it read before the last one: the list it found its
connection in (`load`) and the index it had there (`index`). `trees` keeps one
tree per list ever loaded, for a load may hold an object of a list that has been
replaced.

| Action | Code |
|---|---|
| `StateLoaded`, `Retry`, `NoConnections`, `SomeConnections` | `dbnet.ts` 53-69, 173-208, `Default.tsx` 41-85 |
| `Fire`, `AnswerDatabases`, `AnswerSchemata`, `End` | the 10 ms timer, `getDatabases`, `getSchemata`, the rest of `loadConnection`, of Init or of the menu: `dbnet.ts` 210-340, `SchemaPanel.tsx` 65-76 |
| `SelectTimer`, `RefreshEffect`, `RefreshAll`, `RefreshDatabase`, `LeavePanel`, `ReturnToPanel` | `SchemaPanel.tsx` 26-92, 269-283, `LeftPane.tsx` 49-60 |
| `Choose`, `OK`, `Hide`, `ShowWorksheet` | `ConnectionChooser.tsx` 20-75, `Default.tsx` 117-129, `TabNames.tsx` 434-443, `dbnet.ts` 71-86 |

The selection moves only once, from none to a name: each connection is opened in
a browser tab of its own. The spinner has two values besides off and on, which
say why nobody clears it: `restored` came with a stored session, `stranded` was
left by a panel that is gone.

### Shell

| Action | Code |
|---|---|
| `CreateWindow` (in `ShellInit` and `Activate`), `CloseWindow`, `Quit`, `LoadPage`, `Reload` | `electron.js` 9-74 |
| `Listen`, `CannotStart` | `dbnet_cli.go` 108-139, `server.go` 96-128 |
| `Signal`, then `MainExits` or `HandExits` | `dbnet.go` 24-59, `server.go` 118-143 |
| `BrokenPipe` (external) | a server logs after its shell is gone |

A signal reaches two Go routines, `main`'s `select` and the one `Start` begins,
and either ends the process. `main` waits five seconds after SIGINT for `serve`,
which does not look at the context while it serves: the wait changes nothing.

### Statement

One result and the statements submitted for it. `object` are the `Query` objects:
one per submission, and one, `Detached`, that no submission holds; `result.ref`
says which of them the result shows. `wire` is where the request or the answer of
a statement is, `records` the upserts of the history under way.

| Action | Code |
|---|---|
| `Submit`, `Continue`, `Succeed`, `Fail` | `submitQuery` up to its await, at a 202, after the last await, in the catch: `dbnet.ts` 363-502 |
| `Edit`, `CancelSQL`, `FetchRows`, `ShowTable`, `PullResult` | `TabToolbar.tsx` 20-95, `TabTable.tsx` 28-119 |
| `SaveSession`, `LoadSession`, `EnterPage`, `LeavePage` | `query.ts` 72-122, `state.ts` 70-119 |
| `Respond`, `CancelStatement`, `Upsert`, `UpsertFails` | `server/functions.go` 23-53, `server.go` 82-94, `store/db.go` 58-91 |
| `Accept`, `Refuse`, `Run` (external) | dbREST and the database |

`queryMiddleware` evaluates `processQuery`, and with it the upsert, before it
starts the Go routine that logs its error; so a response smaller than a buffer
leaves only after its row has landed, and one with rows may be read before
(`Held`). `HistoryTellsTheEnd` rests on this. An upsert may fail (the data base is busy
or being vacuumed): `Sync` returns the error and the middleware logs it, and the row keeps
what it had. `ghost.unrecorded` remembers the statements whose end was lost so, or with
their server.

### FileStore

`Read` is `ReadBody` and `ReadStat`, `Write` is `WriteCheck`, `WriteOpen` (which
truncates) and `WriteFill`, `Delete` is one step (`files.go` 37-98). Time stamps
are whole seconds. An error of `os.Stat` is ignored in `Read` and in `Write`; the
panic that follows is caught by Echo's `Recover` and answers the request.

### Desktop

Composes them. A server that ends while it listens takes requests, statements
and upserts with it (`DropStatements`, `DropJobs`); a page that goes leaves its
submissions (`LeavePage`), and one that comes up restores the session
(`EnterPage`). Statements and files meet in nothing but their server, so a
behaviour has acts on the one or on the other (`traffic`).

## 3. What is checked

No run looks for deadlocks: users may stop at any time, and ids run out in a
bounded model.

| Run | Specification, bounds | Shows |
|---|---|---|
| `query_panel` | `Spec`; 3 tabs, 3 results, 2 statements, `numResults` 1, two stored sessions (`MCQueryPanel`); at most one pinned result, idle spinner or read of the cache at a time (`FewAtOnce`) | `LookupsLand` no look-up misses, no deletion leaves the selection behind; `HandlesNeverBehind` until a session is loaded, a late answer never overwrites an older element; `CleanupIsOrderly` what a new result may remove, told by the state before it |
| `query_panel_steady` | `LiveSteadySpec`; 2, 3, 2, `numResults` 1, `FewAtOnce` | `OwnAnswers`, `SpinnerRuns`, `TabSpinnerRuns`, `ForeignOnlyAfterError`, `BoardSafety` (refinement), `SpinnersStop` (liveness) |
| `query_panel_spinner` | `Spec`; 1, 4, 2 | `SpinnerRuns` fails without the condition |
| `object_history` | `Spec`; 3 names, 2 loads in flight, cap 2 | `PositionInHistory`, `NoRepeats`, `BackStaysPossible` |
| `object_history_calm` | `CalmSpec` of `ObjectPanel`; 2 names in 2 schemas, 1 load, cap 2 | `ColumnsMatch`, `StatementsFit`, `ShowsCurrent` |
| `worksheets` | `CalmSpec`; 2 windows, 3 worksheets, 1 edit, in flight at once what `FewInFlight` lets | `SelectionExists`, `SessionsCoherent`, `OwnWorksheetsKept` |
| `worksheets_serial` | `LiveSerialSpec`; 3 windows, two of one connection, 3 worksheets, 1 edit | `NothingLost`, `SavesReachWindows` (liveness) |
| `worksheets_init` | `Spec` | a window may start on a worksheet that does not exist |
| `worksheets_close` | `Spec` | the first visible worksheet cannot be closed while it is selected |
| `editor_texts` | every text of up to 4, 6 or 7 characters over five keyboards, names up to 3, texts appended to up to 4 | `TokensTile`, `BlocksAreStatements`, `OwnStatement`, `ScannersAgree`, `ObjectAtCursor`, `NameUnderCursor`, `NodesLeadBack`, `SearchFindsCell` |
| `schema_load` | 2 connections of one database each, lists of one or both, `Tries` 2, 1 act of the user, 3 loads | `SpinnerServes`, `PanelAgrees`, `AnswersKeepTrees`, `LoadsEnd` (liveness) |
| `desktop` | 4 acts (3 on files), 2 servers, 2 statements, 2 clients, 3 bodies, seconds 0 and 1 | `RowsOfTheirText`, `SpinnerHasItsStatement`, `HistoryTellsTheEnd`, `OnlyForgottenServersStay`, `NoLostUpdate` |

What these say, in words:

* `TokensTile`: tokens are the text, none of it lost, and carry their own place
  and index. `BlocksAreStatements`: statements are the whole text, and each, sent
  alone, is one. `OwnStatement`: the cursor on a line of one statement finds it,
  Execute sends the same with the statement selected, and the mark starts at its
  first line that is not empty. `ScannersAgree`: the editor's and the parser's
  copies of the scanner cut at the same semicolons, with the exceptions named.
  `ObjectAtCursor`: a word the cursor touches is found. `NameUnderCursor`: a name
  a table wrote is found and read back as that table. `NodesLeadBack`: a node's
  key leads back to what the node shows, the menu and the explorer act on that,
  and a worksheet's name leads back to it, however it was named, with the exceptions
  its comment names. What the explorer finds has every word of a search without a comma.
  `SearchFindsCell`: what a cell or a table's name holds is found, and what is
  copied reads as the rows it was. A statement appended to a worksheet whose text
  ends one is sent alone (`OwnStatement`).
* `NothingLost`: see `StoredSession`. `SavesReachWindows`: a worksheet saved in
  its own window gets to every open window of another connection, unless it is
  closed or deleted first.
* `SpinnerServes`: a spinner of a load of this window will be cleared by a load in
  flight. `PanelAgrees`: at rest the panel shows the selected connection, with
  all that was loaded of it. `AnswersKeepTrees`: answers only add, and to their
  own connection. `LoadsEnd`: every load ends.
* `RowsOfTheirText`: the text above the rows is the one that ran for them.
  `SpinnerHasItsStatement`: a statement's spinner turns only while it waits.
  `HistoryTellsTheEnd`: the row of a statement whose end the window knows has
  an end too, unless the upsert of it failed or went with its server. `OnlyForgottenServersStay`: after the shell has quit, a server that
  was not told to end is one that macOS made it forget. `NoLostUpdate`: a write
  without Overwrite destroys no body its client has not seen, but for one of the
  same second or one that came after the check.

Why the bounds are enough. In the query panel every hazard is about two
elements and their order: one in front that goes and one behind that a
statement waits for; three results of two worksheets and two statements have
all orders of these, and `numResults` is 1 in place of 3 so that the clean-up
happens with them. Of stored sessions, one has a worksheet, a failed copy and a result
that still spins, and one has no results, so that either branch of Load session runs
while statements wait. `FewAtOnce` does not expand states with more than one of a pinned
result, an idle spinner and a read of the cache; a step of `Settle` adds none of the
three and makes no worksheet, so wherever a statement waits TLC follows its end, and
`SpinnersStop` does not hold for want of that step; behaviours through the states
left out are not explored. In the object panel a history of two or three items
already meets its cap, its cut and a restored position; only the names of
tables are compared, so names are symmetric. For worksheets, one window with
two worksheets of its own and one of the other's has every case of the
selection. `FewInFlight` expands states with one save, start or broadcast in
flight, and those in which the first window reloads while a save of its own is
under way, whose orphan then replaces the row after the new window has read it;
and it lets texts differ only until a save succeeds. `FolderClicks` has the first
window alone click the folder, with two worksheets and no edited text. Steps out of other overlaps
are not explored: TLC serves to try the invariants out, and section 4 proves
them for all overlaps. `CalmView` leaves `stale` out of the state, for nothing
in that specification reads it.

With saves in order a third window has a question of its own: what one window
stores, a second one copies, and a third one stores over. `ThirdWindow` lets it
come once all worksheets are made and before a text is edited; from then on it
alone is reloaded. The proof of `NothingLost` has neither bound.

For texts, the keyboards put together the characters
whose modes can meet (quotes and escapes; comments; jinja; the quotes of names;
words and parentheses); a mode is opened and closed with at most four characters,
and texts of six or seven hold one, a neighbour and a semicolon. Appending and
copying scan a text two or three times longer, so `MaxAppend` is 4: a mode left
open, or a statement and its semicolon. `MCInternal`
lets a typed name stand for the hidden schemas.

For the loads, lists of one and
of two connections make an index mean another connection, or none, and three
loads are the two of a start and one of the panel.

In the desktop, a statement
that covers another needs two, and so does a client that another one overtakes;
two seconds distinguish a younger file from one of the same second; a forgotten
server needs a second one. Four acts are what it takes to submit, edit or reload
in between, submit again and cancel. `LostAlone` has upserts fail only while
one statement is about: a row is written by nothing but its own statement's upserts.

### Fairness

`LiveSteadySpec` assumes weak fairness of `Settle(q)` of every statement: the
server answers or the request fails, and the browser then runs the rest of the
call. A browser's `fetch` and its callbacks do this; the user is under no
obligation. `LiveSerialSpec` assumes the same of the answer to a save, of the
start of a window, and of the delivery of broadcasts, which a
`BroadcastChannel` gives to every open window of the origin in order.
`Connections` assumes it of the steps of loads, of the start, of the panel's
timer and of its effect: requests are answered or fail, timers fire and effects
run. No user action is fair. `Desktop` states no fairness, for no property of it
needs any.

## 4. What is proved

Every safety property of a passing run, but for `NodesLeadBack` of `Editor`, is a theorem
for all values of the constants. Each specification has one inductive invariant, which
TLC checked on the runs' instances before it was proved.

`HsArrayProofs` has the facts about arrays: `Push` and `Drop` keep them dense,
`Drop` moves elements only down, every index of a dense array is taken
(`IndexTaken`), so a look-up in one that is not empty returns an element, and how
many places are taken in front of one. They rest on
the library's theorems on finite sets and cardinality.

`QueryPanelProofs`, about `Spec`, for any number of tabs, results and statements:

* `Invariant`: `IInv == TypeOK /\ LookupsLand /\ HandlesNeverBehind /\ IdsOld`.
  `HandlesNeverBehind` alone is not inductive. It needs dense arrays, or a new
  element could be appended at or below the index of an old one, and `IdsOld`,
  for otherwise a new element could have the id a running statement refers to.
* `TypeCorrect`, `LookupsAreSafe`, `HandlesOnlyLag` follow. The argument is
  `MovesPreserve`: whatever a step does, elements stay, move down, or are new
  with the next id, and a handle is the one of before or exact; one lemma per
  action of a session shows that it is such a step (`SessionMoves`). Load session is
  no such step: it makes the invariant anew (`LoadInvariant`).
* `CleanupKeepsOrder`, an action property: what `AddResult` removes is counted
  against the limit, which takes `PlacesTaken` and `BeforeOrder` about arrays.

Its second part is about `SteadySpec`:

* `SteadyInvariant` adds to `IInv` that handles are exact, that the result and
  the worksheet of a running statement are there and belong together (`Waited`),
  that unused statements have asked nothing, results that are gone show
  nothing and no result has a restored error, and that no worksheet selects a result
  that is yet to come. A step
  asks for one result, replies to one, or rearranges them (`Asks`, `Replies`,
  `Rearranges`); these three kinds preserve the invariant, one lemma per
  action says of which kind it is.
* `AnswersAreOwn`, `ResultSpinnersRun`, `WorksheetSpinnersRun`,
  `ForeignResultsAfterErrors` follow, and `ImplementsBoard`: each kind of step is a
  step of `AnswerBoard`, or none, under the refinement mapping.

`ObjectPanelProofs`, about `ObjectHistory`, for any cap, any number of loads, all
tables:

* `HistoryInvariant`: the panel on the screen *and the one in the stored
  session* are usable: position in the history or in front of it, neighbours
  with different names. The second half is the strengthening: a restored
  session becomes the panel.
* `HistoryTypes`, `PositionStaysInHistory`, `HistoryHasNoRepeats`, and the
  action property `BackIsNeverLost`.

and about `CalmSpec` of `ObjectPanel`, where loads follow one another:

* `ColumnsOfTheTable`, `StatementsAreOfOneTable`, and the action property
  `PanelStandsInHistory`. The invariant `CInv` adds what a load in flight was read
  from and still fits (`LoadFits`), that a session is saved at rest (`SavedRests`),
  and that the selection is of the columns shown (`SelectionFits`).

`WorksheetsProofs`, about `CalmSpec`, for any number of windows, connections
(also several windows of one connection), worksheets, saves and broadcasts:

* `Invariant`: every window's panel is `Good` (dense, made of ids given out, and
  with the last worksheet of *every* connection visible, or the folder), every session is
  `Stored` (good, nothing hidden, its selection among its worksheets, the folder, or
  blank) wherever it is, and every broadcast is `Sendable` (dense, worksheets of its
  sender's connection only). `SelectionExists` needs all three: a start takes
  its selection from the stored row, the row was some window's panel, and a
  merge must not hide or move what the receiver shows.
* There is one lemma per operation on panels (`SelectedGood`, `CreatedGood`,
  `ClosedGood`, `RemovedGood`, `PayloadStored`, `MergedGood`, `OpenedGood`) and
  one per action. `Earliest` and `AppendDense` are the facts about arrays behind
  `First` and `Merge`: a part that is not empty has a first element, and
  appending in order keeps an array dense.
* `TypeCorrect`, `ShowsOwn`, `StoredCoherent`, and the action property
  `ReceiveKeepsOwn` follow.

and about `SerialSpec` of `StoredSession`, for any number of windows, also several of
one connection:

* `SerialInvariant` follows a save on its way. One save, one round of broadcasts
  or one start is under way (`OneAtATime`); a session that was posted holds what
  is kept, and what its window still shows (`SentFits`); the window that is about
  to broadcast, and its broadcast, hold what it stored (`AnsweredFits`,
  `MessagesFit`); an open window shows what other connections stored, *or is about
  to hear of it* (`WindowsFit`). `NothingLost` needs the last: the next window to
  save posts the copies it has.
* `StoredSessionLosesNothing`. The serial hypothesis cannot be dropped: section 5
  names the overlaps that lose a text.

`ConnectionsProofs`, for any connections, lists, trees, number of loads and tries:

* `WindowInvariant`: every load in flight has its place in the list it was read
  from, if that is still the list (`JobHolds`); `BootHolds` and `PanelHolds` say
  what the start and the panel may still be waiting for: a panel that does not show
  the selected connection has a timer or a load that will (`PanelNotified`), and
  shows all that is loaded unless it is due to be drawn again (`PanelFresh`).
* `TypeCorrect`, `SpinnersServe`, `PanelsAgree`, and the action property
  `AnswersOnlyAdd`.

`DesktopProofs`, about the composition, for any number of servers, statements,
clients, bodies and seconds:

* `DesktopInvariant` has a part per component, and steps of one leave the others'
  variables alone, but for a server that ends and a page that comes or goes.
  *Shell*: servers are spawned in order and the remembered one is the last; after
  quitting it has been told. *Statement*: what is on the wire agrees with the
  submission (`FramesAndWires`), rows are of statements that ended (`RowsEnded`),
  unless statements were mixed the one that waits is the one shown, with the text
  it was sent with (`Unmixed`), and a row that says "running" is on its way only
  while the answer that says so is held back (`RunningHeld`) - without which a late
  upsert could undo the end of a statement (`EndsRecorded`). *FileStore*: the time
  stamp of a file is that of its body, and no client has seen a body younger than
  its reading (`ViewsInOrder`).
* `TypeCorrect`, `ServersForgotten`, `RowsKeepTheirText`, `SpinnersHaveStatements`,
  `HistoryTells`, and the action property `WritesLoseNothing`.

`EditorProofs`, about texts of any length and of any characters. Its scanners are
recursive functions in a `LET`, over the places of a text, so there is an induction
in each proof and no operator to instantiate: `SetInduction` is induction for a set
of numbers, from the library's theorem that `<` is well founded; `Recursion` and
`OneRecursion` give that a function whose every value is computed from the one before
exists and is the only one, so that the function `CHOOSE` defines is the scan.

* `TextsAreTiled`: at every place of the scan, what the tokens hold and what the open
  token holds is the text so far (`ReadText`), and, on one line, tokens stand where they are
  in the text. A turn may push no token, one or two; only at the end of a text
  two, and that the second has the right index needs that the first is then not
  pushed with its own (`AddToken`).
* `TextsAreCut`: the blocks and the open block are the text so far; and the scan of a
  statement alone goes the way the scan of the text went over it, since a statement
  starts outside all modes and what the scan looks at of the statement before it is
  its semicolon, which opens and closes nothing (`Follows`).
* `CursorTakesItsStatement`, that is `OwnStatement` with its halves `CursorTakesOwn`
  and `AppendedAreOwn`. Each block carries the places of its first and of its last
  character (`BlocksPlaced`), and places only grow (`PlacesInOrder`); an earlier block
  that held the cursor would have its last character on the cursor's line, which the
  hypothesis excludes (`NotHeld`, `CursorHeld`). The mark is the first character that
  ends no line (`MarkAfterEmptyLines`). For what is appended, the text must be shown to be cut
  right before it. That it is ended is known only of the text with another
  continuation, so two texts that begin alike are followed through their scans
  (`ScannedAlike`, `LastScannedAlike`), and by the count of their blocks the last
  semicolon is outside of all modes (`EndedIsCut`, `AppendedBehindCut`).
* `CursorFindsItsWord`: tokens that stand next to each other touch a place at most in
  twos, so the last token at the cursor decides, and what the loop does after
  it keeps the word it found.
* `NameLeadsToItsTable`: two scanners read a name, so the proof is about steps that lead
  from a state to a state over the characters of a text (`Leads`), and such texts in a
  row (`LeadOn`, `LeadAcross`). For the scanner of the line, each part that is written -
  in quotes, or plain where the dialect has none - leads from outside of all modes to
  outside of them, and ends no token on its way (`PartWritten`, `NameWritten`); between
  two blanks it is therefore one token, and a word (`WordScanned`, `LineFramed`), the only
  one at the places tried (`OnlyWordAt`). For the parser of names, a part becomes one word, whether its
  quote or the dot behind it closes it (`PartRead`, `DotFollows`), so the words are the
  parts of the table (`NameRead`), for every dialect (`NameReadBack`).
* `ScannersCutAlike`: the modes of the two scans agree at every place, but for a delay
  of one character at the end of a comment and of a jinja block (`Agree`). A step
  keeps this unless the character of the delay is one that opens a mode
  (`ModesAgree`, `NowhereOpened`), which is what the exception in the property names. A
  token is all semicolons that cut, or has none (`ReadUpTo`, with `Alike`), and
  blocks end at the places that cut (`Pieced`), so the places of the two are the same.

`SearchProofs`, about `SearchFindsCell`, for texts of any length too. Its five parts are
lemmas of their own:

* `AllWordsKeep`: the quotes of the text, counted modulo two (`Marks`), are those of
  the flag of the loop (`Agreed`), and a word carries the count it began with
  (`WordHeld`); so a blank in a word is behind an odd number of its quotes.
* `AllRows` and `AllExplored`: a text between quotes is one word, which unquoted is the text
  again; the explorer's rows for each word contain those for all of them, since a word,
  parsed again, is itself (`OneWord`): it is followed through both scans.
* The filter of the result table splits at single blanks, and what it splits off is
  a part of the cell, trimmed or not, in lower case or not (`SplitPieces`, `TrimInfix`,
  `InfixInLower`), so a cell's own text finds it.
* `AllTablesFound`: a table's name is a part of its name with the schema, and two tables of
  one full name are one if no part has a dot (`OneFullName`).
* `AllTakenOut`: the reader of the copied data is at the end of a cell, in quotes or not
  (`InCell`); a copied cell leads it from an empty cell to that cell (`CopiedRead`), a
  tab to the next one, the end of a line to the next row (`NextCell`, `NextLine`), so
  the lines lead to the rows (`ThreeRead`).

The assumptions are those named in the modules, and no others: bounds are natural
numbers (`QueryPanel`, `Worksheets`, `Connections`, `ShellAssumption`,
`QueryAssumption`, `FileAssumption`), stored sessions are what `QueryPanelState` makes
of stored data (`SessionsAssumption`), the cap is at least one, worksheets and
connections of windows and worksheets are typed, worksheets are finitely many,
special values are no elements of the sets (`NoneAssumption`,
`UndefinedAssumption`, `NothingAssumption`), and the lists a server may answer with
are sequences of names (`ServerAssumption`). The conditions in `SteadySpec`, both
`CalmSpec`s and `SerialSpec` are conditions on the users, stated as specifications:
section 2 says what they leave out, section 5 what goes wrong without them.

One caution on the prover. The SMT encoding of tlapm 1.4.5 says of every value,
and not only of sequences, that its `Len` is n just when its domain is `1 .. n`. A
function on `0 .. n`, whose `Len` TLA+ leaves unspecified, can then be led to a
contradiction where it meets `Len` in one obligation, and the scans are such
functions. All proof modules were therefore also checked with that equivalence
weakened to what is true of every value - a domain `1 .. n` has length n - and no
leaf needs more.

Only model-checked: `NodesLeadBack` of `Editor`, which composes many functions over
data, among them `ToString`, of which the provers know nothing; and liveness,
`SpinnersStop`, `SavesReachWindows` and `LoadsEnd`, which TLAPS does not reach. The
properties of the runs that must fail are refuted, not proved.

## 5. What was found

Three disagreements between the code and what its own comments say, each with
a run that must fail:

1. A result closed in front of a running one makes the answer miss: its
   spinner goes on for ever, or another result gets the rows
   (`query_panel_spinner`; `dbnet.ts` 367, 474).
2. A click on the folder in the tree of the Work panel, or on a worksheet deleted
   since, selects an id that no worksheet has, `save` stores it, and the window starts
   on it from then on (`worksheets_init`; `WorkPanel.tsx` 208).
3. Closing the selected worksheet selects it again when it is the first one
   (`worksheets_close`; `TabNames.tsx` 242).

The weaker promises of the other runs, and the exceptions in their properties,
show where else the code relies on luck. But for the comma of the explorer's search,
no line of the repository says
otherwise, so these are observations and no findings.

*Worksheets.* `SerialSpec` is needed for `NothingLost` because overlapping saves,
a failed save followed by a reload, or an edit while a save is under way each let
an older text replace a newer one. A worksheet its own window closed, and stored
without, can come back with a copy that another window stores, and go again with
a third's. Deleting a worksheet leaves its results in the array, and nothing
bounds them.

*Names of worksheets.* The tab bar finds a worksheet by its name, but takes `add`,
`del` and the blank name for its buttons. A new name is made free among those of
the connection and then cut at its last dot, and the bar's own check passes over
hidden worksheets; so two may end up with one name. The name of a worksheet made for
another connection, from a table's menu, is made free among the wrong ones, and the look-up
of an existing worksheet stops at the first one of that name, of whatever connection: when
a third connection has it, the other connection gets a second worksheet of that name.

*Object panel.* A loaded session with a table of the same name in another schema
leaves the panel's copy on the old one (`CalmSpec` excludes it). A distribution
with nothing suitable selected makes an empty text, and an empty text submits the
whole text of the tab (`TabToolbar.tsx` 49). A comparison closes itself when
nothing is selected.

*Schema tree.* Names with dots, or that differ only in case, lead elsewhere. With
several keys, of which the first is no table, "Get COUNT(*)" sends nothing. The
menu on a database acts on its hidden schemas too. Schemas are dropped only when
no table is selected. In dialects without a database part, suggestions of two
databases share a key. For a column with capitals the explorer asks for the statistics
of no column. One thing here is against the repository's own words: "comma is OR, space is
AND" and the placeholder of the box (`MetaExplorer.tsx` 118 and 304) promise a search with
alternatives, but the list of them is never used, and a comma is a character of its word.
`ExplorerFinds` says nothing of what such a search must find; no run is about it, because
nothing renders the explorer at this commit.

*Texts.* On a line of two statements the first is taken. A token's index is stale
when two are pushed in one turn, at the end of the text. `*/*` closes a comment at
once for the parser; jinja blocks and comments end one character late for it. A
quoted name with a comma or a parenthesis is no word.

*Connections.* Leaving the schema panel while it loads leaves the window's spinner
on until the next load; so does a session saved while one was on, if the start
finds no connections. An answer due to a list that was replaced may put databases
at another connection, or drop schemas. After a reload whose loads fail the panel
keeps the old tree. `getSchemata` stores only into databases that are known, for
`new Database` of an object of schemas throws. Overlapping loads may clear the
spinner early.

*Statements.* "Load session" replaces the result without a look-up in the cache,
so its rows vanish until the table is drawn anew; and the answer to a statement
that waited is written to what the restored arrays hold at its indices, older or not.
The first answer of two that wait for one result stops the spinner of both. After an
error, a worksheet whose result was cleaned up shows `results[0]`, another's
(`ForeignOnlyAfterError` has the exception). `fetchRows` with nothing to
submit starts a spinner nobody stops, and at the highest limit stops one of a
running statement. A submission, an edit or a look-up while a statement runs
writes to the object it posts from, or covers it (`ghost.mixed`). A statement
whose window reloads is never recorded as ended.

*Files and processes.* A write does not tell its client the new time stamp. A
second server on the port ends at once, and the shell then remembers the dead one;
the first ends when it logs to a closed pipe. The page is loaded once, at once,
so a server that starts slowly leaves a blank window.

## 6. Not modelled, and why

* Drawing, formatting, notifications and logging; the column filters and layouts
  of the panels, and the timers that tell one click on a table from two.
* Jobs and mock sessions, `ProjectPanel`, `Sessions`, the template and preview
  panels: nothing renders them. Nothing renders `MetaExplorer` at this commit
  either; what it computes is in `SchemaTree`, its sample of a column is not.
  `processSchemataData` returns at its first line. Counting over time is commented out.
* The history panel: it asks for rows and shows the answer that came last.
* Completion, formatting and colouring: monaco and sql-formatter;
  `sqlLanguage.ts` is a list of words.
* The command line, which hands its arguments to external libraries; exit codes;
  the environment files; `List`, which changes nothing.
* dbREST, sling, the database, Hookstate, IndexedDB and the file system are not in
  the repository: they appear as answers that come, fail, or come late. A put into
  IndexedDB is one step.
* Names of worksheets are no part of `Worksheets`: they change no id and no order,
  and `WorksheetNames` has them. Results in broadcasts: `Worksheets` would double its instance and
  its proofs with results; that a broadcast result with an unknown id overwrites
  `results[0]` (`state.ts` 63) is read off the code, not checked.
* `RemoveOld` and `CleanupTasks` of the store: single statements without a caller,
  or with a timer's vacuum left.

## 7. Plan

The state machines are modelled, checked and proved. What is left:

1. `NodesLeadBack` for names of any length: `NameLeadsToItsTable` has the names of tables;
   the numbers in the names of worksheets need a model of `ToString`.
2. `DesktopProofs` proves the parts of three components in one module; a lemma
   per component about its own specification would serve a reader of that alone.

Liveness stays with TLC.
