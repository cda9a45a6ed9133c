----------------------------- MODULE QueryPanel ------------------------------
(***************************************************************************)
(* The worksheet panel of one dbNet browser window: the tabs (worksheets), *)
(* the results below each tab, and the statements that are running.        *)
(*                                                                         *)
(* submitQuery (state/dbnet.ts) looks its tab and its result up once,      *)
(* keeps the two State handles across every await, and writes the answer   *)
(* through them.  Handles are indices (see HsArray), and while a statement *)
(* runs the user and the clean-up of old results remove elements.          *)
(*                                                                         *)
(* Statement text, rows, names and the editor are abstracted away.  Tab 0  *)
(* is the Q1 of the first visit: it has no connection, so no list shows    *)
(* it; the others are worksheets of the window's connection.  Hiding one,  *)
(* and what other windows broadcast, is left to module Worksheets.         *)
(***************************************************************************)
EXTENDS HsArray

CONSTANTS
  MaxTab, MaxResult, MaxQuery,   \* ids created in a behaviour (the bounds of a model)
  numResults,                    \* finished results AddResultAndCleanup keeps per tab: 3
  Sessions                       \* panels a stored session may hold: see SessionsAssumption

ASSUME BoundsAssumption     == MaxTab \in Nat \ {0} /\ MaxResult \in Nat \ {0} /\ MaxQuery \in Nat
ASSUME NumResultsAssumption == numResults \in Nat

\* new_ts_id: ids are time stamps, so each is new and larger than those before.
Tab    == 1..MaxTab
Result == 1..MaxResult
Query  == 1..MaxQuery
undefined == 0
stray     == 0   \* an id no worksheet has: a folder, a worksheet that is gone

VARIABLES
  tabAt,          \* index of a tab id in queryPanel.tabs
  tab,            \* tab id -> [selectedResult, loading]
  selectedTabId,
  resultAt,       \* index of a result id in queryPanel.results
  result,         \* result id -> [parent, query, copy, loading, pinned]
  query,          \* query id -> its submission: status and captured handles
  pulls,          \* cached rows being read: [of, resultIx, query]
  lastTab, lastResult   \* latest ids given out

vars == <<tabAt, tab, selectedTabId, resultAt, result, query, pulls, lastTab, lastResult>>

-----------------------------------------------------------------------------
Tabs    == Live(tabAt)
Results == Live(resultAt)

\* Data of ids that are not in the arrays (any more), or were never submitted.
\* A submission keeps two handles, tabIx and resultIx; of is the result the
\* statement was submitted for and from is its tab, as long as the panel is the
\* one it was submitted in.  A result that shows no statement of this window has
\* query undefined: its Query is blank, or a copy a session gave it.  A result's
\* spinner is "on" when submitQuery started it, "idle" when anything else did.
Loading  == {"off", "on", "idle"}
NoTab    == [selectedResult |-> undefined, loading |-> FALSE]
NoResult == [parent |-> undefined, query |-> undefined, copy |-> "blank",
             loading |-> "off", pinned |-> FALSE]
Unused   == [status |-> "unused", tabIx |-> 0, resultIx |-> 0,
             of |-> undefined, from |-> undefined]

NewTab(r)    == [NoTab EXCEPT !.selectedResult = r]
NewResult(t) == [NoResult EXCEPT !.parent = t]   \* its blank Query has no id of interest
Running      == {q \in Query : query[q].status = "running"}

HasError(r)   == IF result[r].query = undefined THEN result[r].copy = "failed"
                                               ELSE query[result[r].query].status = "failed"
ResultsOf(t)  == {r \in Results : result[r].parent = t}
Own           == {t \in Tabs : tabAt[t] > 0}   \* what the lists of worksheets show

ShownTab      == Lookup(tabAt, selectedTabId)
ShownResult   == Lookup(resultAt, tab[ShownTab].selectedResult)
ParentTab(r)  == Lookup(tabAt, result[r].parent)

TabData    == [selectedResult : Result \cup {undefined}, loading : BOOLEAN]
ResultData == [parent : Tab \cup {undefined}, query : Query \cup {undefined},
               copy : {"blank", "good", "failed"}, loading : Loading, pinned : BOOLEAN]

TypeOK ==
  /\ tabAt    \in [Tab -> Nat \cup {Absent}]
  /\ tab      \in [Tab -> TabData]
  /\ selectedTabId \in Tab \cup {stray}
  /\ resultAt \in [Result -> Nat \cup {Absent}]
  /\ result   \in [Result -> ResultData]
  /\ query    \in [Query -> [status : {"unused", "running", "answered", "emptied", "failed", "over"},
                             tabIx : Nat, resultIx : Nat,
                             of : Result \cup {undefined}, from : Tab \cup {undefined}]]
  /\ pulls \subseteq [of : Result, resultIx : Nat, query : Query \cup {undefined}]
  /\ lastTab \in Tab /\ lastResult \in Result

\* What QueryPanelState makes of a stored session: arrays with a Q1 in front,
\* results of its worksheets only, and Query objects that are copies.
ASSUME SessionsAssumption ==
  \A s \in Sessions :
    /\ s.tabAt    \in [Tab -> Nat \cup {Absent}]    /\ Dense(s.tabAt) /\ Live(s.tabAt) # {}
    /\ s.tab      \in [Tab -> TabData]
    /\ s.selectedTabId \in Live(s.tabAt) \cup {stray}
    /\ s.resultAt \in [Result -> Nat \cup {Absent}] /\ Dense(s.resultAt)
    /\ s.result   \in [Result -> ResultData]
    /\ \A r \in Result : s.result[r].query = undefined
    /\ \A r \in Live(s.resultAt) : s.result[r].parent \in Live(s.tabAt)

\* QueryPanelState of a first visit: one worksheet with one blank result.
Init ==
  /\ tabAt    = [x \in Tab |-> IF x = 1 THEN 0 ELSE Absent]
  /\ tab      = [x \in Tab |-> IF x = 1 THEN NewTab(1) ELSE NoTab]
  /\ selectedTabId = 1
  /\ resultAt = [x \in Result |-> IF x = 1 THEN 0 ELSE Absent]
  /\ result   = [x \in Result |-> IF x = 1 THEN NewResult(1) ELSE NoResult]
  /\ query    = [q \in Query |-> Unused]
  /\ pulls    = {}
  /\ lastTab = 1 /\ lastResult = 1

-----------------------------------------------------------------------------
(***************************************************************************)
(* Definitions named ...Bug are used by no other: each is the definition   *)
(* after it with a plausible programming error (a run with it must fail).  *)
(***************************************************************************)

\* AddResultAndCleanup, for a new result of tab t; res is the results' data at
\* that moment.  Errors of every tab go; then, oldest first, finished unpinned
\* results of t until numResults of them are left beside the new one.
Errors == {r \in Results : HasError(r)}

\* The clean-up forgets that results can be pinned.
FinishedBug(res, t) ==
  {r \in Results \ Errors : res[r].loading = "off" /\ res[r].parent = t}

Finished(res, t) ==
  {r \in Results \ Errors : res[r].loading = "off" /\ ~res[r].pinned /\ res[r].parent = t}

Evicted(res, t) ==
  {r \in Finished(res, t) :
     Cardinality({s \in Finished(res, t) : resultAt[s] > resultAt[r]}) >= numResults}

AddResult(res, t, r, new) ==
  LET gone == Errors \cup Evicted(res, t)
  IN  /\ r = lastResult + 1
      /\ lastResult' = r
      /\ resultAt' = Push(Drop(resultAt, gone), r)
      /\ result' = [x \in Result |-> IF x = r THEN new
                                    ELSE IF x \in gone THEN NoResult ELSE res[x]]

\* selectTab(t): t is the id of what was clicked, a worksheet or not.
SelectTab(t) ==
  /\ t \in (Own \cup {stray}) \ {selectedTabId}
  /\ selectedTabId' = t
  /\ UNCHANGED <<tabAt, tab, resultAt, result, query, pulls, lastTab, lastResult>>

\* A click on a result's header in SubTabs.
SelectResult(r) ==
  /\ r \in ResultsOf(ShownTab)
  /\ tab' = [tab EXCEPT ![ShownTab].selectedResult = r]
  /\ UNCHANGED <<tabAt, selectedTabId, resultAt, result, query, pulls, lastTab, lastResult>>

\* Pin / Unpin: the menu entry, or a double click on the header.
TogglePin(r) ==
  /\ r \in ResultsOf(ShownTab)
  /\ result' = [result EXCEPT ![r].pinned = ~@]
  /\ tab' = [tab EXCEPT ![ShownTab].selectedResult = r]
  /\ UNCHANGED <<tabAt, selectedTabId, resultAt, query, pulls, lastTab, lastResult>>

\* fetchRows of the result shown, when it submits nothing: the limit is reached
\* or the rows are there already, or the statement to submit is blank and the
\* spinner just started stays.  When it submits, it is a Refresh.
FetchRows(r) ==
  /\ r = ShownResult
  /\ \E l \in {"off", IF result[r].loading = "on" THEN "on" ELSE "idle"} :
       result' = [result EXCEPT ![r].loading = l]
  /\ UNCHANGED <<tabAt, tab, selectedTabId, resultAt, query, pulls, lastTab, lastResult>>

-----------------------------------------------------------------------------
Fresh(q) == \A p \in Query : p >= q <=> query[p].status = "unused"

\* The result is looked up before it is added.
PostBug(q, t, r, old) ==
  query' = [p \in Query |->
              IF p = q THEN [status |-> "running", tabIx |-> tabAt[t],
                             resultIx |-> resultAt[r], of |-> r, from |-> t]
              ELSE query[p]]

\* submitQuery up to its first await: the new statement q keeps the indices of
\* tab t and of result r.  The Query r held before (undefined: none) loses its
\* rows and its err, on the object, whoever else refers to it.
Post(q, t, r, old) ==
  query' = [p \in Query |->
              IF p = q THEN [status |-> "running", tabIx |-> tabAt[t],
                             resultIx |-> resultAt'[r], of |-> r, from |-> t]
              ELSE IF p = old /\ query[p].status = "failed"
                THEN [query[p] EXCEPT !.status = "over"]
              ELSE IF p = old /\ query[p].status = "answered"
                THEN [query[p] EXCEPT !.status = "emptied"]
              ELSE query[p]]

\* Execute in worksheet t, the one shown or the parent of the result shown:
\* createTabResult makes the result r, then the statement is posted.
Execute(q, r, t) ==
  /\ Fresh(q)
  /\ t \in {ShownTab, ParentTab(ShownResult)}
  /\ AddResult(result, t, r, [NewResult(t) EXCEPT !.query = q, !.loading = "on"])
  /\ tab' = [tab EXCEPT ![t] = [selectedResult |-> r, loading |-> TRUE]]
  /\ Post(q, t, r, undefined)
  /\ UNCHANGED <<tabAt, selectedTabId, pulls, lastTab>>

\* The result keeps the Query it had.
RefreshBug(q) ==
  LET r == ShownResult
      t == ParentTab(r)
  IN  /\ Fresh(q)
      /\ result' = [result EXCEPT ![r].loading = "on"]
      /\ tab' = [tab EXCEPT ![t].loading = TRUE]
      /\ UNCHANGED <<tabAt, selectedTabId, resultAt, pulls, lastTab, lastResult>>
      /\ Post(q, t, r, result[r].query)

\* refreshResult, or Execute in the SQL overlay, of the result shown.
Refresh(q) ==
  LET r == ShownResult
      t == ParentTab(r)
  IN  /\ Fresh(q)
      /\ result' = [result EXCEPT ![r].query = q, ![r].parent = t, ![r].loading = "on"]
      /\ tab' = [tab EXCEPT ![t].loading = TRUE]
      /\ UNCHANGED <<tabAt, selectedTabId, resultAt, pulls, lastTab, lastResult>>
      /\ Post(q, t, r, result[r].query)

\* Get Tables / Get Columns of the schema panel: a result filled on the spot.
\* getCurrentParentTabState finds no worksheet for a stray selection.
ShowObjects(r) ==
  /\ selectedTabId \in Tabs
  /\ AddResult(result, selectedTabId, r, NewResult(selectedTabId))
  /\ tab' = [tab EXCEPT ![selectedTabId].selectedResult = r]
  /\ UNCHANGED <<tabAt, selectedTabId, query, pulls, lastTab>>

-----------------------------------------------------------------------------
\* The rest of submitQuery, after the last await.  Reading or writing through a
\* handle that is past the end of its array throws.  The handles end with the call.
Finish(q, status) ==
  query' = [query EXCEPT ![q] = [@ EXCEPT !.status = status, !.tabIx = 0, !.resultIx = 0]]

\* The answer is written to the result its worksheet shows now.
AnswerBug(q) ==
  /\ q \in Running
  /\ \E t \in Tabs, r \in Results :
       /\ tabAt[t] = query[q].tabIx
       /\ r = Lookup(resultAt, tab[t].selectedResult)
       /\ tab' = [tab EXCEPT ![t].loading = FALSE]
       /\ result' = [result EXCEPT ![r].query = q, ![r].parent = t, ![r].loading = "off"]
  /\ Finish(q, "answered")
  /\ UNCHANGED <<tabAt, selectedTabId, resultAt, pulls, lastTab, lastResult>>

\* The answer leaves the spinner of the result on.
AnswerSpinBug(q) ==
  /\ q \in Running
  /\ \E t \in Tabs, r \in Results :
       /\ tabAt[t] = query[q].tabIx
       /\ resultAt[r] = query[q].resultIx
       /\ tab' = [tab EXCEPT ![t] = [selectedResult |-> r, loading |-> FALSE]]
       /\ result' = [result EXCEPT ![r].query = q, ![r].parent = t]
  /\ Finish(q, "answered")
  /\ UNCHANGED <<tabAt, selectedTabId, resultAt, pulls, lastTab, lastResult>>

\* The rows arrive and are written through both handles: the tab found there
\* selects the result found there, and that result gets the Query and the tab.
Answer(q) ==
  /\ q \in Running
  /\ \E t \in Tabs, r \in Results :
       /\ tabAt[t] = query[q].tabIx
       /\ resultAt[r] = query[q].resultIx
       /\ tab' = [tab EXCEPT ![t] = [selectedResult |-> r, loading |-> FALSE]]
       /\ result' = [result EXCEPT ![r].query = q, ![r].parent = t, ![r].loading = "off"]
  /\ Finish(q, "answered")
  /\ UNCHANGED <<tabAt, selectedTabId, resultAt, pulls, lastTab, lastResult>>

\* The catch block resets one of the two spinners only.
FailBug(q) ==
  /\ q \in Running
  /\ \E t \in Tabs, r \in Results :
       /\ tabAt[t] = query[q].tabIx
       /\ resultAt[r] = query[q].resultIx
       /\ \/ UNCHANGED result /\ tab' = [tab EXCEPT ![t].loading = FALSE]
          \/ UNCHANGED tab /\ result' = [result EXCEPT ![r].loading = "off"]
  /\ Finish(q, "failed")
  /\ UNCHANGED <<tabAt, selectedTabId, resultAt, pulls, lastTab, lastResult>>

\* The request, or reading its answer, throws: the catch block.
Fail(q) ==
  /\ q \in Running
  /\ \E t \in Tabs, r \in Results :
       /\ tabAt[t] = query[q].tabIx
       /\ resultAt[r] = query[q].resultIx
       /\ tab' = [tab EXCEPT ![t].loading = FALSE]
       /\ result' = [result EXCEPT ![r].loading = "off"]
  /\ Finish(q, "failed")
  /\ UNCHANGED <<tabAt, selectedTabId, resultAt, pulls, lastTab, lastResult>>

\* Answered or failed with a handle past the end: the catch block throws too,
\* before query.err is set; the tab's loading is reset if its handle is good.
Break(q) ==
  /\ q \in Running
  /\ \/ /\ query[q].tabIx >= Cardinality(Tabs)
        /\ UNCHANGED tab
     \/ /\ query[q].resultIx >= Cardinality(Results)
        /\ \E t \in Tabs : /\ tabAt[t] = query[q].tabIx
                           /\ tab' = [tab EXCEPT ![t].loading = FALSE]
  /\ Finish(q, "over")
  /\ UNCHANGED <<tabAt, selectedTabId, resultAt, result, pulls, lastTab, lastResult>>

\* pullResult reads the rows of the result shown from the browser's cache; an
\* effect of TabTable calls it for a result whose rows are not there (whenever it
\* is shown: React's timing, and from_cache, are left out).
StartPull(r) ==
  /\ r = ShownResult
  /\ IF result[r].query = undefined THEN result[r].copy = "good"
     ELSE query[result[r].query].status \in {"running", "emptied"}
  /\ pulls' = pulls \cup {[of |-> r, resultIx |-> resultAt[r], query |-> result[r].query]}
  /\ UNCHANGED <<tabAt, tab, selectedTabId, resultAt, result, query, lastTab, lastResult>>

\* The statement is in the cache once it is answered.  What is found there is
\* written through the handle; nothing found, or no such index, changes nothing.
LandPull(p) ==
  /\ p \in pulls
  /\ pulls' = pulls \ {p}
  /\ \/ UNCHANGED result
     \/ /\ p.query # undefined => query[p.query].status \in {"answered", "emptied"}
        /\ \E r \in Results :
             /\ resultAt[r] = p.resultIx
             /\ result' = [result EXCEPT ![r].query = p.query, ![r].loading = "off",
                             ![r].copy = IF p.query = undefined THEN "good" ELSE @]
  /\ UNCHANGED <<tabAt, tab, selectedTabId, resultAt, query, lastTab, lastResult>>

-----------------------------------------------------------------------------
\* The neighbour is looked for among the results of all worksheets.
NeighbourBug(r, s) ==
  /\ s \in Results \ {r}
  /\ (resultAt[s] > resultAt[r]) = (resultAt[r] = 0)
  /\ resultAt[s] - resultAt[r] \in {-1, 1}

\* s is next to r among the results of its tab: the one before it, or the one
\* after it when r is the first.
Neighbour(r, s) ==
  LET siblings == ResultsOf(ShownTab)
      isFirst  == \A x \in siblings : resultAt[r] <= resultAt[x]
  IN  /\ s \in siblings \ {r}
      /\ (resultAt[s] > resultAt[r]) = isFirst
      /\ \A x \in siblings : ~ (resultAt[r] < resultAt[x] /\ resultAt[x] < resultAt[s])
                          /\ ~ (resultAt[s] < resultAt[x] /\ resultAt[x] < resultAt[r])

\* SubTabs' Close of a result that has siblings.
CloseResult(r, s) ==
  /\ r \in ResultsOf(ShownTab)
  /\ Neighbour(r, s)
  /\ tab' = [tab EXCEPT ![ShownTab].selectedResult = s]
  /\ result' = [result EXCEPT ![r] = NoResult]
  /\ resultAt' = Drop(resultAt, {r})
  /\ UNCHANGED <<tabAt, selectedTabId, query, pulls, lastTab, lastResult>>

\* Close of the only result of a worksheet: a new one, s, is added beside it.
CloseOnlyResult(r, s) ==
  /\ ResultsOf(ShownTab) = {r}
  /\ AddResult([result EXCEPT ![r].pinned = FALSE, ![r].loading = "off"],
               ShownTab, s, NewResult(ShownTab))
  /\ tab' = [tab EXCEPT ![ShownTab].selectedResult = s]
  /\ UNCHANGED <<tabAt, selectedTabId, query, pulls, lastTab>>

\* createTab under a new name.  createTabResult runs before the tab is in the
\* array, so it is the first tab whose selectedResult it sets.
AddTab(t, r) ==
  /\ t = lastTab + 1
  /\ lastTab' = t
  /\ AddResult(result, t, r, NewResult(t))
  /\ selectedTabId' = t
  /\ UNCHANGED <<query, pulls>>

CreateTab(t, r) ==
  /\ AddTab(t, r)
  /\ tabAt' = Push(tabAt, t)
  /\ tab' = [tab EXCEPT ![Lookup(tabAt, t)].selectedResult = r, ![t] = NewTab(r)]

\* The selection stays with the deleted worksheet.
DeleteTabBug(t) ==
  /\ t \in Own
  /\ Own # {t}
  /\ tabAt' = Drop(tabAt, {t})
  /\ tab' = [tab EXCEPT ![t] = NoTab]
  /\ UNCHANGED <<selectedTabId, resultAt, result, query, pulls, lastTab, lastResult>>

\* WorkPanel's Delete.  The results of the worksheet stay in the array.
DeleteTab(t) ==
  /\ t \in Own
  /\ IF t # selectedTabId THEN selectedTabId' = selectedTabId
     ELSE /\ selectedTabId' \in Own \ {t}
          /\ \A o \in Own \ {t} : tabAt[selectedTabId'] <= tabAt[o]
  /\ tabAt' = Drop(tabAt, {t})
  /\ tab' = [tab EXCEPT ![t] = NoTab]
  /\ UNCHANGED <<resultAt, result, query, pulls, lastTab, lastResult>>

\* Deleting the only worksheet creates another one, t, before the removal.
ReplaceTab(t, r) ==
  /\ Own = {selectedTabId}
  /\ AddTab(t, r)
  /\ tabAt' = Drop(Push(tabAt, t), {selectedTabId})
  /\ tab' = [tab EXCEPT ![Lookup(tabAt, t)].selectedResult = r,
                        ![selectedTabId] = NoTab, ![t] = NewTab(r)]

-----------------------------------------------------------------------------
(***************************************************************************)
(* The button Load session: tabs and results are made anew from the stored *)
(* session, whatever is under way; running statements keep their handles.  *)
(***************************************************************************)
Replaced == [q \in Query |-> [query[q] EXCEPT !.of = undefined, !.from = undefined]]

Latest(n, S) == n \in S /\ \A m \in S : m <= n

Load(s) ==
  /\ Live(s.resultAt) # {}
  /\ tabAt' = s.tabAt /\ tab' = s.tab /\ selectedTabId' = s.selectedTabId
  /\ resultAt' = s.resultAt /\ result' = s.result
  /\ query' = Replaced
  /\ Latest(lastTab', {lastTab} \cup Live(s.tabAt))
  /\ Latest(lastResult', {lastResult} \cup Live(s.resultAt))
  /\ UNCHANGED pulls

\* A session without results: every tab, in order, gets a new one.
LoadBare(s) ==
  LET place == [r \in Result |-> r - (lastResult + 1)]
      new   == {r \in Result : place[r] \in 0..(Cardinality(Live(s.tabAt)) - 1)}
  IN  /\ Live(s.resultAt) = {}
      /\ lastResult' = lastResult + Cardinality(Live(s.tabAt))
      /\ lastResult' \in Result
      /\ tabAt' = s.tabAt /\ selectedTabId' = s.selectedTabId
      /\ tab' = [t \in Tab |-> IF t \in Live(s.tabAt)
                  THEN [s.tab[t] EXCEPT !.selectedResult = lastResult + 1 + s.tabAt[t]]
                  ELSE s.tab[t]]
      /\ resultAt' = [r \in Result |-> IF r \in new THEN place[r] ELSE Absent]
      /\ result' = [r \in Result |-> IF r \in new
                     THEN NewResult(CHOOSE t \in Live(s.tabAt) : s.tabAt[t] = place[r])
                     ELSE NoResult]
      /\ query' = Replaced
      /\ Latest(lastTab', {lastTab} \cup Live(s.tabAt))
      /\ UNCHANGED pulls

-----------------------------------------------------------------------------
\* The user: any of these at any time, in particular between two awaits.
Add(r) ==
  \/ \E q \in Query, t \in Tab : Execute(q, r, t)
  \/ ShowObjects(r)
  \/ \E c \in Result : CloseOnlyResult(c, r)
  \/ \E t \in Tab : CreateTab(t, r) \/ ReplaceTab(t, r)

Settle(q) == Answer(q) \/ Fail(q) \/ Break(q)

SessionNext ==
  \/ \E q \in Query : Refresh(q) \/ Settle(q)
  \/ \E r \in Result : \/ Add(r) \/ SelectResult(r) \/ TogglePin(r)
                        \/ FetchRows(r) \/ StartPull(r)
  \/ \E r, s \in Result : CloseResult(r, s)
  \/ \E t \in Tab \cup {stray} : SelectTab(t) \/ DeleteTab(t)
  \/ \E p \in pulls : LandPull(p)

Next ==
  \/ SessionNext
  \/ \E s \in Sessions : Load(s) \/ LoadBare(s)

Spec == Init /\ [][Next]_vars

-----------------------------------------------------------------------------
(***************************************************************************)
(* What holds whatever the user does.                                      *)
(***************************************************************************)

\* Every position 0..n-1 of both arrays holds exactly one element, the panel
\* always has a result and a worksheet to fall back on (results[0], tabs[0]),
\* and a selection that is no worksheet is one the user clicked (or restored):
\* no deletion leaves it behind.
LookupsLand ==
  /\ Dense(tabAt) /\ Dense(resultAt)
  /\ Tabs # {} /\ Results # {}
  /\ selectedTabId \in Tabs \cup {stray}

\* A statement submitted in the panel as it is (no session was loaded since)
\* never holds an index in front of its own result or tab: removals only move
\* elements down, so a late answer can hit a younger element or miss, but it
\* never overwrites an older result or worksheet.
HandlesNeverBehind ==
  \A q \in Running :
    /\ query[q].of   \in Results => resultAt[query[q].of] <= query[q].resultIx
    /\ query[q].from \in Tabs    => tabAt[query[q].from] <= query[q].tabIx

\* What adding a result may cost: a result leaves the panel with it only if it
\* has an error, or if it is, before the step, a result of the same worksheet
\* that neither spins nor is pinned (or is the one being closed), older than
\* every one of those that stay; and never more than numResults of those stay.
CleanupIsOrderly ==
  [][\A r \in Result \ Results : resultAt'[r] # Absent /\ Add(r) =>
       LET busy(s) == /\ result[s].loading # "off" \/ result[s].pinned
                      /\ ~CloseOnlyResult(s, r)
           old  == {s \in ResultsOf(result'[r].parent) : ~HasError(s) /\ ~busy(s)}
           kept == {s \in old : resultAt'[s] # Absent}
       IN  /\ \A s \in Results : resultAt'[s] = Absent => HasError(s) \/ s \in old
           /\ \A s \in old \ kept, k \in kept : resultAt[s] < resultAt[k]
           /\ Cardinality(kept) <= numResults
           /\ old # kept => Cardinality(kept) = numResults
    ]_vars

-----------------------------------------------------------------------------
(***************************************************************************)
(* What holds in a session as long as every handle still points at what it *)
(* was taken for: nothing in front of a running result (an error, an       *)
(* evicted or closed result) and no worksheet in front of a busy one is    *)
(* removed, no session is loaded, and a result whose rows are being read   *)
(* from the cache is neither moved nor submitted again.                    *)
(***************************************************************************)
Exact(q) == /\ query[q].of   \in Results /\ resultAt[query[q].of] = query[q].resultIx
            /\ query[q].from \in Tabs    /\ tabAt[query[q].from]  = query[q].tabIx

PullExact(p) == /\ p.of \in Results /\ resultAt[p.of] = p.resultIx
                /\ result[p.of].query = p.query

Steady == (\A q \in Running : Exact(q)) /\ (\A p \in pulls : PullExact(p))

SteadySpec == Init /\ [][SessionNext /\ Steady']_vars

\* Every result shows a statement that was submitted for it, and so does the
\* worksheet: no answer lands in a foreign result.
OwnAnswers ==
  \A r \in Results : result[r].query # undefined =>
    /\ query[result[r].query].of = r
    /\ query[result[r].query].from = result[r].parent

\* A spinner submitQuery started stands for the statement the result shows, still
\* running.  (fetchRows may start one with nothing submitted: it is "idle".)
SpinnerRuns ==
  \A r \in Results : result[r].loading = "on" => result[r].query \in Running

\* The spinner of a worksheet stands for a running statement of its own.
TabSpinnerRuns ==
  \A t \in Tabs : tab[t].loading => \E q \in Running : query[q].from = t

\* A worksheet of the connection shows a result of its own, except after an
\* error: it falls back to results[0], whosever that is, only when the statement
\* of the result it had selected failed and the result was cleaned up.
ForeignOnlyAfterError ==
  \A t \in Own :
    LET r == tab[t].selectedResult
    IN  \/ r \in ResultsOf(t)
        \/ r \notin Results /\ \E q \in Query : query[q].of = r /\ query[q].status = "failed"

\* Seen as a board of results, the panel answers in the right place.
Board == INSTANCE AnswerBoard WITH
           none    <- undefined,
           open    <- Results,
           shown   <- [r \in Result |-> result[r].query],
           asked   <- [q \in Query |-> query[q].of],
           pending <- Running

BoardSafety == Board!Safety

\* The server and the database finish every statement sooner or later.
LiveSteadySpec == SteadySpec /\ \A q \in Query : WF_vars(Settle(q))

\* No spinner that submitQuery started spins for ever.
SpinnersStop ==
  LET Spins(r) == r \in Results /\ result[r].loading = "on"
  IN  \A r \in Result : Spins(r) ~> ~Spins(r)
==============================================================================
