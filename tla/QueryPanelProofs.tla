-------------------------- MODULE QueryPanelProofs --------------------------
(***************************************************************************)
(* Theorems about QueryPanel, for any number of tabs, results, statements  *)
(* and any numResults.                                                     *)
(***************************************************************************)
EXTENDS QueryPanel, HsArrayProofs

QueryRecord == [status : {"unused", "running", "answered", "emptied", "failed", "over"},
                tabIx : Nat, resultIx : Nat,
                of : Result \cup {undefined}, from : Tab \cup {undefined}]
PullRecord  == [of : Result, resultIx : Nat, query : Query \cup {undefined}]

\* Ids are given out in order: none in use, in an array or by a running
\* statement, is newer than the last one.
IdsOld ==
  /\ \A t \in Tabs    : t <= lastTab
  /\ \A r \in Results : r <= lastResult
  /\ \A q \in Running : query[q].of <= lastResult /\ query[q].from <= lastTab

IInv == TypeOK /\ LookupsLand /\ HandlesNeverBehind /\ IdsOld

-----------------------------------------------------------------------------
\* What every step of a session does to the arrays and to the handles: elements
\* stay where they are or move down, a new element has the next id, and a handle
\* is the one of before or exact.
ResultsMove ==
  /\ Dense(resultAt') /\ Results' # {}
  /\ lastResult <= lastResult'
  /\ \A r \in Results' : \/ r \in Results /\ resultAt'[r] <= resultAt[r]
                         \/ r = lastResult + 1 /\ r = lastResult'

TabsMove ==
  /\ Dense(tabAt') /\ Tabs' # {} /\ selectedTabId' \in Tabs' \cup {stray}
  /\ lastTab <= lastTab'
  /\ \A t \in Tabs' : \/ t \in Tabs /\ tabAt'[t] <= tabAt[t]
                      \/ t = lastTab + 1 /\ t = lastTab'

HandlesMove ==
  \A q \in Running' :
    \/ q \in Running /\ query'[q] = query[q]
    \/ /\ query'[q].of \in Results' /\ query'[q].resultIx = resultAt'[query'[q].of]
       /\ query'[q].from \in Tabs'  /\ query'[q].tabIx = tabAt'[query'[q].from]

Moves == ResultsMove /\ TabsMove /\ HandlesMove

\* Steps of these three kinds are all the invariant needs.
LEMMA MovesPreserve ==
  ASSUME IInv, TypeOK', Moves
  PROVE  IInv'
<1> USE DEF Moves
<1>1. LookupsLand'
  BY DEF LookupsLand, ResultsMove, TabsMove
<1>2. /\ Tabs \subseteq Tab /\ Tabs' \subseteq Tab
      /\ Results \subseteq Result /\ Results' \subseteq Result
      /\ Tab \subseteq Nat /\ Result \subseteq Nat
      /\ \A t \in Tabs : tabAt[t] \in Nat
      /\ \A t \in Tabs' : tabAt'[t] \in Nat
      /\ \A r \in Results : resultAt[r] \in Nat
      /\ \A r \in Results' : resultAt'[r] \in Nat
  BY BoundsAssumption DEF IInv, TypeOK, Tabs, Results, Live, Absent, Tab, Result
<1>3. lastTab \in Nat /\ lastTab' \in Nat /\ lastResult \in Nat /\ lastResult' \in Nat
  BY <1>2 DEF IInv, TypeOK
<1>4. \A q \in Query : query[q] \in QueryRecord /\ query'[q] \in QueryRecord
  BY DEF IInv, TypeOK, QueryRecord
<1>5. \A q \in Query : /\ query[q].of \in Nat /\ query[q].from \in Nat
                       /\ query[q].resultIx \in Nat /\ query[q].tabIx \in Nat
                       /\ query'[q].of \in Nat /\ query'[q].from \in Nat
                       /\ query'[q].resultIx \in Nat /\ query'[q].tabIx \in Nat
  <2>1. \A i \in Result \cup {undefined} : i \in Nat
    BY <1>2 DEF undefined
  <2>2. \A i \in Tab \cup {undefined} : i \in Nat
    BY <1>2 DEF undefined
  <2> QED BY <1>4, <2>1, <2>2 DEF QueryRecord
<1>6. Running \subseteq Query /\ Running' \subseteq Query
  BY DEF Running
<1>7. (\A t \in Tabs' : t <= lastTab') /\ (\A r \in Results' : r <= lastResult')
  BY <1>2, <1>3 DEF IInv, IdsOld, ResultsMove, TabsMove
<1>8. IdsOld'
  <2> SUFFICES ASSUME NEW q \in Running'
               PROVE  query'[q].of <= lastResult' /\ query'[q].from <= lastTab'
    BY <1>7 DEF IdsOld
  <2>1. CASE q \in Running /\ query'[q] = query[q]
    <3>1. query[q].of <= lastResult /\ query[q].from <= lastTab
      BY <2>1 DEF IInv, IdsOld
    <3>2. lastResult <= lastResult' /\ lastTab <= lastTab'
      BY DEF ResultsMove, TabsMove
    <3> QED BY <1>3, <1>5, <1>6, <2>1, <3>1, <3>2
  <2>2. CASE query'[q].of \in Results' /\ query'[q].from \in Tabs'
    BY <1>7, <2>2
  <2> QED BY <2>1, <2>2 DEF HandlesMove
<1>9. HandlesNeverBehind'
  <2> SUFFICES ASSUME NEW q \in Running'
               PROVE  /\ query'[q].of   \in Results' => resultAt'[query'[q].of] <= query'[q].resultIx
                      /\ query'[q].from \in Tabs'    => tabAt'[query'[q].from] <= query'[q].tabIx
    BY DEF HandlesNeverBehind
  <2>1. CASE q \in Running /\ query'[q] = query[q]
    <3>1. query[q].of <= lastResult /\ query[q].from <= lastTab
      BY <2>1 DEF IInv, IdsOld
    <3>2. /\ query[q].of   \in Results => resultAt[query[q].of] <= query[q].resultIx
          /\ query[q].from \in Tabs    => tabAt[query[q].from] <= query[q].tabIx
      BY <2>1 DEF IInv, HandlesNeverBehind
    <3>3. ASSUME query[q].of \in Results'
          PROVE  resultAt'[query[q].of] <= query[q].resultIx
      <4>1. query[q].of \in Results /\ resultAt'[query[q].of] <= resultAt[query[q].of]
        BY <1>3, <1>5, <1>6, <2>1, <3>1, <3>3 DEF ResultsMove
      <4> QED BY <1>2, <1>5, <1>6, <2>1, <3>2, <3>3, <4>1
    <3>4. ASSUME query[q].from \in Tabs'
          PROVE  tabAt'[query[q].from] <= query[q].tabIx
      <4>1. query[q].from \in Tabs /\ tabAt'[query[q].from] <= tabAt[query[q].from]
        BY <1>3, <1>5, <1>6, <2>1, <3>1, <3>4 DEF TabsMove
      <4> QED BY <1>2, <1>5, <1>6, <2>1, <3>2, <3>4, <4>1
    <3> QED BY <2>1, <3>3, <3>4
  <2>2. CASE /\ query'[q].of \in Results' /\ query'[q].resultIx = resultAt'[query'[q].of]
             /\ query'[q].from \in Tabs'  /\ query'[q].tabIx = tabAt'[query'[q].from]
    <3>1. resultAt'[query'[q].of] \in Nat /\ tabAt'[query'[q].from] \in Nat
      BY <1>2, <2>2
    <3> QED BY <2>2, <3>1
  <2> QED BY <2>1, <2>2 DEF HandlesMove
<1> QED
  BY <1>1, <1>8, <1>9 DEF IInv

-----------------------------------------------------------------------------
\* The typing facts of a state in the form the steps need.
LEMMA Types ==
  ASSUME TypeOK
  PROVE  /\ tabAt \in Arrays(Tab) /\ resultAt \in Arrays(Result)
         /\ Tabs \subseteq Tab /\ Results \subseteq Result
         /\ Tab \subseteq Nat /\ Result \subseteq Nat
         /\ tab \in [Tab -> TabData]
         /\ result \in [Result -> ResultData]
         /\ query \in [Query -> QueryRecord]
         /\ pulls \subseteq PullRecord
         /\ lastTab \in Nat /\ lastResult \in Nat
         /\ \A t \in Tabs : tabAt[t] \in Nat
         /\ \A r \in Results : resultAt[r] \in Nat
BY BoundsAssumption
   DEF TypeOK, Arrays, Tabs, Results, Live, Absent, Tab, Result, QueryRecord, PullRecord

\* TypeOK, put together again after a step.
LEMMA TypesNext ==
  ASSUME /\ tabAt' \in Arrays(Tab) /\ resultAt' \in Arrays(Result)
         /\ tab' \in [Tab -> TabData] /\ selectedTabId' \in Tab \cup {stray}
         /\ result' \in [Result -> ResultData]
         /\ query' \in [Query -> QueryRecord] /\ pulls' \subseteq PullRecord
         /\ lastTab' \in Tab /\ lastResult' \in Result
  PROVE  TypeOK'
BY DEF TypeOK, Arrays, QueryRecord, PullRecord

\* Arrays that a step leaves alone, and handles.
LEMMA Unmoved ==
  ASSUME IInv
  PROVE  /\ UNCHANGED <<resultAt, lastResult>> => ResultsMove
         /\ UNCHANGED <<tabAt, lastTab>> /\ selectedTabId' \in Tabs \cup {stray} => TabsMove
         /\ UNCHANGED query => HandlesMove
BY Types DEF IInv, LookupsLand, ResultsMove, TabsMove, HandlesMove, Results, Tabs, Running

\* The clean-up: old results go or move down, the new one comes last.
LEMMA AddResultMoves ==
  ASSUME IInv, NEW res, NEW t, NEW r \in Result, NEW new, AddResult(res, t, r, new),
         res \in [Result -> ResultData], new \in ResultData
  PROVE  /\ resultAt' \in Arrays(Result) /\ r \in Results'
         /\ lastResult' \in Result
         /\ result' \in [Result -> ResultData]
         /\ ResultsMove
<1> DEFINE gone == Errors \cup Evicted(res, t)
           at == Drop(resultAt, gone)
<1> USE DEF IInv
<1>1. gone \in SUBSET Results
  BY DEF Errors, Evicted, Finished
<1>2. resultAt \in Arrays(Result) /\ Dense(resultAt) /\ Results = Live(resultAt)
  BY Types DEF LookupsLand, Results
<1> HIDE DEF gone
<1>3. /\ at \in Arrays(Result) /\ Dense(at) /\ Live(at) = Results \ gone
      /\ \A x \in Results \ gone : at[x] <= resultAt[x]
  BY <1>1, <1>2, DropElements, DropDense
<1>4. /\ r = lastResult + 1 /\ lastResult' = r
      /\ resultAt' = Push(at, r)
      /\ result' = [x \in Result |-> IF x = r THEN new ELSE IF x \in gone THEN NoResult ELSE res[x]]
  BY DEF AddResult, gone
<1> HIDE DEF at
<1>5. r \notin Results /\ lastResult \in Nat
  <2>1. \A x \in Results : x <= lastResult
    BY DEF IdsOld
  <2> QED BY <1>4, <2>1, Types
<1>6. /\ resultAt' \in Arrays(Result) /\ Live(resultAt') = (Results \ gone) \cup {r}
      /\ \A x \in Results \ gone : resultAt'[x] = at[x]
      /\ Dense(resultAt')
  <2>1. r \notin Live(at)
    BY <1>3, <1>5
  <2>2. \A x \in Results \ gone : x \in Result \ {r}
    BY <1>5, Types
  <2> QED BY <1>3, <1>4, <2>1, <2>2, PushElements, PushDense
<1>7. Results' = (Results \ gone) \cup {r}
  BY <1>6 DEF Results
<1>8. ResultsMove
  BY <1>3, <1>4, <1>5, <1>6, <1>7 DEF ResultsMove
<1>9. NoResult \in ResultData
  BY DEF NoResult, ResultData, Loading
<1>10. result' \in [Result -> ResultData]
  BY <1>4, <1>9
<1> QED
  BY <1>4, <1>6, <1>7, <1>8, <1>10

\* Every lookup of the panel finds something.
LEMMA Lookups ==
  ASSUME IInv
  PROVE  /\ ShownTab \in Tabs /\ ShownResult \in Results
         /\ \A r : ParentTab(r) \in Tabs
         /\ selectedTabId \in Tabs \cup {stray}
<1>1. /\ resultAt \in Arrays(Result) /\ Dense(resultAt) /\ Live(resultAt) # {}
      /\ tabAt \in Arrays(Tab) /\ Dense(tabAt) /\ Live(tabAt) # {}
  BY Types DEF IInv, LookupsLand, Results, Tabs
<1>2. /\ Lookup(tabAt, selectedTabId) \in Live(tabAt)
      /\ Lookup(resultAt, tab[ShownTab].selectedResult) \in Live(resultAt)
  BY <1>1, LookupLive
<1>3. \A r : Lookup(tabAt, result[r].parent) \in Live(tabAt)
  BY <1>1, LookupLive
<1> QED
  BY <1>2, <1>3 DEF IInv, LookupsLand, ShownTab, ShownResult, ParentTab, Results, Tabs

\* There is a first worksheet, and the lookup of an unknown one finds it.
LEMMA FirstTaken ==
  ASSUME IInv
  PROVE  /\ \E t \in Tabs : tabAt[t] = 0
         /\ \A id : id \notin Tabs => Lookup(tabAt, id) \in Tabs /\ tabAt[Lookup(tabAt, id)] = 0
<1>1. tabAt \in Arrays(Tab) /\ Dense(tabAt) /\ Live(tabAt) # {}
  BY Types DEF IInv, LookupsLand, Tabs
<1>2. \A id : id \notin Tabs => Lookup(tabAt, id) \in Tabs /\ tabAt[Lookup(tabAt, id)] = 0
  BY <1>1, LookupLive DEF Tabs
<1>3. stray \notin Tabs
  BY Types DEF IInv, stray, Tab
<1> QED
  BY <1>2, <1>3

\* A statement is posted with the indices of a worksheet and of a result.
LEMMA PostMoves ==
  ASSUME IInv, NEW q \in Query, NEW t \in Tabs, NEW r \in Result, NEW old, Post(q, t, r, old),
         UNCHANGED tabAt, r \in Results', resultAt' \in Arrays(Result)
  PROVE  query' \in [Query -> QueryRecord] /\ HandlesMove
<1> USE DEF IInv
<1>1. t \in Tab /\ tabAt[t] \in Nat /\ t \in Tabs' /\ tabAt'[t] = tabAt[t]
  BY Types DEF Tabs
<1>2. resultAt'[r] \in Nat
  <2>1. r \in Live(resultAt')
    BY DEF Results
  <2> QED BY <2>1, LiveIndex
<1> DEFINE new == [status |-> "running", tabIx |-> tabAt[t],
                   resultIx |-> resultAt'[r], of |-> r, from |-> t]
<1>3. new \in QueryRecord
  BY <1>1, <1>2 DEF QueryRecord
<1>4. \A p \in Query : query[p] \in QueryRecord
  BY Types
<1>5. \A p \in Query, s \in {"over", "emptied"} :
        /\ [query[p] EXCEPT !.status = s] \in QueryRecord
        /\ [query[p] EXCEPT !.status = s].status = s
  BY <1>4 DEF QueryRecord
<1>6. query' = [p \in Query |->
                  IF p = q THEN new
                  ELSE IF p = old /\ query[p].status = "failed"
                    THEN [query[p] EXCEPT !.status = "over"]
                  ELSE IF p = old /\ query[p].status = "answered"
                    THEN [query[p] EXCEPT !.status = "emptied"]
                  ELSE query[p]]
  BY DEF Post
<1>7. new.of = r /\ new.from = t /\ new.resultIx = resultAt'[r] /\ new.tabIx = tabAt[t]
  OBVIOUS
<1> HIDE DEF new
<1>8. query' \in [Query -> QueryRecord]
  BY <1>3, <1>4, <1>5, <1>6
<1>9. ASSUME NEW p \in Running', p # q
      PROVE  p \in Running /\ query'[p] = query[p]
  <2>1. p \in Query /\ query'[p].status = "running"
    BY <1>9 DEF Running
  <2>2. \/ query'[p] = query[p]
        \/ \E s \in {"over", "emptied"} : query'[p] = [query[p] EXCEPT !.status = s]
    BY <1>6, <1>9, <2>1
  <2> QED BY <1>5, <2>1, <2>2 DEF Running
<1>10. query'[q] = new
  BY <1>6
<1> QED
  BY <1>1, <1>7, <1>8, <1>9, <1>10 DEF HandlesMove

\* A statement that ends gives its handles up.
LEMMA FinishMoves ==
  ASSUME IInv, NEW q \in Query, NEW status \in {"answered", "failed", "over"}, Finish(q, status)
  PROVE  query' \in [Query -> QueryRecord] /\ HandlesMove
<1> USE DEF IInv
<1> DEFINE new == [query[q] EXCEPT !.status = status, !.tabIx = 0, !.resultIx = 0]
<1>1. \A p \in Query : query[p] \in QueryRecord
  BY Types
<1>2. new \in QueryRecord /\ new.status = status
  BY <1>1 DEF QueryRecord
<1>3. query' = [query EXCEPT ![q] = new]
  BY DEF Finish
<1>4. DOMAIN query = Query
  BY Types
<1> HIDE DEF new
<1>5. query' \in [Query -> QueryRecord]
  BY <1>1, <1>2, <1>3, <1>4, Types
<1>6. \A p \in Query : query'[p] = IF p = q THEN new ELSE query[p]
  BY <1>3, <1>4
<1>7. \A p \in Running' : p \in Running /\ query'[p] = query[p]
  BY <1>2, <1>6 DEF Running
<1> QED
  BY <1>5, <1>7 DEF HandlesMove

-----------------------------------------------------------------------------
(***************************************************************************)
(* One lemma per action, or per group of like actions.                     *)
(***************************************************************************)

\* Selecting, pinning, fetching rows and reading the cache.
LEMMA ViewMoves ==
  ASSUME IInv, \/ \E t \in Tab \cup {stray} : SelectTab(t)
               \/ \E r \in Result : \/ SelectResult(r) \/ TogglePin(r)
                                     \/ FetchRows(r) \/ StartPull(r)
               \/ \E p \in pulls : LandPull(p)
  PROVE  TypeOK' /\ Moves
<1> USE Types, Lookups DEF IInv
<1>1. ASSUME NEW t \in Tab \cup {stray}, SelectTab(t)
      PROVE  TypeOK' /\ Moves
  <2>1. t \in Tabs \cup {stray}
    BY <1>1 DEF SelectTab, Own
  <2> QED BY <1>1, <2>1, TypesNext, Unmoved DEF SelectTab, Moves, TypeOK
<1>2. ASSUME NEW r \in Result, SelectResult(r)
      PROVE  TypeOK' /\ Moves
  <2>1. tab' \in [Tab -> TabData]
    BY <1>2 DEF SelectResult, TabData
  <2> QED BY <1>2, <2>1, TypesNext, Unmoved DEF SelectResult, Moves, TypeOK
<1>3. ASSUME NEW r \in Result, TogglePin(r)
      PROVE  TypeOK' /\ Moves
  <2>1. tab' \in [Tab -> TabData]
    BY <1>3 DEF TogglePin, TabData
  <2>2. result' \in [Result -> ResultData]
    <3>1. \A b \in BOOLEAN : [result EXCEPT ![r].pinned = b] \in [Result -> ResultData]
      BY DEF ResultData
    <3>2. (~ result[r].pinned) \in BOOLEAN
      OBVIOUS
    <3>3. result' = [result EXCEPT ![r].pinned = ~ result[r].pinned]
      BY <1>3 DEF TogglePin
    <3> QED BY ONLY <3>1, <3>2, <3>3, Zenon
  <2> QED BY <1>3, <2>1, <2>2, TypesNext, Unmoved DEF TogglePin, Moves, TypeOK
<1>4. ASSUME NEW r \in Result, FetchRows(r)
      PROVE  TypeOK' /\ Moves
  <2>1. PICK l \in Loading : result' = [result EXCEPT ![r].loading = l]
    BY <1>4 DEF FetchRows, Loading
  <2>2. result' \in [Result -> ResultData]
    BY <2>1 DEF ResultData
  <2> QED BY <1>4, <2>2, TypesNext, Unmoved DEF FetchRows, Moves, TypeOK
<1>5. ASSUME NEW r \in Result, StartPull(r)
      PROVE  TypeOK' /\ Moves
  <2>1. r \in Results /\ resultAt[r] \in Nat /\ result[r].query \in Query \cup {undefined}
    BY <1>5 DEF StartPull, ResultData
  <2>2. pulls' \subseteq PullRecord
    BY <1>5, <2>1 DEF StartPull, PullRecord
  <2> QED BY <1>5, <2>2, TypesNext, Unmoved DEF StartPull, Moves, TypeOK
<1>6. ASSUME NEW p \in pulls, LandPull(p)
      PROVE  TypeOK' /\ Moves
  <2>1. p.query \in Query \cup {undefined}
    BY DEF PullRecord
  <2>2. result' \in [Result -> ResultData]
    <3>1. CASE UNCHANGED result
      BY <3>1
    <3>2. ASSUME NEW r \in Results,
                 result' = [result EXCEPT ![r].query = p.query, ![r].loading = "off",
                              ![r].copy = IF p.query = undefined THEN "good" ELSE @]
          PROVE  result' \in [Result -> ResultData]
      BY <2>1, <3>2 DEF ResultData, Loading
    <3> QED BY <1>6, <3>1, <3>2 DEF LandPull
  <2>3. pulls' \subseteq PullRecord
    BY <1>6 DEF LandPull
  <2> QED BY <1>6, <2>2, <2>3, TypesNext, Unmoved DEF LandPull, Moves, TypeOK
<1> QED
  BY <1>1, <1>2, <1>3, <1>4, <1>5, <1>6

\* Records given to new worksheets and results.
LEMMA NewRecords ==
  /\ \A t \in Tab : NewResult(t) \in ResultData
  /\ \A t \in Tab, q \in Query :
       [NewResult(t) EXCEPT !.query = q, !.loading = "on"] \in ResultData
  /\ \A r \in Result : NewTab(r) \in TabData
  /\ NoTab \in TabData /\ NoResult \in ResultData
BY DEF NewResult, NoResult, NewTab, NoTab, ResultData, TabData, Loading

\* What is written to a result leaves it one.
LEMMA Edited ==
  ASSUME NEW f \in [Result -> ResultData], NEW r \in Result, NEW l \in Loading
  PROVE  /\ [f EXCEPT ![r].loading = l] \in [Result -> ResultData]
         /\ \A q \in Query, t \in Tab :
              [f EXCEPT ![r].query = q, ![r].parent = t, ![r].loading = l] \in [Result -> ResultData]
<1>1. f[r] \in ResultData
  OBVIOUS
<1>2. [f[r] EXCEPT !.loading = l] \in ResultData
  BY <1>1 DEF ResultData
<1>3. ASSUME NEW q \in Query, NEW t \in Tab
      PROVE  [f EXCEPT ![r].query = q, ![r].parent = t, ![r].loading = l] \in [Result -> ResultData]
  <2>1. [f[r] EXCEPT !.query = q, !.parent = t, !.loading = l] \in ResultData
    BY <1>1 DEF ResultData
  <2>2. [f EXCEPT ![r].query = q, ![r].parent = t, ![r].loading = l]
          = [f EXCEPT ![r] = [f[r] EXCEPT !.query = q, !.parent = t, !.loading = l]]
    OBVIOUS
  <2> QED BY <2>1, <2>2
<1> QED
  BY <1>2, <1>3

\* Execute.
LEMMA ExecuteMoves ==
  ASSUME IInv, NEW q \in Query, NEW r \in Result, NEW t \in Tab, Execute(q, r, t)
  PROVE  TypeOK' /\ Moves
<1> USE DEF IInv
<1>1. t \in Tabs
  BY Lookups DEF Execute
<1>2. /\ resultAt' \in Arrays(Result) /\ r \in Results' /\ lastResult' \in Result
      /\ result' \in [Result -> ResultData] /\ ResultsMove
  BY AddResultMoves, NewRecords, Types DEF Execute
<1>3. query' \in [Query -> QueryRecord] /\ HandlesMove
  BY <1>1, <1>2, PostMoves DEF Execute
<1>4. tab' \in [Tab -> TabData]
  BY Types DEF Execute, TabData
<1>5. TabsMove
  BY Unmoved, Lookups DEF Execute
<1>6. /\ tabAt' \in Arrays(Tab) /\ selectedTabId' \in Tab \cup {stray} /\ lastTab' \in Tab
      /\ pulls' \subseteq PullRecord
  BY Types DEF Execute, TypeOK
<1> QED
  BY <1>2, <1>3, <1>4, <1>5, <1>6, TypesNext DEF Moves

\* refreshResult and the overlays.
LEMMA RefreshMoves ==
  ASSUME IInv, NEW q \in Query, Refresh(q)
  PROVE  TypeOK' /\ Moves
<1> USE DEF IInv
<1> DEFINE r == ShownResult
           t == ParentTab(r)
<1>1. r \in Results /\ r \in Result /\ t \in Tabs /\ t \in Tab
  BY Lookups, Types
<1>2. /\ result' = [result EXCEPT ![r].query = q, ![r].parent = t, ![r].loading = "on"]
      /\ tab' = [tab EXCEPT ![t].loading = TRUE]
      /\ UNCHANGED <<tabAt, selectedTabId, resultAt, pulls, lastTab, lastResult>>
      /\ Post(q, t, r, result[r].query)
  BY DEF Refresh
<1> HIDE DEF r, t
<1>3. result' \in [Result -> ResultData] /\ tab' \in [Tab -> TabData]
  <2>1. result \in [Result -> ResultData] /\ "on" \in Loading
    BY Types DEF Loading
  <2>2. [result EXCEPT ![r].query = q, ![r].parent = t, ![r].loading = "on"] \in [Result -> ResultData]
    BY <1>1, <2>1, Edited
  <2> QED BY <1>1, <1>2, <2>2, Types DEF TabData
<1>4. resultAt' \in Arrays(Result) /\ r \in Results'
  BY <1>1, <1>2, Types DEF Results
<1>5. query' \in [Query -> QueryRecord] /\ HandlesMove
  BY <1>1, <1>2, <1>4, PostMoves
<1>6. ResultsMove /\ TabsMove
  BY <1>2, Unmoved, Lookups
<1>7. /\ tabAt' \in Arrays(Tab) /\ selectedTabId' \in Tab \cup {stray}
      /\ lastTab' \in Tab /\ lastResult' \in Result /\ pulls' \subseteq PullRecord
  BY <1>2, Types DEF TypeOK
<1> QED
  BY <1>3, <1>4, <1>5, <1>6, <1>7, TypesNext DEF Moves

\* A statement ends: answered, failed, or with a handle past the end.
LEMMA SettleMoves ==
  ASSUME IInv, NEW q \in Query, Settle(q)
  PROVE  TypeOK' /\ Moves
<1> USE DEF IInv
<1>1. \E status \in {"answered", "failed", "over"} : Finish(q, status)
  BY DEF Settle, Answer, Fail, Break
<1>2. query' \in [Query -> QueryRecord] /\ HandlesMove
  BY <1>1, FinishMoves
<1>3. UNCHANGED <<tabAt, selectedTabId, resultAt, pulls, lastTab, lastResult>>
  BY DEF Settle, Answer, Fail, Break
<1>4. tab' \in [Tab -> TabData] /\ result' \in [Result -> ResultData]
  <2>1. CASE Answer(q)
    <3>1. PICK t \in Tabs, r \in Results :
            /\ tab' = [tab EXCEPT ![t] = [selectedResult |-> r, loading |-> FALSE]]
            /\ result' = [result EXCEPT ![r].query = q, ![r].parent = t, ![r].loading = "off"]
      BY <2>1 DEF Answer
    <3>2. t \in Tab /\ r \in Result /\ result \in [Result -> ResultData] /\ "off" \in Loading
      BY Types DEF Loading
    <3>3. [result EXCEPT ![r].query = q, ![r].parent = t, ![r].loading = "off"] \in [Result -> ResultData]
      BY <3>2, Edited
    <3> QED BY <3>1, <3>2, <3>3, Types DEF TabData
  <2>2. CASE Fail(q)
    <3>1. PICK t \in Tabs, r \in Results :
            /\ tab' = [tab EXCEPT ![t].loading = FALSE]
            /\ result' = [result EXCEPT ![r].loading = "off"]
      BY <2>2 DEF Fail
    <3>2. r \in Result /\ result \in [Result -> ResultData] /\ "off" \in Loading
      BY Types DEF Loading
    <3>3. [result EXCEPT ![r].loading = "off"] \in [Result -> ResultData]
      BY <3>2, Edited
    <3> QED BY <3>1, <3>3, Types DEF TabData
  <2>3. CASE Break(q)
    <3>1. \/ UNCHANGED tab
          \/ \E t \in Tabs : tab' = [tab EXCEPT ![t].loading = FALSE]
      BY <2>3 DEF Break
    <3>2. UNCHANGED result
      BY <2>3 DEF Break
    <3> QED BY <3>1, <3>2, Types DEF TabData
  <2> QED BY <2>1, <2>2, <2>3 DEF Settle
<1>5. ResultsMove /\ TabsMove
  BY <1>3, Unmoved, Lookups
<1>6. /\ tabAt' \in Arrays(Tab) /\ resultAt' \in Arrays(Result)
      /\ selectedTabId' \in Tab \cup {stray} /\ lastTab' \in Tab /\ lastResult' \in Result
      /\ pulls' \subseteq PullRecord
  BY <1>3, Types DEF TypeOK
<1> QED
  BY <1>2, <1>4, <1>5, <1>6, TypesNext DEF Moves

\* Get Tables, and Close of an only result: a result is added.
LEMMA AddBesideMoves ==
  ASSUME IInv, NEW r \in Result, ShowObjects(r) \/ \E c \in Result : CloseOnlyResult(c, r)
  PROVE  TypeOK' /\ Moves
<1> USE DEF IInv
<1>1. \E t \in Tabs :
        /\ tab' = [tab EXCEPT ![t].selectedResult = r]
        /\ UNCHANGED <<tabAt, selectedTabId, query, pulls, lastTab>>
        /\ \E res \in [Result -> ResultData] : AddResult(res, t, r, NewResult(t))
  <2>1. CASE ShowObjects(r)
    BY <2>1, Types DEF ShowObjects
  <2>2. ASSUME NEW c \in Result, CloseOnlyResult(c, r)
        PROVE  <1>1!:
    <3>1. [result EXCEPT ![c].pinned = FALSE, ![c].loading = "off"] \in [Result -> ResultData]
      BY Types DEF ResultData, Loading
    <3> QED BY <2>2, <3>1, Lookups DEF CloseOnlyResult
  <2> QED BY <2>1, <2>2
<1>2. PICK t \in Tabs : <1>1!(t)
  BY <1>1
<1>3. /\ resultAt' \in Arrays(Result) /\ lastResult' \in Result
      /\ result' \in [Result -> ResultData] /\ ResultsMove
  BY <1>2, AddResultMoves, NewRecords, Types
<1>4. tab' \in [Tab -> TabData]
  BY <1>2, Types DEF TabData
<1>5. TabsMove /\ HandlesMove
  BY <1>2, Unmoved, Lookups
<1>6. /\ tabAt' \in Arrays(Tab) /\ selectedTabId' \in Tab \cup {stray} /\ lastTab' \in Tab
      /\ query' \in [Query -> QueryRecord] /\ pulls' \subseteq PullRecord
  BY <1>2, Types DEF TypeOK
<1> QED
  BY <1>3, <1>4, <1>5, <1>6, TypesNext DEF Moves

\* Close of a result with a neighbour: the results behind it move down.
LEMMA CloseMoves ==
  ASSUME IInv, NEW r \in Result, NEW s \in Result, CloseResult(r, s)
  PROVE  TypeOK' /\ Moves
<1> USE DEF IInv
<1>1. /\ r \in Results /\ s \in Results /\ r # s
      /\ tab' = [tab EXCEPT ![ShownTab].selectedResult = s]
      /\ result' = [result EXCEPT ![r] = NoResult]
      /\ resultAt' = Drop(resultAt, {r})
      /\ UNCHANGED <<tabAt, selectedTabId, query, pulls, lastTab, lastResult>>
  BY DEF CloseResult, ResultsOf, Neighbour
<1>2. resultAt \in Arrays(Result) /\ Dense(resultAt) /\ {r} \in SUBSET Live(resultAt)
  BY <1>1, Types DEF LookupsLand, Results
<1>3. /\ resultAt' \in Arrays(Result) /\ Dense(resultAt')
      /\ Results' = Results \ {r}
      /\ \A x \in Results \ {r} : resultAt'[x] <= resultAt[x]
  BY <1>1, <1>2, DropElements, DropDense DEF Results
<1>4. ResultsMove
  <2>1. lastResult' = lastResult /\ lastResult \in Nat
    BY <1>1, Types
  <2>2. s \in Results'
    BY <1>1, <1>3
  <2>3. \A x \in Results' : x \in Results /\ resultAt'[x] <= resultAt[x]
    BY <1>3
  <2> QED BY ONLY <1>3, <2>1, <2>2, <2>3 DEF ResultsMove
<1>5. TabsMove /\ HandlesMove
  BY <1>1, Unmoved, Lookups
<1>6. tab' \in [Tab -> TabData] /\ result' \in [Result -> ResultData]
  BY <1>1, Types, NewRecords DEF TabData
<1>7. /\ tabAt' \in Arrays(Tab) /\ selectedTabId' \in Tab \cup {stray} /\ lastTab' \in Tab
      /\ lastResult' \in Result /\ query' \in [Query -> QueryRecord] /\ pulls' \subseteq PullRecord
  BY <1>1, Types DEF TypeOK
<1> QED
  BY <1>3, <1>4, <1>5, <1>6, <1>7, TypesNext DEF Moves

\* Deleting a worksheet: another one is selected first.
LEMMA DeleteTabMoves ==
  ASSUME IInv, NEW t \in Tab, DeleteTab(t)
  PROVE  TypeOK' /\ Moves
<1> USE DEF IInv
<1>1. /\ t \in Tabs /\ tabAt[t] > 0
      /\ tabAt' = Drop(tabAt, {t})
      /\ tab' = [tab EXCEPT ![t] = NoTab]
      /\ UNCHANGED <<resultAt, result, query, pulls, lastTab, lastResult>>
  BY DEF DeleteTab, Own
<1>2. selectedTabId' \in (Tabs \ {t}) \cup {stray}
  BY Lookups DEF DeleteTab, Own
<1>3. tabAt \in Arrays(Tab) /\ Dense(tabAt) /\ {t} \in SUBSET Live(tabAt)
  BY <1>1, Types DEF LookupsLand, Tabs
<1>4. /\ tabAt' \in Arrays(Tab) /\ Dense(tabAt')
      /\ Tabs' = Tabs \ {t} /\ Tabs' # {}
      /\ \A x \in Tabs \ {t} : tabAt'[x] <= tabAt[x]
  <2>1. PICK o \in Tabs : tabAt[o] = 0
    BY FirstTaken DEF LookupsLand
  <2>2. o \in Tabs \ {t}
    BY <1>1, <2>1
  <2> QED BY <1>1, <1>3, <2>2, DropElements, DropDense DEF Tabs
<1>5. TabsMove
  <2>1. lastTab' = lastTab /\ lastTab \in Nat
    BY <1>1, Types
  <2>2. selectedTabId' \in Tabs' \cup {stray}
    BY <1>2, <1>4
  <2>3. \A x \in Tabs' : x \in Tabs /\ tabAt'[x] <= tabAt[x]
    BY <1>4
  <2> QED BY ONLY <1>4, <2>1, <2>2, <2>3 DEF TabsMove
<1>6. ResultsMove /\ HandlesMove
  BY <1>1, Unmoved
<1>7. tab' \in [Tab -> TabData]
  BY <1>1, Types, NewRecords
<1>8. /\ resultAt' \in Arrays(Result) /\ selectedTabId' \in Tab \cup {stray} /\ lastTab' \in Tab
      /\ lastResult' \in Result /\ query' \in [Query -> QueryRecord] /\ pulls' \subseteq PullRecord
      /\ result' \in [Result -> ResultData]
  BY <1>1, <1>2, Types DEF TypeOK
<1> QED
  BY <1>4, <1>5, <1>6, <1>7, <1>8, TypesNext DEF Moves

\* A new worksheet, beside the others or instead of the only one.
LEMMA NewTabMoves ==
  ASSUME IInv, NEW t \in Tab, NEW r \in Result, CreateTab(t, r) \/ ReplaceTab(t, r)
  PROVE  TypeOK' /\ Moves
<1> USE DEF IInv
<1>1. /\ t = lastTab + 1 /\ lastTab' = t /\ selectedTabId' = t /\ UNCHANGED <<query, pulls>>
      /\ AddResult(result, t, r, NewResult(t))
  BY DEF CreateTab, ReplaceTab, AddTab
<1>2. /\ resultAt' \in Arrays(Result) /\ lastResult' \in Result
      /\ result' \in [Result -> ResultData] /\ ResultsMove
  BY <1>1, AddResultMoves, NewRecords, Types
<1> DEFINE at == Push(tabAt, t)
<1>3. tabAt \in Arrays(Tab) /\ Dense(tabAt) /\ Tabs = Live(tabAt) /\ t \notin Tabs
  <2>1. \A x \in Tabs : x <= lastTab
    BY DEF IdsOld
  <2> QED BY <1>1, <2>1, Types DEF LookupsLand, Tabs
<1>4. /\ at \in Arrays(Tab) /\ Dense(at) /\ Live(at) = Tabs \cup {t}
      /\ \A x \in Tabs : at[x] = tabAt[x]
  <2>1. \A x \in Tabs : x \in Tab \ {t}
    BY <1>3, Types
  <2> QED BY <1>3, <2>1, PushElements, PushDense
<1> HIDE DEF at
<1>5. /\ tabAt' \in Arrays(Tab) /\ Dense(tabAt')
      /\ t \in Live(tabAt') /\ Live(tabAt') \subseteq Tabs \cup {t}
      /\ \A x \in Live(tabAt') \ {t} : tabAt'[x] <= tabAt[x]
  <2>1. CASE CreateTab(t, r)
    <3>1. tabAt' = at
      BY <2>1 DEF CreateTab, at
    <3> QED BY <1>4, <3>1, Types
  <2>2. CASE ReplaceTab(t, r)
    <3>1. tabAt' = Drop(at, {selectedTabId}) /\ selectedTabId \in Tabs /\ selectedTabId # t
      BY <1>3, <2>2 DEF ReplaceTab, Own, at
    <3>2. {selectedTabId} \in SUBSET Live(at)
      BY <1>4, <3>1
    <3>3. /\ tabAt' \in Arrays(Tab) /\ Dense(tabAt')
          /\ Live(tabAt') = Live(at) \ {selectedTabId}
          /\ \A x \in Live(at) \ {selectedTabId} : tabAt'[x] <= at[x]
      BY <1>4, <3>1, <3>2, DropElements, DropDense
    <3> QED BY <1>3, <1>4, <3>1, <3>3
  <2> QED BY <2>1, <2>2
<1>6. TabsMove
  BY <1>1, <1>5, Types DEF TabsMove, Tabs
<1>7. HandlesMove
  BY <1>1, Unmoved
<1>8. tab' \in [Tab -> TabData]
  <2>1. CASE CreateTab(t, r)
    BY <2>1, Types, NewRecords DEF CreateTab, TabData
  <2>2. CASE ReplaceTab(t, r)
    BY <2>2, Types, NewRecords DEF ReplaceTab, TabData
  <2> QED BY <2>1, <2>2
<1>9. /\ selectedTabId' \in Tab /\ lastTab' \in Tab /\ query' \in [Query -> QueryRecord]
      /\ pulls' \subseteq PullRecord
  BY <1>1, Types
<1> QED
  BY <1>2, <1>5, <1>6, <1>7, <1>8, <1>9, TypesNext DEF Moves

-----------------------------------------------------------------------------
\* The first visit satisfies the invariant.
LEMMA InitInvariant == Init => IInv
<1> SUFFICES ASSUME Init PROVE IInv
  OBVIOUS
<1>1. 1 \in Tab /\ 1 \in Result /\ Tab \subseteq Nat /\ Result \subseteq Nat
  BY BoundsAssumption DEF Tab, Result
<1>2. Live(tabAt) = {1} /\ Live(resultAt) = {1}
  BY <1>1 DEF Init, Live, Absent
<1>3. Running = {}
  BY DEF Init, Running, Unused
<1>4. TypeOK
  <2>1. Unused \in QueryRecord
    BY DEF Unused, QueryRecord
  <2>2. query \in [Query -> QueryRecord]
    BY <2>1 DEF Init
  <2>3. tab \in [Tab -> TabData] /\ result \in [Result -> ResultData]
    BY <1>1, NewRecords DEF Init
  <2> QED BY <1>1, <2>2, <2>3 DEF Init, TypeOK, Absent, QueryRecord
<1>5. IsFiniteSet({1}) /\ Cardinality({1}) = 1
  BY FS_Singleton
<1>6. Dense(tabAt) /\ Dense(resultAt)
  <2>1. tabAt[1] = 0 /\ resultAt[1] = 0
    BY <1>1 DEF Init
  <2>2. 0 \in 0..(1 - 1)
    OBVIOUS
  <2>3. \A at : Live(at) = {1} /\ at[1] = 0 => Dense(at)
    BY <1>5, <2>2 DEF Dense
  <2> QED BY <1>2, <2>1, <2>3
<1> QED
  BY <1>1, <1>2, <1>3, <1>4, <1>6
     DEF IInv, LookupsLand, HandlesNeverBehind, IdsOld, Init, Tabs, Results

\* In a session every step moves elements down or appends, whoever takes it.
LEMMA SessionMoves ==
  ASSUME IInv, [SessionNext]_vars
  PROVE  TypeOK' /\ Moves
<1>1. ASSUME NEW q \in Query, Refresh(q) PROVE TypeOK' /\ Moves
  BY <1>1, RefreshMoves
<1>2. ASSUME NEW q \in Query, Settle(q) PROVE TypeOK' /\ Moves
  BY <1>2, SettleMoves
<1>3. ASSUME NEW r \in Result, Add(r) PROVE TypeOK' /\ Moves
  BY <1>3, ExecuteMoves, AddBesideMoves, NewTabMoves DEF Add
<1>4. ASSUME NEW r \in Result, SelectResult(r) \/ TogglePin(r) \/ FetchRows(r) \/ StartPull(r)
      PROVE  TypeOK' /\ Moves
  BY <1>4, ViewMoves
<1>5. ASSUME NEW r \in Result, NEW s \in Result, CloseResult(r, s) PROVE TypeOK' /\ Moves
  BY <1>5, CloseMoves
<1>6. ASSUME NEW t \in Tab \cup {stray}, SelectTab(t) PROVE TypeOK' /\ Moves
  BY <1>6, ViewMoves
<1>7. ASSUME NEW t \in Tab \cup {stray}, DeleteTab(t) PROVE TypeOK' /\ Moves
  <2>1. t \in Tab
    BY <1>7, Types DEF DeleteTab, Own, IInv
  <2> QED BY <1>7, <2>1, DeleteTabMoves
<1>8. ASSUME NEW p \in pulls, LandPull(p) PROVE TypeOK' /\ Moves
  BY <1>8, ViewMoves
<1>9. CASE UNCHANGED vars
  <2>1. ResultsMove /\ TabsMove /\ HandlesMove
    BY <1>9, Unmoved, Lookups DEF vars
  <2>2. TypeOK'
    BY <1>9 DEF IInv, TypeOK, vars
  <2> QED BY <2>1, <2>2 DEF Moves
<1> QED
  BY <1>1, <1>2, <1>3, <1>4, <1>5, <1>6, <1>7, <1>8, <1>9 DEF SessionNext

\* Load session starts over: a panel out of a stored session, and statements under
\* way that belong to none of its results.
LEMMA LoadInvariant ==
  ASSUME IInv, NEW s \in Sessions, Load(s) \/ LoadBare(s)
  PROVE  IInv'
<1> USE DEF IInv
<1>1. /\ s.tabAt \in Arrays(Tab) /\ Dense(s.tabAt) /\ Live(s.tabAt) # {}
      /\ s.tab \in [Tab -> TabData]
      /\ s.selectedTabId \in Live(s.tabAt) \cup {stray}
      /\ s.resultAt \in [Result -> Nat \cup {Absent}] /\ Dense(s.resultAt)
      /\ s.result \in [Result -> ResultData]
  BY SessionsAssumption DEF Arrays
<1>2. Live(s.tabAt) \subseteq Tab
  BY <1>1, LiveIndex
<1>3. /\ query' \in [Query -> QueryRecord] /\ pulls' \subseteq PullRecord
      /\ \A q \in Query : query'[q].of = undefined /\ query'[q].from = undefined
  <2>1. query' = Replaced /\ UNCHANGED pulls
    BY DEF Load, LoadBare
  <2>2. \A q \in Query : [query[q] EXCEPT !.of = undefined, !.from = undefined] \in QueryRecord
    <3> SUFFICES ASSUME NEW q \in Query
                 PROVE  [query[q] EXCEPT !.of = undefined, !.from = undefined] \in QueryRecord
      OBVIOUS
    <3>1. query[q] \in QueryRecord
      BY Types
    <3> QED BY <3>1 DEF QueryRecord
  <2>3. \A q \in Query : query[q] \in QueryRecord
    BY Types
  <2>4. \A q \in Query : /\ [query[q] EXCEPT !.of = undefined, !.from = undefined].of = undefined
                         /\ [query[q] EXCEPT !.of = undefined, !.from = undefined].from = undefined
    BY <2>3 DEF QueryRecord
  <2> QED BY <2>1, <2>2, <2>4, Types DEF Replaced
<1>4. /\ tabAt' = s.tabAt /\ Tabs' = Live(s.tabAt) /\ selectedTabId' = s.selectedTabId
      /\ lastTab' \in Tab /\ \A t \in Tabs' : t <= lastTab'
  BY <1>2 DEF Load, LoadBare, Latest, Tabs, TypeOK
<1>5. /\ resultAt' \in Arrays(Result) /\ Dense(resultAt') /\ Results' # {}
      /\ result' \in [Result -> ResultData]
      /\ lastResult' \in Result /\ \A r \in Results' : r <= lastResult'
      /\ tab' \in [Tab -> TabData]
  <2>1. CASE Load(s)
    <3>1. resultAt' = s.resultAt /\ result' = s.result /\ tab' = s.tab
      BY <2>1 DEF Load
    <3>2. Results' = Live(s.resultAt) /\ Live(s.resultAt) \subseteq Result
      BY <1>1, <3>1, LiveIndex DEF Results, Arrays
    <3>3. lastResult' \in Result /\ \A r \in Results' : r <= lastResult'
      BY <2>1, <3>2 DEF Load, Latest, TypeOK
    <3> QED BY <1>1, <2>1, <3>1, <3>2, <3>3 DEF Load, Arrays
  <2>2. CASE LoadBare(s)
    <3> DEFINE n == Cardinality(Live(s.tabAt))
               place == [r \in Result |-> r - (lastResult + 1)]
               new == {r \in Result : place[r] \in 0..(n - 1)}
    <3>1. n \in Nat \ {0} /\ \A i \in 0..(n - 1) : \E t \in Live(s.tabAt) : s.tabAt[t] = i
      BY <1>1, IndexTaken
    <3>2. /\ lastResult' = lastResult + n /\ lastResult' \in Result
          /\ tab' = [t \in Tab |-> IF t \in Live(s.tabAt)
                      THEN [s.tab[t] EXCEPT !.selectedResult = lastResult + 1 + s.tabAt[t]]
                      ELSE s.tab[t]]
          /\ resultAt' = [r \in Result |-> IF r \in new THEN place[r] ELSE Absent]
          /\ result' = [r \in Result |-> IF r \in new
                         THEN NewResult(CHOOSE t \in Live(s.tabAt) : s.tabAt[t] = place[r])
                         ELSE NoResult]
      BY <2>2 DEF LoadBare
    <3>3. \A t \in Live(s.tabAt) : s.tabAt[t] \in 0..(n - 1)
      BY <1>1 DEF Dense
    <3> HIDE DEF n
    <3>4. lastResult \in Result /\ Result = 1..MaxResult /\ MaxResult \in Nat
      BY BoundsAssumption DEF TypeOK, Result
    <3>5. new = (lastResult + 1)..(lastResult + n)
      BY <3>1, <3>2, <3>4
    <3>6. IsFiniteSet(new) /\ Cardinality(new) = n
      <4>1. lastResult + 1 \in Int /\ lastResult + n \in Int /\ lastResult + 1 <= lastResult + n
        BY <3>1, <3>4
      <4>2. /\ IsFiniteSet((lastResult + 1)..(lastResult + n))
            /\ Cardinality((lastResult + 1)..(lastResult + n)) = (lastResult + n) - (lastResult + 1) + 1
        BY <4>1, FS_Interval
      <4>3. (lastResult + n) - (lastResult + 1) + 1 = n
        BY <3>1, <3>4
      <4> QED BY ONLY <3>5, <4>2, <4>3
    <3>7. \A r \in new : /\ r \in Result /\ r <= lastResult' /\ place[r] \in 0..(n - 1)
                        /\ resultAt'[r] = place[r] /\ place[r] = r - (lastResult + 1)
      <4> SUFFICES ASSUME NEW r \in new
                   PROVE  /\ r \in Result /\ r <= lastResult' /\ place[r] \in 0..(n - 1)
                          /\ resultAt'[r] = place[r] /\ place[r] = r - (lastResult + 1)
        OBVIOUS
      <4>1. r \in Result /\ place[r] \in 0..(n - 1) /\ place[r] = r - (lastResult + 1)
        OBVIOUS
      <4>2. resultAt'[r] = place[r]
        BY <3>2, <4>1
      <4>3. r <= lastResult'
        BY <3>1, <3>2, <3>4, <3>5
      <4> QED BY <4>1, <4>2, <4>3
    <3>8. resultAt' \in Arrays(Result) /\ Live(resultAt') = new
      BY <3>2, <3>7 DEF Arrays, Live, Absent
    <3> HIDE DEF new, place
    <3>9. Dense(resultAt') /\ Results' = new /\ new # {}
      <4>1. \A x, y \in new : resultAt'[x] = resultAt'[y] => x = y
        BY <3>4, <3>7
      <4>2. lastResult + 1 \in new
        BY <3>1, <3>4, <3>5
      <4> QED BY ONLY <3>6, <3>7, <3>8, <4>1, <4>2 DEF Dense, Results
    <3>10. result' \in [Result -> ResultData]
      <4>1. \A r \in new : (CHOOSE t \in Live(s.tabAt) : s.tabAt[t] = place[r]) \in Tab
        BY <1>2, <3>1, <3>7
      <4> QED BY <3>2, <4>1, NewRecords
    <3>11. tab' \in [Tab -> TabData]
      <4>1. \A t \in Live(s.tabAt) : lastResult + 1 + s.tabAt[t] \in Result
        BY <3>1, <3>2, <3>3, <3>4
      <4> QED BY <1>1, <3>2, <4>1 DEF TabData
    <3> QED BY <3>2, <3>7, <3>8, <3>9, <3>10, <3>11
  <2> QED BY <2>1, <2>2
<1>6. TypeOK'
  BY <1>1, <1>2, <1>3, <1>4, <1>5, TypesNext
<1>7. undefined \notin Tab /\ undefined \notin Result /\ Tabs' \subseteq Tab /\ Results' \subseteq Result
  <2>1. undefined \notin Tab /\ undefined \notin Result
    BY DEF Tab, Result, undefined
  <2>2. Results' \subseteq Result
    BY <1>5, LiveIndex DEF Results
  <2> QED BY <1>2, <1>4, <2>1, <2>2
<1>8. HandlesNeverBehind' /\ IdsOld'
  <2>1. \A q \in Running' : query'[q].of = undefined /\ query'[q].from = undefined
    BY <1>3 DEF Running
  <2>2. undefined <= lastResult' /\ undefined <= lastTab'
    BY <1>4, <1>5, BoundsAssumption DEF Tab, Result, undefined
  <2> QED BY <1>4, <1>5, <1>7, <2>1, <2>2 DEF HandlesNeverBehind, IdsOld
<1>9. LookupsLand'
  BY <1>1, <1>4, <1>5 DEF LookupsLand
<1> QED
  BY <1>6, <1>8, <1>9

\* The invariant of the panel, whatever the user does and whenever answers come.
THEOREM Invariant == Spec => []IInv
<1>1. Init => IInv
  BY InitInvariant
<1>2. IInv /\ [Next]_vars => IInv'
  <2>1. IInv /\ [SessionNext]_vars => IInv'
    BY SessionMoves, MovesPreserve
  <2> QED BY <2>1, LoadInvariant DEF Next
<1> QED
  BY <1>1, <1>2, PTL DEF Spec

\* The panel's state keeps its type.
THEOREM TypeCorrect == Spec => []TypeOK
<1>1. IInv => TypeOK
  BY DEF IInv
<1> QED
  BY <1>1, Invariant, PTL

\* No lookup of a worksheet or of a result reads past its array: both arrays are
\* dense and have a first element to fall back on, also when a folder is clicked
\* or a session loaded, and no deletion leaves the selection behind.
THEOREM LookupsAreSafe == Spec => []LookupsLand
<1>1. IInv => LookupsLand
  BY DEF IInv
<1> QED
  BY <1>1, Invariant, PTL

\* A late answer is never written to an element older than its own, unless a
\* session was loaded after the statement was submitted.
THEOREM HandlesOnlyLag == Spec => []HandlesNeverBehind
<1>1. IInv => HandlesNeverBehind
  BY DEF IInv
<1> QED
  BY <1>1, Invariant, PTL

-----------------------------------------------------------------------------
(***************************************************************************)
(* The clean-up.                                                           *)
(***************************************************************************)

\* Of the elements F of an array, those behind x, and those with n or more behind.
Newer(F, at, x)  == {y \in F : at[y] > at[x]}
Excess(F, at, n) == {x \in F : Cardinality(Newer(F, at, x)) >= n}

\* Without its excess a part of an array has n elements at most, and the excess
\* is in front of them and only there when n are left.
LEMMA ExcessGoes ==
  ASSUME NEW S, NEW at \in Arrays(S), Dense(at), NEW F \in SUBSET Live(at), NEW n \in Nat,
         NEW kept, kept = F \ Excess(F, at, n)
  PROVE  /\ \A x \in F \ kept, y \in kept : at[x] < at[y]
         /\ Cardinality(kept) <= n
         /\ F # kept => Cardinality(kept) = n
<1> DEFINE N(x) == Newer(F, at, x)
<1>1. IsFiniteSet(F)
  BY FS_Subset DEF Dense
<1>2. IsFiniteSet(kept) /\ Cardinality(kept) \in Nat
  BY <1>1, FS_Subset, FS_CardinalityType
<1>3. \A x \in F : IsFiniteSet(N(x)) /\ Cardinality(N(x)) \in Nat
  <2> TAKE x \in F
  <2>1. N(x) \in SUBSET F
    BY DEF Newer
  <2> HIDE DEF N
  <2> QED BY <1>1, <2>1, FS_Subset, FS_CardinalityType
<1>4. \A x \in F : at[x] \in Nat
  BY LiveIndex
<1>5. /\ \A x \in kept : x \in F /\ Cardinality(N(x)) < n
      /\ \A x \in F \ kept : Cardinality(N(x)) >= n
  BY <1>3 DEF Excess
<1>6. \A x \in F, y \in F : at[y] <= at[x] => Cardinality(N(x)) <= Cardinality(N(y))
  <2> SUFFICES ASSUME NEW x \in F, NEW y \in F, at[y] <= at[x]
               PROVE  Cardinality(N(x)) <= Cardinality(N(y))
    OBVIOUS
  <2>1. N(x) \in SUBSET N(y)
    BY <1>4 DEF Newer
  <2> HIDE DEF N
  <2> QED BY <1>3, <2>1, FS_Subset
<1>7. \A x \in F \ kept, y \in kept : at[x] < at[y]
  <2> HIDE DEF N
  <2> QED BY <1>3, <1>4, <1>5, <1>6
<1>8. Cardinality(kept) <= n
  <2>1. CASE kept = {}
    BY <2>1, FS_EmptySet
  <2>2. CASE kept # {}
    <3>1. kept \in SUBSET Live(at)
      BY <1>5
    <3>2. PICK m \in kept : \A y \in kept : at[m] <= at[y]
      BY <2>2, <3>1, Ends
    <3>3. \A y \in kept : at[y] = at[m] => y = m
      BY <3>1 DEF Dense
    <3>4. kept \ {m} \in SUBSET N(m)
      BY <1>4, <1>5, <3>2, <3>3 DEF Newer
    <3> HIDE DEF N
    <3>5. Cardinality(kept \ {m}) <= Cardinality(N(m))
      BY <1>3, <1>5, <3>4, FS_Subset
    <3>6. Cardinality(kept \ {m}) = Cardinality(kept) - 1
      BY <1>2, <3>2, FS_RemoveElement
    <3>7. Cardinality(N(m)) \in Nat /\ Cardinality(N(m)) < n
      BY <1>3, <1>5
    <3> QED BY <1>2, <3>5, <3>6, <3>7
  <2> QED BY <2>1, <2>2
<1>9. ASSUME F # kept PROVE Cardinality(kept) = n
  <2>1. F \ kept # {} /\ F \ kept \in SUBSET Live(at)
    BY <1>5, <1>9
  <2>2. PICK e \in F \ kept : \A y \in F \ kept : at[y] <= at[e]
    BY <2>1, Ends
  <2>3. N(e) \in SUBSET kept
    BY <1>4, <2>2 DEF Newer
  <2> HIDE DEF N
  <2>4. Cardinality(N(e)) <= Cardinality(kept)
    BY <1>2, <2>3, FS_Subset
  <2>5. Cardinality(N(e)) \in Nat /\ Cardinality(N(e)) >= n
    BY <1>3, <1>5, <2>2
  <2> QED BY <1>2, <1>8, <2>4, <2>5
<1> QED
  BY <1>7, <1>8, <1>9

\* CleanupIsOrderly says this of each result r that a step adds.
Busy(s, r) == /\ result[s].loading # "off" \/ result[s].pinned
              /\ ~CloseOnlyResult(s, r)
Beside(r)  == {s \in ResultsOf(result'[r].parent) : ~HasError(s) /\ ~Busy(s, r)}
Orderly(r) ==
  LET kept == {s \in Beside(r) : resultAt'[s] # Absent}
  IN  /\ \A s \in Results : resultAt'[s] = Absent => HasError(s) \/ s \in Beside(r)
      /\ \A s \in Beside(r) \ kept, k \in kept : resultAt[s] < resultAt[k]
      /\ Cardinality(kept) <= numResults
      /\ Beside(r) # kept => Cardinality(kept) = numResults

\* The data res the clean-up decides on is that of the results as they are, but
\* for the one being closed.
LEMMA AddIsOrderly ==
  ASSUME IInv, NEW res \in [Result -> ResultData], NEW t, NEW r \in Result,
         NEW new \in ResultData, AddResult(res, t, r, new), new.parent = t,
         \A s \in Result : res[s].parent = result[s].parent,
         \A s \in ResultsOf(t) : Busy(s, r) <=> res[s].loading # "off" \/ res[s].pinned
  PROVE  Orderly(r)
<1> DEFINE F == Finished(res, t)
           gone == Errors \cup Evicted(res, t)
           at == Drop(resultAt, gone)
           kept == F \ Excess(F, resultAt, numResults)
<1> USE DEF IInv
<1>1. gone \in SUBSET Results /\ F \in SUBSET Results
  BY DEF Errors, Evicted, Finished
<1>2. resultAt \in Arrays(Result) /\ Dense(resultAt) /\ Results = Live(resultAt)
  BY Types DEF LookupsLand, Results
<1>3. Evicted(res, t) = Excess(F, resultAt, numResults)
  BY DEF Evicted, Excess, Newer
<1>4. gone = Errors \cup (F \ kept) /\ kept \subseteq F /\ Errors \cap F = {}
  BY <1>3 DEF Finished, Excess
<1>5. /\ \A x \in F \ kept, y \in kept : resultAt[x] < resultAt[y]
      /\ Cardinality(kept) <= numResults
      /\ F # kept => Cardinality(kept) = numResults
  <2>1. F \in SUBSET Live(resultAt) /\ numResults \in Nat
    BY <1>1, <1>2, NumResultsAssumption
  <2>2. kept = F \ Excess(F, resultAt, numResults)
    OBVIOUS
  <2> HIDE DEF F, kept
  <2> QED BY ONLY <1>2, <2>1, <2>2, ExcessGoes
<1> HIDE DEF kept, gone
<1>6. at \in Arrays(Result) /\ Dense(at) /\ Live(at) = Results \ gone
  BY <1>1, <1>2, DropElements, DropDense
<1>7. /\ r = lastResult + 1
      /\ resultAt' = Push(at, r)
      /\ result' = [x \in Result |-> IF x = r THEN new ELSE IF x \in gone THEN NoResult ELSE res[x]]
  BY DEF AddResult, gone
<1> HIDE DEF at
<1>8. r \notin Results
  <2>1. \A x \in Results : x <= lastResult
    BY DEF IdsOld
  <2>2. r = lastResult + 1 /\ lastResult \in Nat
    BY <1>7, Types
  <2> QED BY ONLY <2>1, <2>2
<1>9. Live(resultAt') = (Results \ gone) \cup {r}
  <2>1. r \notin Live(at)
    BY <1>6, <1>8
  <2>2. resultAt' = Push(at, r)
    BY <1>7
  <2>3. Live(Push(at, r)) = Live(at) \cup {r}
    BY <1>6, <2>1, PushElements
  <2> QED BY <1>6, <2>2, <2>3
<1>10. resultAt' \in Arrays(Result)
  BY AddResultMoves
<1>11. \A s \in Results : resultAt'[s] = Absent <=> s \in gone
  <2>1. \A s \in Results : s # r /\ s \in Result
    BY <1>8, Types
  <2>2. DOMAIN resultAt' = Result
    BY <1>10 DEF Arrays
  <2> QED BY ONLY <1>9, <2>1, <2>2 DEF Live
<1>12. Beside(r) = F
  <2>1. result'[r].parent = t
    BY <1>7
  <2>2. \A s \in Results : s \in ResultsOf(t) <=> res[s].parent = t
    BY Types DEF ResultsOf
  <2>3. F = {s \in ResultsOf(t) : ~HasError(s) /\ res[s].loading = "off" /\ ~res[s].pinned}
    BY <2>2 DEF Finished, Errors, ResultsOf
  <2> HIDE DEF F
  <2> QED BY <2>1, <2>3 DEF Beside
<1> HIDE DEF F
<1>13. {s \in Beside(r) : resultAt'[s] # Absent} = kept
  BY <1>1, <1>4, <1>11, <1>12
<1>14. \A s \in Results : resultAt'[s] = Absent => HasError(s) \/ s \in F
  BY <1>4, <1>11 DEF Errors
<1> QED
  BY <1>5, <1>12, <1>13, <1>14 DEF Orderly

\* Every addition is of the form the clean-up is about.
LEMMA AddCleansUp ==
  ASSUME IInv, NEW r \in Result, Add(r)
  PROVE  Orderly(r)
<1> USE DEF IInv
<1>1. result \in [Result -> ResultData] /\ Tabs \subseteq Tab
  BY Types
<1>2. \A t \in Tab : NewResult(t).parent = t
  BY DEF NewResult, NoResult
<1>3. ASSUME NEW c \in Result, CloseOnlyResult(c, r)
      PROVE  Orderly(r)
  <2> DEFINE res == [result EXCEPT ![c].pinned = FALSE, ![c].loading = "off"]
  <2>1. /\ res \in [Result -> ResultData]
        /\ \A s \in Result : res[s].parent = result[s].parent
        /\ res[c].loading = "off" /\ ~res[c].pinned
    BY <1>1 DEF ResultData, Loading
  <2>2. ShownTab \in Tab /\ ResultsOf(ShownTab) = {c}
    BY <1>1, <1>3, Lookups DEF CloseOnlyResult
  <2>3. AddResult(res, ShownTab, r, NewResult(ShownTab))
    BY <1>3 DEF CloseOnlyResult
  <2> HIDE DEF res
  <2>4. \A s \in ResultsOf(ShownTab) : Busy(s, r) <=> res[s].loading # "off" \/ res[s].pinned
    BY <1>3, <2>1, <2>2 DEF Busy
  <2> QED BY <1>2, <2>1, <2>2, <2>3, <2>4, NewRecords, AddIsOrderly
<1>4. CASE ~ \E c \in Result : CloseOnlyResult(c, r)
  <2>1. \A t : \A s \in ResultsOf(t) : Busy(s, r) <=> result[s].loading # "off" \/ result[s].pinned
    BY <1>4, Types DEF Busy, ResultsOf
  <2>2. \E t \in Tab, new \in ResultData : new.parent = t /\ AddResult(result, t, r, new)
    <3>1. ASSUME NEW q \in Query, NEW t \in Tab, Execute(q, r, t)
          PROVE  <2>2!:
      <4> DEFINE new == [NewResult(t) EXCEPT !.query = q, !.loading = "on"]
      <4>1. new \in ResultData /\ new.parent = t
        BY NewRecords DEF NewResult, NoResult
      <4>2. AddResult(result, t, r, new)
        BY <3>1 DEF Execute
      <4> HIDE DEF new
      <4> QED BY <4>1, <4>2
    <3>2. CASE ShowObjects(r)
      <4>1. selectedTabId \in Tab /\ AddResult(result, selectedTabId, r, NewResult(selectedTabId))
        BY <1>1, <3>2 DEF ShowObjects
      <4> QED BY <1>2, <4>1, NewRecords
    <3>3. ASSUME NEW t \in Tab, CreateTab(t, r) \/ ReplaceTab(t, r)
          PROVE  <2>2!:
      <4>1. AddResult(result, t, r, NewResult(t))
        BY <3>3 DEF CreateTab, ReplaceTab, AddTab
      <4> QED BY <1>2, <4>1, NewRecords
    <3> QED BY <1>4, <3>1, <3>2, <3>3 DEF Add
  <2> QED BY <1>1, <2>1, <2>2, AddIsOrderly
<1> QED
  BY <1>3, <1>4

\* Adding a result takes errors, and of the results of its worksheet that neither
\* spin nor are pinned the oldest ones beyond numResults, and nothing else, for
\* any number of results and whatever runs.
THEOREM CleanupKeepsOrder == Spec => CleanupIsOrderly
<1>1. IInv => [\A r \in Result \ Results : resultAt'[r] # Absent /\ Add(r) =>
                LET busy(s) == /\ result[s].loading # "off" \/ result[s].pinned
                               /\ ~CloseOnlyResult(s, r)
                    old  == {s \in ResultsOf(result'[r].parent) : ~HasError(s) /\ ~busy(s)}
                    kept == {s \in old : resultAt'[s] # Absent}
                IN  /\ \A s \in Results : resultAt'[s] = Absent => HasError(s) \/ s \in old
                    /\ \A s \in old \ kept, k \in kept : resultAt[s] < resultAt[k]
                    /\ Cardinality(kept) <= numResults
                    /\ old # kept => Cardinality(kept) = numResults]_vars
  BY AddCleansUp DEF Orderly, Beside, Busy
<1> QED
  BY <1>1, Invariant, PTL DEF Spec, CleanupIsOrderly

-----------------------------------------------------------------------------
(***************************************************************************)
(* Theorems about SteadySpec of QueryPanel: as long as no session is loaded *)
(* and every handle points at what it was taken for, each answer lands in  *)
(* its own result, each spinner submitQuery started stands for a running   *)
(* statement, and the panel implements AnswerBoard.                        *)
(*                                                                         *)
(* The argument: a step asks for one result, replies to one, or rearranges *)
(* them.  These three kinds preserve the invariant, whatever the action    *)
(* was, and each is a step of the board.                                   *)
(***************************************************************************)

\* The result and the worksheet of a running statement are there, and the one
\* is the other's.
Waited ==
  \A q \in Running : /\ query[q].of \in Results /\ query[q].from \in Tabs
                     /\ result[query[q].of].parent = query[q].from

UnusedAskNothing == \A q \in Query : query[q].status = "unused" => query[q].of = undefined

GoneShowNothing ==
  \A r \in Result \ Results : result[r].query = undefined /\ result[r].loading # "on"

\* No session was loaded: no result has a copied Query with an error.
NoFailedCopy == \A r \in Result : result[r].copy # "failed"

\* No worksheet selects a result that does not exist yet.
SelectedOld == \A t \in Tabs : tab[t].selectedResult <= lastResult

Shows == OwnAnswers /\ SpinnerRuns /\ TabSpinnerRuns /\ ForeignOnlyAfterError

SteadyInv ==
  /\ IInv /\ Steady
  /\ Waited /\ UnusedAskNothing /\ GoneShowNothing /\ NoFailedCopy /\ SelectedOld
  /\ Shows

-----------------------------------------------------------------------------
(***************************************************************************)
(* The three kinds of steps.                                               *)
(***************************************************************************)
\* A statement loses its error only when its result, still there, is asked again.
StatementKept(p) ==
  /\ query[p].status = "failed" => query'[p].status = "failed" \/ query[p].of \in Results'
  /\ query'[p].of = query[p].of /\ query'[p].from = query[p].from
  /\ p \in Running' <=> p \in Running
  /\ query'[p].status = "unused" => query[p].status = "unused"

\* A result that stays shows what it showed; one that comes or goes, nothing.
ResultKept(x) ==
  /\ result'[x].copy # "failed"
  /\ IF x \in Results /\ x \in Results'
     THEN /\ result'[x].query = result[x].query /\ result'[x].parent = result[x].parent
          /\ result'[x].loading = "on" => result[x].loading = "on"
     ELSE result'[x].query = undefined /\ result'[x].loading # "on"

TabKept(t) == tab'[t].loading => t \in Tabs /\ tab[t].loading

\* Whatever a worksheet selects anew is its own, and what it selected stays unless
\* it had an error; but for the first worksheet.
SelectionKept(t) ==
  LET r == tab'[t].selectedResult
  IN  /\ r <= lastResult'
      /\ \/ /\ t \in Tabs /\ r = tab[t].selectedResult
            /\ r \in Results \ Results' => HasError(r)
         \/ r \in Results' /\ result'[r].parent = t
         \/ tabAt'[t] = 0

\* Statement q is asked in worksheet t for r, a new result or one of t.
Asks(q, r, t) ==
  /\ query[q].status = "unused"
  /\ q \in Running' /\ query'[q].of = r /\ query'[q].from = t
  /\ r \in Results' /\ t \in Tabs'
  /\ result'[r].query = q /\ result'[r].parent = t /\ result'[r].copy # "failed"
  /\ r \in Results => (result[r].parent \in Tabs => t = result[r].parent)
  /\ \A p \in Query \ {q} : StatementKept(p)
  /\ \A x \in Result \ {r} : ResultKept(x)
  /\ \A x \in Tabs' \ {t} : TabKept(x)

\* q is answered in its own result, or ends and leaves what that shows.
Replies(q, r, t) ==
  /\ q \in Running /\ query[q].of = r /\ query[q].from = t
  /\ q \notin Running' /\ query'[q].status # "unused"
  /\ query'[q].of = r /\ query'[q].from = t
  /\ result'[r].loading # "on" /\ ~ tab'[t].loading /\ result'[r].copy # "failed"
  /\ result'[r].parent = t /\ result'[r].query \in {q, result[r].query}
  /\ UNCHANGED resultAt
  /\ \A p \in Query \ {q} : StatementKept(p)
  /\ \A x \in Result \ {r} : ResultKept(x)
  /\ \A x \in Tabs' \ {t} : TabKept(x)

Rearranges ==
  /\ \A p \in Query : StatementKept(p)
  /\ \A x \in Result : ResultKept(x)
  /\ \A t \in Tabs' : TabKept(t)

IsOfKind ==
  /\ \A t \in Tabs' : SelectionKept(t)
  /\ \/ \E q \in Query, r \in Result, t \in Tab : Asks(q, r, t) \/ Replies(q, r, t)
     \/ Rearranges

-----------------------------------------------------------------------------
\* Typing facts of the state before a step and of the one after it.
LEMMA SteadyTypes ==
  ASSUME TypeOK, TypeOK'
  PROVE  /\ Tab \subseteq Nat /\ Result \subseteq Nat /\ undefined \notin Result
         /\ Tabs \subseteq Tab /\ Tabs' \subseteq Tab
         /\ Results \subseteq Result /\ Results' \subseteq Result
         /\ Running \subseteq Query /\ Running' \subseteq Query
         /\ \A t \in Tabs : tabAt[t] \in Nat
         /\ \A t \in Tabs' : tabAt'[t] \in Nat
         /\ \A r \in Results' : resultAt'[r] \in Nat
         /\ lastTab \in Nat /\ lastResult \in Nat /\ lastResult' \in Nat
         /\ \A t \in Tab : /\ tab[t].selectedResult \in Nat /\ tab'[t].selectedResult \in Nat
                           /\ tab[t].selectedResult \in Result \cup {undefined}
                           /\ tab[t].loading \in BOOLEAN /\ tab'[t].loading \in BOOLEAN
         /\ \A r \in Result : /\ result[r] \in ResultData /\ result'[r] \in ResultData
         /\ \A q \in Query : query[q] \in QueryRecord /\ query'[q] \in QueryRecord
<1>1. Tab \subseteq Nat /\ Result \subseteq Nat /\ undefined \notin Result
  BY BoundsAssumption DEF Tab, Result, undefined
<1>2. \A t \in Tab : tab[t] \in TabData /\ tab'[t] \in TabData
  BY DEF TypeOK, TabData
<1>3. \A i \in Result \cup {undefined} : i \in Nat
  BY <1>1 DEF undefined
<1> QED
  BY <1>1, <1>2, <1>3
     DEF TypeOK, Tabs, Results, Live, Absent, Running, TabData, ResultData, QueryRecord

\* A step of a kind keeps every running statement with its result and worksheet.
LEMMA WaitedPreserved ==
  ASSUME SteadyInv, IInv', Steady', IsOfKind
  PROVE  /\ Waited'
         /\ \A x \in Results \cap Results' :
              result[x].parent \in Tabs => result'[x].parent = result[x].parent
<1> USE SteadyTypes DEF SteadyInv, IInv
<1> DEFINE Its(p) == /\ query'[p].of \in Results' /\ query'[p].from \in Tabs'
                     /\ result'[query'[p].of].parent = query'[p].from
<1>1. ASSUME NEW x \in Results \cap Results', result[x].parent \in Tabs
      PROVE  result'[x].parent = result[x].parent
  <2>1. x \in Result
    OBVIOUS
  <2>2. CASE ResultKept(x)
    BY <1>1, <2>2 DEF ResultKept
  <2>3. ASSUME NEW q \in Query, NEW t \in Tab, Asks(q, x, t)
        PROVE  result'[x].parent = result[x].parent
    BY <1>1, <2>3 DEF Asks
  <2>4. ASSUME NEW q \in Query, NEW t \in Tab, Replies(q, x, t)
        PROVE  result'[x].parent = result[x].parent
    BY <1>1, <2>4 DEF Replies, Waited
  <2>5. \/ ResultKept(x)
        \/ \E q \in Query, t \in Tab : Asks(q, x, t) \/ Replies(q, x, t)
    <3>1. CASE Rearranges
      BY <2>1, <3>1 DEF Rearranges
    <3>2. ASSUME NEW q \in Query, NEW r \in Result, NEW t \in Tab, Asks(q, r, t) \/ Replies(q, r, t)
          PROVE  <2>5!:
      BY <2>1, <3>2 DEF Asks, Replies
    <3> QED BY <3>1, <3>2 DEF IsOfKind
  <2> QED BY <2>2, <2>3, <2>4, <2>5
<1>2. ASSUME NEW p \in Running', p \in Running, StatementKept(p)
      PROVE  Its(p)
  <2>1. /\ query[p].of \in Results /\ query[p].from \in Tabs
        /\ result[query[p].of].parent = query[p].from
    BY <1>2 DEF Waited
  <2>2. query'[p].of = query[p].of /\ query'[p].from = query[p].from
    BY <1>2 DEF StatementKept
  <2>3. query'[p].of \in Results' /\ query'[p].from \in Tabs'
    BY DEF Steady, Exact
  <2> QED BY <1>1, <2>1, <2>2, <2>3
<1>3. ASSUME NEW p \in Running'
      PROVE  Its(p)
  <2>1. p \in Query
    OBVIOUS
  <2>2. CASE StatementKept(p)
    BY <1>2, <2>1, <2>2 DEF StatementKept
  <2>3. ASSUME NEW r \in Result, NEW t \in Tab, Asks(p, r, t)
        PROVE  Its(p)
    BY <2>3 DEF Asks
  <2>4. \/ StatementKept(p)
        \/ \E r \in Result, t \in Tab : Asks(p, r, t)
    <3>1. CASE Rearranges
      BY <2>1, <3>1 DEF Rearranges
    <3>2. ASSUME NEW q \in Query, NEW r \in Result, NEW t \in Tab, Asks(q, r, t) \/ Replies(q, r, t)
          PROVE  <2>4!:
      BY <2>1, <3>2 DEF Asks, Replies
    <3> QED BY <3>1, <3>2 DEF IsOfKind
  <2> QED BY <2>2, <2>3, <2>4
<1> QED
  BY <1>1, <1>3 DEF Waited

\* What is said of results and statements survives a step of a kind.
LEMMA ResultsPreserved ==
  ASSUME SteadyInv, IInv', IsOfKind
  PROVE  /\ OwnAnswers' /\ SpinnerRuns' /\ GoneShowNothing' /\ UnusedAskNothing'
         /\ NoFailedCopy'
<1> USE SteadyTypes DEF SteadyInv, IInv
<1> DEFINE Owned(x) ==
      result'[x].query # undefined => /\ query'[result'[x].query].of = x
                                      /\ query'[result'[x].query].from = result'[x].parent
           Spins(x) == result'[x].loading = "on" => result'[x].query \in Running'
<1>1. \A x \in Results : result[x].query # undefined =>
        /\ result[x].query \in Query
        /\ query[result[x].query].of = x /\ query[result[x].query].of # undefined
        /\ query[result[x].query].from = result[x].parent
        /\ query[result[x].query].status # "unused"
  BY DEF OwnAnswers, Shows, UnusedAskNothing, ResultData
\* First what a result that stays, or one that comes, shows.
<1>2. ASSUME NEW x \in Results', x \in Results, ResultKept(x),
             \A p \in Query : query[p].of = x => StatementKept(p)
      PROVE  Owned(x) /\ Spins(x)
  <2>1. /\ result'[x].query = result[x].query /\ result'[x].parent = result[x].parent
        /\ result'[x].loading = "on" => result[x].loading = "on"
    BY <1>2 DEF ResultKept
  <2>2. result'[x].loading = "on" => result[x].query \in Running
    BY <1>2, <2>1 DEF SpinnerRuns, Shows
  <2>3. CASE result[x].query = undefined
    <3>1. undefined \notin Running'
      BY BoundsAssumption DEF Query, undefined
    <3>2. undefined \notin Running
      BY BoundsAssumption DEF Query, undefined
    <3> QED BY <2>1, <2>2, <2>3, <3>1, <3>2
  <2>4. CASE result[x].query # undefined
    <3>1. result[x].query \in Query /\ query[result[x].query].of = x
          /\ query[result[x].query].from = result[x].parent
      BY <1>1, <1>2, <2>4
    <3>2. StatementKept(result[x].query)
      BY <1>2, <3>1
    <3> QED BY <2>1, <2>2, <3>1, <3>2 DEF StatementKept
  <2> QED BY <2>3, <2>4
<1>3. ASSUME NEW x \in Results', x \notin Results, ResultKept(x)
      PROVE  Owned(x) /\ Spins(x)
  BY <1>3 DEF ResultKept
<1>4. ASSUME Rearranges
      PROVE  OwnAnswers' /\ SpinnerRuns' /\ GoneShowNothing' /\ UnusedAskNothing'
  <2>1. \A x \in Results' : Owned(x) /\ Spins(x)
    BY <1>2, <1>3, <1>4 DEF Rearranges
  <2>2. GoneShowNothing'
    BY <1>4 DEF Rearranges, ResultKept, GoneShowNothing
  <2>3. UnusedAskNothing'
    BY <1>4 DEF Rearranges, StatementKept, UnusedAskNothing
  <2>4. OwnAnswers'
    BY <2>1 DEF OwnAnswers
  <2>5. SpinnerRuns'
    BY <2>1 DEF SpinnerRuns
  <2> QED BY <2>2, <2>3, <2>4, <2>5
<1>5. ASSUME NEW q \in Query, NEW r \in Result, NEW t \in Tab, Asks(q, r, t)
      PROVE  OwnAnswers' /\ SpinnerRuns' /\ GoneShowNothing' /\ UnusedAskNothing'
  <2>1. query[q].of = undefined
    BY <1>5 DEF Asks, UnusedAskNothing
  <2>2. ASSUME NEW x \in Results', x # r
        PROVE  Owned(x) /\ Spins(x)
    <3>1. \A p \in Query : query[p].of = x => StatementKept(p)
      BY <1>5, <2>1 DEF Asks
    <3> QED BY <1>2, <1>3, <1>5, <2>2, <3>1 DEF Asks
  <2>3. Owned(r) /\ Spins(r)
    BY <1>5 DEF Asks
  <2>4. GoneShowNothing'
    BY <1>5 DEF Asks, ResultKept, GoneShowNothing
  <2>5. UnusedAskNothing'
    <3>1. query'[q].status # "unused"
      BY <1>5 DEF Asks, Running
    <3> QED BY <1>5, <3>1 DEF Asks, StatementKept, UnusedAskNothing
  <2> QED BY <2>2, <2>3, <2>4, <2>5 DEF OwnAnswers, SpinnerRuns
<1>6. ASSUME NEW q \in Query, NEW r \in Result, NEW t \in Tab, Replies(q, r, t)
      PROVE  OwnAnswers' /\ SpinnerRuns' /\ GoneShowNothing' /\ UnusedAskNothing'
  <2>1. Results' = Results /\ r \in Results /\ result[r].parent = t
    BY <1>6 DEF Replies, Waited, Results
  <2>2. ASSUME NEW x \in Results', x # r
        PROVE  Owned(x) /\ Spins(x)
    <3>1. \A p \in Query : query[p].of = x => StatementKept(p)
      BY <1>6, <2>2 DEF Replies
    <3> QED BY <1>2, <1>6, <2>1, <2>2, <3>1 DEF Replies
  <2>3. Owned(r) /\ Spins(r)
    <3>1. CASE result'[r].query = q
      BY <1>6, <3>1 DEF Replies
    <3>2. CASE result'[r].query = result[r].query /\ result[r].query # undefined /\ result[r].query # q
      <4>1. /\ result[r].query \in Query \ {q} /\ query[result[r].query].of = r
            /\ query[result[r].query].from = t
        BY <1>1, <2>1, <3>2
      <4>2. StatementKept(result[r].query)
        BY <1>6, <4>1 DEF Replies
      <4> QED BY <1>6, <3>2, <4>1, <4>2 DEF Replies, StatementKept
    <3>3. CASE result'[r].query = undefined
      BY <1>6, <3>3 DEF Replies
    <3> QED BY <1>6, <3>1, <3>2, <3>3 DEF Replies
  <2>4. GoneShowNothing'
    BY <1>6, <2>1 DEF Replies, ResultKept, GoneShowNothing
  <2>5. UnusedAskNothing'
    BY <1>6 DEF Replies, StatementKept, UnusedAskNothing
  <2> QED BY <2>1, <2>2, <2>3, <2>4, <2>5 DEF OwnAnswers, SpinnerRuns
<1>7. NoFailedCopy'
  BY DEF IsOfKind, Asks, Replies, Rearranges, ResultKept, NoFailedCopy
<1> QED
  BY <1>4, <1>5, <1>6, <1>7 DEF IsOfKind

\* What is said of worksheets survives it too.
LEMMA TabsPreserved ==
  ASSUME SteadyInv, IInv', Steady', Moves, IsOfKind
  PROVE  SelectedOld' /\ TabSpinnerRuns' /\ ForeignOnlyAfterError'
<1> USE SteadyTypes DEF SteadyInv, IInv
<1>1. SelectedOld'
  BY DEF IsOfKind, SelectionKept, SelectedOld
<1>2. ForeignOnlyAfterError'
  <2> DEFINE s(t) == tab'[t].selectedResult
             Failed(r) == \E p \in Query : query[p].of = r /\ query[p].status = "failed"
             StillFailed(r) == \E p \in Query : query'[p].of = r /\ query'[p].status = "failed"
  <2> SUFFICES ASSUME NEW t \in Tabs', tabAt'[t] > 0
               PROVE  \/ s(t) \in Results' /\ result'[s(t)].parent = t
                      \/ s(t) \notin Results' /\ StillFailed(s(t))
    BY DEF ForeignOnlyAfterError, Own, ResultsOf
  \* An error outlives the result it was an error of.
  <2>1. ASSUME NEW r, Failed(r), r \notin Results'
        PROVE  StillFailed(r)
    <3>1. PICK p \in Query : query[p].of = r /\ query[p].status = "failed"
      BY <2>1
    <3>2. StatementKept(p)
      BY <3>1 DEF IsOfKind, Asks, Replies, Rearranges, Running
    <3> QED BY <2>1, <3>1, <3>2 DEF StatementKept
  <2>2. ASSUME t \in Tabs, s(t) = tab[t].selectedResult, s(t) \in Results \ Results' => HasError(s(t))
        PROVE  \/ s(t) \in Results' /\ result'[s(t)].parent = t
               \/ s(t) \notin Results' /\ StillFailed(s(t))
    <3>1. tabAt'[t] <= tabAt[t]
      <4>1. t # lastTab + 1
        BY <2>2 DEF IdsOld
      <4> QED BY <4>1 DEF Moves, TabsMove
    <3>2. \/ s(t) \in Results /\ result[s(t)].parent = t
          \/ s(t) \notin Results /\ Failed(s(t))
      BY <2>2, <3>1 DEF ForeignOnlyAfterError, Shows, Own, ResultsOf
    <3>3. CASE s(t) \in Results /\ s(t) \in Results'
      BY <2>2, <3>2, <3>3, WaitedPreserved
    <3>4. CASE s(t) \in Results /\ s(t) \notin Results'
      <4>1. Failed(s(t))
        BY <2>2, <3>4 DEF HasError, NoFailedCopy, OwnAnswers, Shows, ResultData
      <4> QED BY <2>1, <3>4, <4>1
    <3>5. CASE s(t) \notin Results
      <4>1. s(t) \notin Results'
        <5>1. s(t) <= lastResult /\ s(t) \in Nat
          BY <2>2 DEF SelectedOld
        <5>2. s(t) \in Results' => s(t) = lastResult + 1
          BY <3>5 DEF Moves, ResultsMove
        <5> QED BY <5>1, <5>2
      <4> QED BY <2>1, <3>2, <3>5, <4>1
    <3> QED BY <3>3, <3>4, <3>5
  <2> QED BY <2>2 DEF IsOfKind, SelectionKept
<1>3. TabSpinnerRuns'
  <2> SUFFICES ASSUME NEW x \in Tabs', tab'[x].loading
               PROVE  \E q \in Running' : query'[q].from = x
    BY DEF TabSpinnerRuns
  <2>1. ASSUME TabKept(x), \A p \in Running : query[p].from = x => StatementKept(p)
        PROVE  \E q \in Running' : query'[q].from = x
    <3>1. x \in Tabs /\ tab[x].loading
      BY <2>1 DEF TabKept
    <3>2. PICK p \in Running : query[p].from = x
      BY <3>1 DEF TabSpinnerRuns, Shows
    <3> QED BY <2>1, <3>2 DEF StatementKept
  <2>2. CASE Rearranges
    BY <2>1, <2>2 DEF Rearranges
  <2>3. ASSUME NEW q \in Query, NEW r \in Result, NEW t \in Tab, Asks(q, r, t)
        PROVE  \E p \in Running' : query'[p].from = x
    <3>1. CASE x = t
      BY <2>3, <3>1 DEF Asks
    <3>2. CASE x # t
      <4>1. q \notin Running
        BY <2>3 DEF Asks, Running
      <4> QED BY <2>1, <2>3, <3>2, <4>1 DEF Asks
    <3> QED BY <3>1, <3>2
  <2>4. ASSUME NEW q \in Query, NEW r \in Result, NEW t \in Tab, Replies(q, r, t)
        PROVE  \E p \in Running' : query'[p].from = x
    BY <2>1, <2>4 DEF Replies
  <2> QED BY <2>2, <2>3, <2>4 DEF IsOfKind
<1> QED
  BY <1>1, <1>2, <1>3

LEMMA KindsPreserve ==
  ASSUME SteadyInv, IInv', Steady', Moves, IsOfKind
  PROVE  SteadyInv'
BY ResultsPreserved, TabsPreserved, WaitedPreserved DEF SteadyInv, Shows

-----------------------------------------------------------------------------
(***************************************************************************)
(* Which kind the actions are of.                                          *)
(***************************************************************************)

\* The clean-up takes results away and changes none that stays.
LEMMA AddResultKeeps ==
  ASSUME SteadyInv, TypeOK', NEW res \in [Result -> ResultData], NEW t, NEW r \in Result,
         NEW new \in ResultData, AddResult(res, t, r, new),
         \A x \in Result : /\ res[x].query = result[x].query /\ res[x].parent = result[x].parent
                           /\ res[x].loading = "on" => result[x].loading = "on"
                           /\ res[x].copy = result[x].copy
  PROVE  /\ r \notin Results /\ r \in Results' /\ r = lastResult' /\ result'[r] = new
         /\ \A x \in Result \ {r} : ResultKept(x)
         /\ \A x \in Results \ Results' : HasError(x) \/ result[x].parent = t
<1> USE SteadyTypes DEF SteadyInv, IInv
<1> DEFINE gone == Errors \cup Evicted(res, t)
           at == Drop(resultAt, gone)
<1>1. /\ r = lastResult + 1 /\ lastResult' = r
      /\ resultAt' = Push(at, r)
      /\ result' = [x \in Result |-> IF x = r THEN new ELSE IF x \in gone THEN NoResult ELSE res[x]]
  BY DEF AddResult
<1>2. r \notin Results
  BY <1>1 DEF IdsOld
<1>3. gone \in SUBSET Live(resultAt)
  BY DEF Errors, Evicted, Finished, Results
<1>4. resultAt \in Arrays(Result) /\ Dense(resultAt)
  BY Types DEF LookupsLand
<1>5. \A x \in gone : HasError(x) \/ result[x].parent = t
  BY DEF Errors, Evicted, Finished
<1> HIDE DEF gone
<1>6. at \in Arrays(Result) /\ Dense(at) /\ Live(at) = Results \ gone
  BY <1>3, <1>4, DropElements, DropDense DEF Results
<1> HIDE DEF at
<1>7. Results' = (Results \ gone) \cup {r}
  BY <1>1, <1>6, PushElements DEF Results
<1>8. ASSUME NEW x \in Result \ {r}
      PROVE  ResultKept(x)
  <2>1. CASE x \in Results'
    <3>1. x \in Results /\ result'[x] = res[x]
      BY <1>1, <1>7, <2>1
    <3> QED BY <2>1, <3>1 DEF ResultKept, NoFailedCopy
  <2>2. CASE x \notin Results'
    <3>1. result'[x] = NoResult \/ (x \notin Results /\ result'[x] = res[x])
      BY <1>1, <1>7, <2>2
    <3>2. NoResult.query = undefined /\ NoResult.loading = "off" /\ NoResult.copy = "blank"
      BY DEF NoResult
    <3>3. x \notin Results => /\ res[x].query = undefined /\ res[x].loading # "on"
                              /\ res[x].copy # "failed"
      BY DEF GoneShowNothing, NoFailedCopy
    <3> QED BY <2>2, <3>1, <3>2, <3>3 DEF ResultKept
  <2> QED BY <2>1, <2>2
<1> QED
  BY <1>1, <1>2, <1>7, <1>8, <1>5

\* Results that a step leaves alone.
LEMMA ResultsAlone ==
  ASSUME SteadyInv, UNCHANGED resultAt, NEW x \in Result,
         result'[x].query = result[x].query, result'[x].parent = result[x].parent,
         result'[x].loading = "on" => result[x].loading = "on",
         result'[x].copy \in {result[x].copy, "good"}
  PROVE  ResultKept(x)
BY DEF SteadyInv, GoneShowNothing, NoFailedCopy, ResultKept, Results

\* A statement is posted: the others are kept.
LEMMA PostKeeps ==
  ASSUME TypeOK, NEW q \in Query, NEW t, NEW r, NEW old, Fresh(q), Post(q, t, r, old),
         old \in Query => query[old].of \in Results'
  PROVE  /\ query[q].status = "unused"
         /\ q \in Running' /\ query'[q].of = r /\ query'[q].from = t
         /\ \A p \in Query \ {q} : StatementKept(p)
<1>1. query[q].status = "unused"
  BY DEF Fresh, Query
<1>2. \A p \in Query : query[p] \in QueryRecord
  BY Types
<1>3. query' = [p \in Query |->
                  IF p = q THEN [status |-> "running", tabIx |-> tabAt[t],
                                 resultIx |-> resultAt'[r], of |-> r, from |-> t]
                  ELSE IF p = old /\ query[p].status = "failed"
                    THEN [query[p] EXCEPT !.status = "over"]
                  ELSE IF p = old /\ query[p].status = "answered"
                    THEN [query[p] EXCEPT !.status = "emptied"]
                  ELSE query[p]]
  BY DEF Post
<1>4. q \in Running' /\ query'[q].of = r /\ query'[q].from = t
  BY <1>3 DEF Running
<1>5. ASSUME NEW p \in Query \ {q}
      PROVE  StatementKept(p)
  <2>1. CASE query'[p] = query[p]
    BY <2>1 DEF StatementKept, Running
  <2>2. CASE p = old /\ query[p].status = "failed" /\ query'[p] = [query[p] EXCEPT !.status = "over"]
    BY <1>2, <2>2 DEF StatementKept, Running, QueryRecord
  <2>3. CASE query[p].status = "answered" /\ query'[p] = [query[p] EXCEPT !.status = "emptied"]
    BY <1>2, <2>3 DEF StatementKept, Running, QueryRecord
  <2> QED BY <1>3, <2>1, <2>2, <2>3
<1> QED
  BY <1>1, <1>4, <1>5

\* A statement ends: the others are kept.
LEMMA FinishKeeps ==
  ASSUME TypeOK, NEW q \in Query, NEW status \in {"answered", "failed", "over"}, Finish(q, status)
  PROVE  /\ q \notin Running' /\ query'[q].status # "unused"
         /\ query'[q].of = query[q].of /\ query'[q].from = query[q].from
         /\ \A p \in Query \ {q} : StatementKept(p)
<1> USE Types
<1>1. query[q] \in QueryRecord
  OBVIOUS
<1>2. query'[q] = [query[q] EXCEPT !.status = status, !.tabIx = 0, !.resultIx = 0]
  BY DEF Finish
<1>3. \A p \in Query \ {q} : query'[p] = query[p]
  BY DEF Finish
<1>4. query'[q].status = status /\ query'[q].of = query[q].of /\ query'[q].from = query[q].from
  BY <1>1, <1>2 DEF QueryRecord
<1> QED
  BY <1>3, <1>4 DEF StatementKept, Running

\* Exact handles: what is found there is the statement's own, and is there.
LEMMA ExactHandles ==
  ASSUME SteadyInv, NEW q \in Running
  PROVE  /\ \A t \in Tabs : tabAt[t] = query[q].tabIx => t = query[q].from
         /\ \A r \in Results : resultAt[r] = query[q].resultIx => r = query[q].of
         /\ ~ Break(q)
<1> USE DEF SteadyInv, IInv
<1>1. /\ query[q].of \in Results /\ query[q].from \in Tabs
      /\ resultAt[query[q].of] = query[q].resultIx /\ tabAt[query[q].from] = query[q].tabIx
  BY DEF Steady, Exact
<1>2. Dense(tabAt) /\ Dense(resultAt) /\ Tabs = Live(tabAt) /\ Results = Live(resultAt)
  BY DEF LookupsLand, Tabs, Results
<1>3. /\ \A t \in Tabs : tabAt[t] = query[q].tabIx => t = query[q].from
      /\ \A r \in Results : resultAt[r] = query[q].resultIx => r = query[q].of
  BY <1>1, <1>2 DEF Dense
<1>4. /\ query[q].tabIx \in 0..(Cardinality(Tabs) - 1)
      /\ query[q].resultIx \in 0..(Cardinality(Results) - 1)
  BY <1>1, <1>2 DEF Dense
<1>5. Cardinality(Tabs) \in Nat /\ Cardinality(Results) \in Nat
  BY <1>2, FS_CardinalityType DEF Dense
<1>6. ~ Break(q)
  BY <1>4, <1>5 DEF Break
<1> QED
  BY <1>3, <1>6

\* Worksheets that a step leaves alone.
LEMMA TabAlone ==
  ASSUME SteadyInv, NEW t \in Tabs, lastResult <= lastResult', lastResult' \in Nat,
         tab'[t] = tab[t], tabAt'[t] <= tabAt[t], tabAt'[t] \in Nat,
         \A r \in Results \ Results' : HasError(r) \/ result[r].parent # t
  PROVE  SelectionKept(t) /\ TabKept(t)
<1> USE Types DEF SteadyInv, IInv
<1>1. tab'[t].selectedResult <= lastResult'
  BY DEF SelectedOld, TabData, undefined
<1>2. TabKept(t)
  BY DEF TabKept
<1>3. CASE tabAt[t] = 0
  <2>1. tabAt'[t] = 0
    BY <1>3
  <2> QED BY <1>1, <1>2, <2>1 DEF SelectionKept
<1>4. CASE tabAt[t] # 0
  <2>1. tabAt[t] > 0
    BY <1>4
  <2>2. tab[t].selectedResult \in Results => result[tab[t].selectedResult].parent = t
    BY <2>1 DEF ForeignOnlyAfterError, Shows, Own, ResultsOf
  <2> QED BY <1>1, <1>2, <2>2 DEF SelectionKept
<1> QED
  BY <1>3, <1>4

LEMMA ExecuteAsks ==
  ASSUME SteadyInv, TypeOK', NEW q \in Query, NEW r \in Result, NEW t \in Tab, Execute(q, r, t)
  PROVE  IsOfKind
<1> USE SteadyTypes DEF SteadyInv, IInv
<1> DEFINE new == [NewResult(t) EXCEPT !.query = q, !.loading = "on"]
<1>1. /\ Fresh(q) /\ t \in {ShownTab, ParentTab(ShownResult)}
      /\ AddResult(result, t, r, new)
      /\ tab' = [tab EXCEPT ![t] = [selectedResult |-> r, loading |-> TRUE]]
      /\ Post(q, t, r, undefined)
      /\ UNCHANGED <<tabAt, selectedTabId, pulls, lastTab>>
  BY DEF Execute
<1>2. new \in ResultData /\ new.query = q /\ new.parent = t /\ new.copy = "blank"
  BY DEF NewResult, NoResult, ResultData, Loading
<1> HIDE DEF new
<1>3. /\ r \notin Results /\ r \in Results' /\ r = lastResult' /\ result'[r] = new
      /\ \A x \in Result \ {r} : ResultKept(x)
      /\ \A x \in Results \ Results' : HasError(x) \/ result[x].parent = t
  <2>1. result \in [Result -> ResultData] /\ r \in Result
    BY Types
  <2> QED BY ONLY SteadyInv, TypeOK', <1>1, <1>2, <2>1, AddResultKeeps
<1>4. t \in Tabs /\ Tabs' = Tabs
  BY <1>1, Lookups DEF Tabs
<1>5. /\ query[q].status = "unused"
      /\ q \in Running' /\ query'[q].of = r /\ query'[q].from = t
      /\ \A p \in Query \ {q} : StatementKept(p)
  <2>1. undefined \notin Query
    BY DEF Query, undefined
  <2> QED BY <1>1, <2>1, PostKeeps
<1>6. lastResult <= lastResult'
  BY <1>1 DEF AddResult
<1>7. \A x \in Tabs' \ {t} : SelectionKept(x) /\ TabKept(x)
  <2> SUFFICES ASSUME NEW x \in Tabs' \ {t}
               PROVE  SelectionKept(x) /\ TabKept(x)
    OBVIOUS
  <2>1. x \in Tabs /\ tab'[x] = tab[x] /\ tabAt'[x] = tabAt[x]
    BY <1>1, <1>4, Types
  <2> QED BY <1>3, <1>6, <2>1, TabAlone
<1>8. SelectionKept(t)
  <2>1. tab'[t].selectedResult = r
    BY <1>1, Types
  <2> QED BY <1>2, <1>3, <2>1 DEF SelectionKept
<1> QED
  BY <1>2, <1>3, <1>4, <1>5, <1>7, <1>8 DEF IsOfKind, Asks

LEMMA RefreshAsks ==
  ASSUME SteadyInv, TypeOK', NEW q \in Query, Refresh(q)
  PROVE  IsOfKind
<1> USE SteadyTypes DEF SteadyInv, IInv
<1> DEFINE r == ShownResult
           t == ParentTab(r)
<1>1. r \in Results /\ r \in Result /\ t \in Tabs /\ t \in Tab
  BY Lookups
<1>2. /\ Fresh(q)
      /\ result' = [result EXCEPT ![r].query = q, ![r].parent = t, ![r].loading = "on"]
      /\ tab' = [tab EXCEPT ![t].loading = TRUE]
      /\ UNCHANGED <<tabAt, selectedTabId, resultAt, pulls, lastTab, lastResult>>
      /\ Post(q, t, r, result[r].query)
  BY DEF Refresh
<1>3. result[r].parent \in Tabs => t = result[r].parent
  BY DEF ParentTab, Lookup, Tabs
<1> HIDE DEF r, t
<1>4. Tabs' = Tabs /\ Results' = Results
  BY <1>2 DEF Tabs, Results
<1>5. /\ query[q].status = "unused"
      /\ q \in Running' /\ query'[q].of = r /\ query'[q].from = t
      /\ \A p \in Query \ {q} : StatementKept(p)
  <2>1. result[r].query \in Query => query[result[r].query].of = r
    <3>1. undefined \notin Query
      BY DEF Query, undefined
    <3> QED BY <1>1, <3>1 DEF OwnAnswers, Shows
  <2> QED BY <1>1, <1>2, <1>4, <2>1, PostKeeps
<1>6. \A x \in Result \ {r} : ResultKept(x)
  <2>1. \A x \in Result \ {r} : result'[x] = result[x]
    BY <1>2, Types
  <2> QED BY <1>2, <2>1, ResultsAlone
<1>7. result'[r].query = q /\ result'[r].parent = t /\ result'[r].copy # "failed"
  BY <1>1, <1>2, Types DEF ResultData, NoFailedCopy
<1>8. \A x \in Tabs' \ {t} : SelectionKept(x) /\ TabKept(x)
  <2> SUFFICES ASSUME NEW x \in Tabs' \ {t}
               PROVE  SelectionKept(x) /\ TabKept(x)
    OBVIOUS
  <2>1. x \in Tabs /\ tab'[x] = tab[x] /\ tabAt'[x] = tabAt[x]
    BY <1>2, <1>4, Types
  <2>2. lastResult <= lastResult'
    BY <1>2
  <2> QED BY <1>4, <2>1, <2>2, TabAlone
<1>9. SelectionKept(t)
  <2>1. tab'[t].selectedResult = tab[t].selectedResult
    BY <1>1, <1>2, Types DEF TabData
  <2> QED BY <1>1, <1>2, <1>4, <2>1 DEF SelectionKept, SelectedOld
<1> QED
  BY <1>1, <1>3, <1>4, <1>5, <1>6, <1>7, <1>8, <1>9 DEF IsOfKind, Asks

LEMMA SettleReplies ==
  ASSUME SteadyInv, TypeOK', NEW q \in Query, Settle(q)
  PROVE  IsOfKind
<1> USE SteadyTypes DEF SteadyInv, IInv
<1> DEFINE r == query[q].of
           t == query[q].from
<1>1. q \in Running
  BY DEF Settle, Answer, Fail, Break
<1>2. r \in Results /\ r \in Result /\ t \in Tabs /\ t \in Tab /\ result[r].parent = t
  BY <1>1 DEF Waited
<1>3. /\ UNCHANGED <<tabAt, selectedTabId, resultAt, pulls, lastTab, lastResult>>
      /\ \E status \in {"answered", "failed"} : Finish(q, status)
      /\ \/ /\ tab' = [tab EXCEPT ![t] = [selectedResult |-> r, loading |-> FALSE]]
            /\ result' = [result EXCEPT ![r].query = q, ![r].parent = t, ![r].loading = "off"]
         \/ /\ tab' = [tab EXCEPT ![t].loading = FALSE]
            /\ result' = [result EXCEPT ![r].loading = "off"]
  <2>1. CASE Answer(q)
    BY <1>1, <2>1, ExactHandles DEF Answer
  <2>2. CASE Fail(q)
    BY <1>1, <2>2, ExactHandles DEF Fail
  <2>3. ~ Break(q)
    BY <1>1, ExactHandles
  <2> QED BY <2>1, <2>2, <2>3 DEF Settle
<1>4. /\ q \notin Running' /\ query'[q].status # "unused"
      /\ query'[q].of = r /\ query'[q].from = t
      /\ \A p \in Query \ {q} : StatementKept(p)
  BY <1>3, FinishKeeps
<1> HIDE DEF r, t
<1>5. Tabs' = Tabs /\ Results' = Results
  BY <1>3 DEF Tabs, Results
<1>6. \A x \in Result \ {r} : ResultKept(x)
  <2>1. \A x \in Result \ {r} : result'[x] = result[x]
    BY <1>3, Types
  <2> QED BY <1>3, <2>1, ResultsAlone
<1>7. /\ result'[r].loading # "on" /\ result'[r].parent = t /\ result'[r].copy # "failed"
      /\ result'[r].query \in {q, result[r].query}
  BY <1>2, <1>3, Types DEF ResultData, NoFailedCopy
<1>8. \A x \in Tabs' \ {t} : SelectionKept(x) /\ TabKept(x)
  <2> SUFFICES ASSUME NEW x \in Tabs' \ {t}
               PROVE  SelectionKept(x) /\ TabKept(x)
    OBVIOUS
  <2>1. x \in Tabs /\ tab'[x] = tab[x] /\ tabAt'[x] = tabAt[x]
    BY <1>3, <1>5, Types
  <2>2. lastResult <= lastResult'
    BY <1>3
  <2> QED BY <1>5, <2>1, <2>2, TabAlone
<1>9. SelectionKept(t) /\ ~ tab'[t].loading
  <2>1. CASE tab' = [tab EXCEPT ![t] = [selectedResult |-> r, loading |-> FALSE]]
    <3>1. tab'[t].selectedResult = r /\ ~ tab'[t].loading
      BY <1>2, <2>1, Types
    <3>2. r <= lastResult'
      BY <1>2, <1>3 DEF IdsOld
    <3> QED BY <1>2, <1>5, <1>7, <3>1, <3>2 DEF SelectionKept
  <2>2. CASE tab' = [tab EXCEPT ![t].loading = FALSE]
    <3>1. tab'[t].selectedResult = tab[t].selectedResult /\ ~ tab'[t].loading
      BY <1>2, <2>2, Types DEF TabData
    <3> QED BY <1>2, <1>3, <1>5, <3>1 DEF SelectionKept, SelectedOld
  <2> QED BY <1>3, <2>1, <2>2
<1>10. Replies(q, r, t)
  BY <1>1, <1>3, <1>4, <1>6, <1>7, <1>8, <1>9 DEF Replies, r, t
<1> QED
  BY <1>2, <1>8, <1>9, <1>10 DEF IsOfKind

\* Statements are not touched.
LEMMA StatementsAlone ==
  ASSUME UNCHANGED query
  PROVE  \A p \in Query : StatementKept(p)
BY DEF StatementKept, Running

\* One worksheet of its window selects one of its own results.
LEMMA SelectsOwn ==
  ASSUME SteadyInv, TypeOK', NEW t \in Tabs, NEW r \in Result,
         tab' = [tab EXCEPT ![t].selectedResult = r], UNCHANGED tabAt,
         r \in Results', result'[r].parent = t, r <= lastResult', lastResult <= lastResult',
         \A x \in Results \ Results' : HasError(x) \/ result[x].parent = t
  PROVE  \A x \in Tabs' : SelectionKept(x) /\ TabKept(x)
<1> USE SteadyTypes DEF SteadyInv, IInv
<1> SUFFICES ASSUME NEW x \in Tabs'
             PROVE  SelectionKept(x) /\ TabKept(x)
  OBVIOUS
<1>1. x \in Tabs /\ x \in Tab
  BY DEF Tabs
<1>2. CASE x # t
  BY <1>1, <1>2, TabAlone, Types
<1>3. CASE x = t
  <2>1. tab'[x].selectedResult = r /\ tab'[x].loading = tab[x].loading
    BY <1>1, <1>3, Types DEF TabData
  <2> QED BY <1>1, <1>3, <2>1 DEF SelectionKept, TabKept
<1> QED
  BY <1>2, <1>3

\* A read of the cache is written to the result it was started for.
LEMMA PullLands ==
  ASSUME SteadyInv, NEW p \in pulls, LandPull(p)
  PROVE  \/ UNCHANGED result
         \/ \E r \in Results :
              result' = [result EXCEPT ![r].query = result[r].query, ![r].loading = "off",
                           ![r].copy = IF p.query = undefined THEN "good" ELSE @]
<1>1. CASE UNCHANGED result
  BY <1>1
<1>2. ASSUME NEW r \in Results, resultAt[r] = p.resultIx,
             result' = [result EXCEPT ![r].query = p.query, ![r].loading = "off",
                          ![r].copy = IF p.query = undefined THEN "good" ELSE @]
      PROVE  result' = [result EXCEPT ![r].query = result[r].query, ![r].loading = "off",
                          ![r].copy = IF p.query = undefined THEN "good" ELSE @]
  <2>1. p.of \in Results /\ resultAt[p.of] = p.resultIx /\ result[p.of].query = p.query
    BY DEF SteadyInv, Steady, PullExact
  <2>2. r = p.of
    BY <1>2, <2>1 DEF SteadyInv, IInv, LookupsLand, Dense, Results
  <2> QED BY <1>2, <2>1, <2>2
<1> QED
  BY <1>1, <1>2 DEF LandPull

LEMMA ViewRearranges ==
  ASSUME SteadyInv, TypeOK',
         \/ \E t \in Tab \cup {stray} : SelectTab(t)
         \/ \E r \in Result : SelectResult(r) \/ TogglePin(r) \/ FetchRows(r) \/ StartPull(r)
         \/ \E p \in pulls : LandPull(p)
         \/ UNCHANGED vars
  PROVE  IsOfKind
<1> USE SteadyTypes DEF SteadyInv, IInv
<1>1. UNCHANGED <<tabAt, resultAt, query, lastTab, lastResult>>
  BY DEF SelectTab, SelectResult, TogglePin, FetchRows, StartPull, LandPull, vars
<1> DEFINE Same(x) == /\ result'[x].query = result[x].query
                      /\ result'[x].parent = result[x].parent
                      /\ result'[x].loading = "on" => result[x].loading = "on"
                      /\ result'[x].copy \in {result[x].copy, "good"}
<1>2. \A x \in Result : Same(x)
  <2>1. CASE UNCHANGED result
    BY <2>1
  <2>2. ASSUME NEW r \in Result, result' = [result EXCEPT ![r].pinned = ~ @]
        PROVE  \A x \in Result : Same(x)
    BY <2>2, Types DEF ResultData
  <2>3. ASSUME NEW r \in Result, NEW l \in Loading, l = "on" => result[r].loading = "on",
               result' = [result EXCEPT ![r].loading = l]
        PROVE  \A x \in Result : Same(x)
    BY <2>3, Types DEF ResultData
  <2>4. ASSUME NEW r \in Results, NEW c \in {result[r].copy, "good"},
               result' = [result EXCEPT ![r].query = result[r].query, ![r].loading = "off",
                            ![r].copy = c]
        PROVE  \A x \in Result : Same(x)
    BY <2>4, Types DEF ResultData
  <2>5. ASSUME NEW r \in Result, FetchRows(r)
        PROVE  \A x \in Result : Same(x)
    <3>1. PICK l \in Loading : /\ l = "on" => result[r].loading = "on"
                              /\ result' = [result EXCEPT ![r].loading = l]
      BY <2>5 DEF FetchRows, Loading
    <3> QED BY <2>3, <3>1
  <2>6. ASSUME NEW p \in pulls, LandPull(p)
        PROVE  \A x \in Result : Same(x)
    <3>1. CASE UNCHANGED result
      BY <2>1, <3>1
    <3>2. ASSUME NEW r \in Results,
                 result' = [result EXCEPT ![r].query = result[r].query, ![r].loading = "off",
                              ![r].copy = IF p.query = undefined THEN "good" ELSE @]
          PROVE  \A x \in Result : Same(x)
      BY <2>4, <3>2
    <3> QED BY <2>6, <3>1, <3>2, PullLands
  <2> QED BY <2>1, <2>2, <2>5, <2>6 DEF SelectTab, SelectResult, TogglePin, StartPull, vars
<1>3. \A x \in Result : ResultKept(x)
  BY <1>1, <1>2, ResultsAlone
<1>4. Tabs' = Tabs /\ Results' = Results
  BY <1>1 DEF Tabs, Results
<1>5. \A x \in Tabs' : SelectionKept(x) /\ TabKept(x)
  <2>1. CASE UNCHANGED tab
    BY <1>1, <1>4, <2>1, TabAlone
  <2>2. ASSUME NEW r \in Result, SelectResult(r) \/ TogglePin(r)
        PROVE  \A x \in Tabs' : SelectionKept(x) /\ TabKept(x)
    <3>1. /\ r \in Results /\ result[r].parent = ShownTab
          /\ tab' = [tab EXCEPT ![ShownTab].selectedResult = r]
      BY <2>2 DEF SelectResult, TogglePin, ResultsOf
    <3>2. ShownTab \in Tabs
      BY Lookups
    <3>3. r <= lastResult' /\ lastResult <= lastResult'
      BY <1>1, <3>1 DEF IdsOld
    <3> QED BY <1>1, <1>2, <1>4, <3>1, <3>2, <3>3, SelectsOwn
  <2> QED BY <2>1, <2>2 DEF SelectTab, FetchRows, StartPull, LandPull, vars
<1> QED
  BY <1>1, <1>3, <1>5, StatementsAlone DEF IsOfKind, Rearranges

\* What CloseOnlyResult does to its result before the clean-up.
Emptied(f, c) == [f EXCEPT ![c].pinned = FALSE, ![c].loading = "off"]

LEMMA EmptiedKeeps ==
  ASSUME NEW f \in [Result -> ResultData], NEW c \in Result
  PROVE  /\ Emptied(f, c) \in [Result -> ResultData]
         /\ \A x \in Result :
              /\ Emptied(f, c)[x].query = f[x].query /\ Emptied(f, c)[x].parent = f[x].parent
              /\ Emptied(f, c)[x].loading = "on" => f[x].loading = "on"
              /\ Emptied(f, c)[x].copy = f[x].copy
<1> DEFINE g == Emptied(f, c)
<1>1. g = [f EXCEPT ![c] = [f[c] EXCEPT !.pinned = FALSE, !.loading = "off"]]
  BY DEF Emptied
<1> HIDE DEF g
<1>2. f[c] \in ResultData
  OBVIOUS
<1>3. [f[c] EXCEPT !.pinned = FALSE, !.loading = "off"] \in ResultData
  BY <1>2 DEF ResultData, Loading
<1>4. /\ g[c].query = f[c].query /\ g[c].parent = f[c].parent /\ g[c].loading = "off"
      /\ g[c].copy = f[c].copy
      /\ \A x \in Result : x # c => g[x] = f[x]
  BY <1>1, <1>2 DEF ResultData
<1> QED
  BY <1>1, <1>3, <1>4 DEF g

LEMMA AddBesideRearranges ==
  ASSUME SteadyInv, TypeOK', NEW r \in Result,
         ShowObjects(r) \/ \E c \in Result : CloseOnlyResult(c, r)
  PROVE  IsOfKind
<1> USE SteadyTypes DEF SteadyInv, IInv
<1> DEFINE Adds(t, res) ==
      /\ tab' = [tab EXCEPT ![t].selectedResult = r]
      /\ UNCHANGED <<tabAt, query, lastTab>>
      /\ AddResult(res, t, r, NewResult(t))
      /\ \A x \in Result : /\ res[x].query = result[x].query /\ res[x].parent = result[x].parent
                           /\ res[x].loading = "on" => result[x].loading = "on"
                           /\ res[x].copy = result[x].copy
<1>1. PICK t \in Tabs, res \in [Result -> ResultData] : Adds(t, res)
  <2>1. CASE ShowObjects(r)
    BY <2>1, Types DEF ShowObjects
  <2>2. ASSUME NEW c \in Result, CloseOnlyResult(c, r)
        PROVE  \E t \in Tabs, res \in [Result -> ResultData] : Adds(t, res)
    <3>1. result \in [Result -> ResultData] /\ c \in Result
      BY Types
    <3> DEFINE g == Emptied(result, c)
    <3>2. /\ tab' = [tab EXCEPT ![ShownTab].selectedResult = r]
          /\ UNCHANGED <<tabAt, query, lastTab>>
          /\ AddResult(g, ShownTab, r, NewResult(ShownTab))
      BY <2>2 DEF CloseOnlyResult, Emptied
    <3>3. /\ g \in [Result -> ResultData]
          /\ \A x \in Result : /\ g[x].query = result[x].query /\ g[x].parent = result[x].parent
                               /\ g[x].loading = "on" => result[x].loading = "on"
                               /\ g[x].copy = result[x].copy
      BY ONLY <3>1, EmptiedKeeps
    <3>4. ShownTab \in Tabs
      BY Lookups
    <3> HIDE DEF g
    <3> QED BY <3>2, <3>3, <3>4
  <2> QED BY <2>1, <2>2
<1> DEFINE new == NewResult(t)
<1>2. /\ new \in ResultData /\ new.parent = t /\ new.query = undefined
      /\ new.loading # "on" /\ new.copy # "failed"
  BY DEF NewResult, NoResult, ResultData, Loading
<1> HIDE DEF new
<1>3. /\ r \notin Results /\ r \in Results' /\ r = lastResult' /\ result'[r] = new
      /\ \A x \in Result \ {r} : ResultKept(x)
      /\ \A x \in Results \ Results' : HasError(x) \/ result[x].parent = t
  <2>1. r \in Result /\ res \in [Result -> ResultData]
    OBVIOUS
  <2>2. AddResult(res, t, r, new)
    BY <1>1 DEF new
  <2> QED BY ONLY SteadyInv, TypeOK', <1>1, <1>2, <2>1, <2>2, AddResultKeeps
<1>4. ResultKept(r)
  BY <1>2, <1>3 DEF ResultKept
<1>5. \A x \in Tabs' : SelectionKept(x) /\ TabKept(x)
  <2>1. lastResult <= lastResult' /\ r <= lastResult'
    BY <1>1, <1>3 DEF AddResult
  <2> QED BY <1>1, <1>2, <1>3, <2>1, SelectsOwn
<1> QED
  BY <1>1, <1>3, <1>4, <1>5, StatementsAlone DEF IsOfKind, Rearranges

LEMMA CloseRearranges ==
  ASSUME SteadyInv, TypeOK', NEW r \in Result, NEW s \in Result, CloseResult(r, s)
  PROVE  IsOfKind
<1> USE SteadyTypes DEF SteadyInv, IInv
<1>1. /\ r \in Results /\ s \in Results /\ r # s /\ result[s].parent = ShownTab
      /\ tab' = [tab EXCEPT ![ShownTab].selectedResult = s]
      /\ result' = [result EXCEPT ![r] = NoResult]
      /\ resultAt' = Drop(resultAt, {r})
      /\ UNCHANGED <<tabAt, selectedTabId, query, pulls, lastTab, lastResult>>
      /\ result[r].parent = ShownTab
  BY DEF CloseResult, ResultsOf, Neighbour
<1>2. Results' = Results \ {r}
  <2>1. resultAt \in Arrays(Result) /\ Dense(resultAt) /\ {r} \in SUBSET Live(resultAt)
    BY <1>1, Types DEF LookupsLand, Results
  <2> QED BY <1>1, <2>1, DropElements DEF Results
<1>3. \A x \in Result \ {r} : result'[x] = result[x]
  BY <1>1, Types
<1>4. result'[r].query = undefined /\ result'[r].loading = "off" /\ result'[r].copy = "blank"
  BY <1>1, Types DEF NoResult
<1>5. \A x \in Result : ResultKept(x)
  BY <1>2, <1>3, <1>4 DEF ResultKept, GoneShowNothing, NoFailedCopy
<1>6. \A x \in Tabs' : SelectionKept(x) /\ TabKept(x)
  <2>1. ShownTab \in Tabs
    BY Lookups
  <2>2. s <= lastResult' /\ lastResult <= lastResult'
    BY <1>1 DEF IdsOld
  <2>3. s \in Results' /\ result'[s].parent = ShownTab
    BY <1>1, <1>2, <1>3
  <2> QED BY <1>1, <1>2, <2>1, <2>2, <2>3, SelectsOwn
<1> QED
  BY <1>1, <1>5, <1>6, StatementsAlone DEF IsOfKind, Rearranges

\* The only tab whose selection createTab misplaces is the first one.
LEMMA NewTabRearranges ==
  ASSUME SteadyInv, TypeOK', Moves, NEW t \in Tab, NEW r \in Result,
         CreateTab(t, r) \/ ReplaceTab(t, r)
  PROVE  IsOfKind
<1> USE SteadyTypes DEF SteadyInv, IInv
<1>1. /\ t = lastTab + 1 /\ UNCHANGED query /\ AddResult(result, t, r, NewResult(t))
  BY DEF CreateTab, ReplaceTab, AddTab
<1> DEFINE new == NewResult(t)
           f == Lookup(tabAt, t)
<1>2. /\ new \in ResultData /\ new.parent = t /\ new.query = undefined
      /\ new.loading # "on" /\ new.copy # "failed"
  BY DEF NewResult, NoResult, ResultData, Loading
<1> HIDE DEF new
<1>3. /\ r \notin Results /\ r \in Results' /\ r = lastResult' /\ result'[r] = new
      /\ \A x \in Result \ {r} : ResultKept(x)
      /\ \A x \in Results \ Results' : HasError(x) \/ result[x].parent = t
  <2>1. result \in [Result -> ResultData] /\ r \in Result
    BY Types
  <2>2. AddResult(result, t, r, new)
    BY <1>1 DEF new
  <2> QED BY ONLY SteadyInv, TypeOK', <1>2, <2>1, <2>2, AddResultKeeps
<1>4. ResultKept(r)
  BY <1>2, <1>3 DEF ResultKept
<1>5. lastResult <= lastResult'
  BY <1>1 DEF AddResult
<1>6. t \notin Tabs
  BY <1>1 DEF IdsOld
<1>7. f \in Tabs /\ tabAt[f] = 0
  BY <1>6, Types, LookupLive DEF LookupsLand, Tabs
<1>8. ASSUME tab'[t] = NewTab(r)
      PROVE  SelectionKept(t) /\ TabKept(t)
  BY <1>2, <1>3, <1>8 DEF SelectionKept, TabKept, NewTab, NoTab
<1>9. ASSUME NEW x \in Tabs, x \in Tabs', tab'[x] = tab[x]
      PROVE  SelectionKept(x) /\ TabKept(x)
  <2>1. x # t /\ x # lastTab + 1
    BY <1>1, <1>6
  <2>2. tabAt'[x] <= tabAt[x] /\ tabAt'[x] \in Nat
    BY <1>9, <2>1 DEF Moves, TabsMove
  <2> QED BY <1>3, <1>5, <1>9, <2>1, <2>2, TabAlone
<1>10. ASSUME NEW x \in Tabs, x \in Tabs', tabAt[x] = 0, tab'[x].loading = tab[x].loading,
              tab'[x].selectedResult \in {r, tab[x].selectedResult}
       PROVE  SelectionKept(x) /\ TabKept(x)
  <2>1. tabAt'[x] = 0
    <3>1. x # lastTab + 1
      BY <1>1, <1>6
    <3>2. tabAt'[x] <= 0 /\ tabAt'[x] \in Nat
      BY <1>10, <3>1 DEF Moves, TabsMove
    <3> QED BY <3>2
  <2>2. tab'[x].selectedResult <= lastResult'
    <3>1. CASE tab'[x].selectedResult = r
      BY <1>3, <3>1
    <3>2. CASE tab'[x].selectedResult = tab[x].selectedResult
      BY <1>5, <3>2 DEF SelectedOld
    <3> QED BY <1>10, <3>1, <3>2
  <2> QED BY <1>10, <2>1, <2>2 DEF SelectionKept, TabKept
<1>11. CASE CreateTab(t, r)
  <2>1. /\ tabAt' = Push(tabAt, t)
        /\ tab' = [tab EXCEPT ![f].selectedResult = r, ![t] = NewTab(r)]
    BY <1>11 DEF CreateTab
  <2> HIDE DEF f
  <2>2. Tabs' = Tabs \cup {t}
    <3>1. tabAt \in Arrays(Tab) /\ Dense(tabAt)
      BY Types DEF LookupsLand
    <3> QED BY <1>6, <2>1, <3>1, PushElements DEF Tabs
  <2>3. /\ tab'[t] = NewTab(r)
        /\ tab'[f].selectedResult = r /\ tab'[f].loading = tab[f].loading
        /\ \A x \in Tab \ {t, f} : tab'[x] = tab[x]
    BY <1>6, <1>7, <2>1, Types DEF TabData
  <2>4. \A x \in Tabs' : SelectionKept(x) /\ TabKept(x)
    BY <1>7, <1>8, <1>9, <1>10, <2>2, <2>3
  <2> QED BY <1>1, <1>3, <1>4, <2>4, StatementsAlone DEF IsOfKind, Rearranges
<1>12. CASE ReplaceTab(t, r)
  <2> DEFINE u == selectedTabId
  <2>1. /\ Own = {u}
        /\ tabAt' = Drop(Push(tabAt, t), {u})
        /\ tab' = [tab EXCEPT ![f].selectedResult = r, ![u] = NoTab, ![t] = NewTab(r)]
    BY <1>12 DEF ReplaceTab
  <2> HIDE DEF f, u
  <2>2. u \in Tabs /\ tabAt[u] > 0 /\ \A x \in Tabs : x # u => tabAt[x] = 0
    BY <2>1 DEF Own
  <2>3. Tabs' = (Tabs \cup {t}) \ {u}
    <3>1. tabAt \in Arrays(Tab) /\ Dense(tabAt)
      BY Types DEF LookupsLand
    <3>2. /\ Push(tabAt, t) \in Arrays(Tab) /\ Dense(Push(tabAt, t))
          /\ Live(Push(tabAt, t)) = Tabs \cup {t}
      BY <1>6, <3>1, PushElements, PushDense DEF Tabs
    <3>3. {u} \in SUBSET Live(Push(tabAt, t))
      BY <2>2, <3>2
    <3> QED BY <2>1, <3>2, <3>3, DropElements DEF Tabs
  <2>4. u # t /\ f # u /\ f # t
    BY <1>6, <1>7, <2>2
  <2>5. /\ tab'[t] = NewTab(r)
        /\ tab'[f].selectedResult = r /\ tab'[f].loading = tab[f].loading
        /\ \A x \in Tab \ {t, f, u} : tab'[x] = tab[x]
    BY <1>7, <2>1, <2>4, Types DEF TabData
  <2>6. \A x \in Tabs' : SelectionKept(x) /\ TabKept(x)
    BY <1>7, <1>8, <1>9, <1>10, <2>3, <2>5
  <2> QED BY <1>1, <1>3, <1>4, <2>6, StatementsAlone DEF IsOfKind, Rearranges
<1> QED
  BY <1>11, <1>12 DEF CreateTab, ReplaceTab

LEMMA DeleteTabRearranges ==
  ASSUME SteadyInv, TypeOK', Moves, NEW t \in Tab, DeleteTab(t)
  PROVE  IsOfKind
<1> USE SteadyTypes DEF SteadyInv, IInv
<1>1. /\ t \in Tabs
      /\ tabAt' = Drop(tabAt, {t})
      /\ tab' = [tab EXCEPT ![t] = NoTab]
      /\ UNCHANGED <<resultAt, result, query, pulls, lastTab, lastResult>>
  BY DEF DeleteTab, Own
<1>2. Tabs' = Tabs \ {t}
  <2>1. tabAt \in Arrays(Tab) /\ Dense(tabAt) /\ {t} \in SUBSET Live(tabAt)
    BY <1>1, Types DEF LookupsLand, Tabs
  <2> QED BY <1>1, <2>1, DropElements DEF Tabs
<1>3. \A x \in Tabs' : SelectionKept(x) /\ TabKept(x)
  <2> SUFFICES ASSUME NEW x \in Tabs'
               PROVE  SelectionKept(x) /\ TabKept(x)
    OBVIOUS
  <2>1. x \in Tabs /\ tab'[x] = tab[x]
    BY <1>1, <1>2, Types
  <2>2. lastResult <= lastResult' /\ Results' = Results
    BY <1>1 DEF Results
  <2>3. tabAt'[x] <= tabAt[x] /\ tabAt'[x] \in Nat
    <3>1. x # lastTab + 1
      BY <2>1 DEF IdsOld
    <3> QED BY <3>1 DEF Moves, TabsMove
  <2> QED BY <2>1, <2>2, <2>3, TabAlone
<1>4. \A x \in Result : ResultKept(x)
  BY <1>1, ResultsAlone
<1> QED
  BY <1>1, <1>3, <1>4, StatementsAlone DEF IsOfKind, Rearranges

-----------------------------------------------------------------------------
\* Every step of the panel is of one of the three kinds.
LEMMA NextOfKind ==
  ASSUME SteadyInv, TypeOK', Moves, [SessionNext]_vars
  PROVE  IsOfKind
<1>1. ASSUME NEW q \in Query, Refresh(q) PROVE IsOfKind
  BY <1>1, RefreshAsks
<1>2. ASSUME NEW q \in Query, Settle(q) PROVE IsOfKind
  BY <1>2, SettleReplies
<1>3. ASSUME NEW r \in Result, Add(r) PROVE IsOfKind
  BY <1>3, ExecuteAsks, AddBesideRearranges, NewTabRearranges DEF Add
<1>4. ASSUME NEW r \in Result, SelectResult(r) \/ TogglePin(r) \/ FetchRows(r) \/ StartPull(r)
      PROVE  IsOfKind
  BY <1>4, ViewRearranges
<1>5. ASSUME NEW r \in Result, NEW s \in Result, CloseResult(r, s) PROVE IsOfKind
  BY <1>5, CloseRearranges
<1>6. ASSUME NEW t \in Tab \cup {stray}, SelectTab(t) PROVE IsOfKind
  BY <1>6, ViewRearranges
<1>7. ASSUME NEW t \in Tab \cup {stray}, DeleteTab(t) PROVE IsOfKind
  <2>1. t \in Tab
    BY <1>7, Types DEF DeleteTab, Own, SteadyInv, IInv
  <2> QED BY <1>7, <2>1, DeleteTabRearranges
<1>8. ASSUME NEW p \in pulls, LandPull(p) PROVE IsOfKind
  BY <1>8, ViewRearranges
<1>9. CASE UNCHANGED vars
  BY <1>9, ViewRearranges
<1> QED
  BY <1>1, <1>2, <1>3, <1>4, <1>5, <1>6, <1>7, <1>8, <1>9 DEF SessionNext

LEMMA SteadyStep ==
  ASSUME SteadyInv, [SessionNext /\ Steady']_vars
  PROVE  SteadyInv' /\ IsOfKind
<1>1. IInv /\ [SessionNext]_vars
  BY DEF SteadyInv
<1>2. TypeOK' /\ Moves /\ IInv'
  BY <1>1, SessionMoves, MovesPreserve
<1>3. Steady'
  BY DEF SteadyInv, vars, Steady, Exact, PullExact, Running, Results, Tabs
<1>4. IsOfKind
  BY <1>1, <1>2, NextOfKind
<1> QED
  BY <1>2, <1>3, <1>4, KindsPreserve

LEMMA InitSteady == Init => SteadyInv
<1> SUFFICES ASSUME Init PROVE SteadyInv
  OBVIOUS
<1>1. IInv
  BY InitInvariant
<1>2. 1 \in Tab /\ 1 \in Result
  BY BoundsAssumption DEF Tab, Result
<1>3. Running = {}
  BY DEF Init, Running, Unused
<1>4. \A r \in Result : /\ result[r].query = undefined /\ result[r].loading = "off"
                        /\ result[r].copy = "blank"
  BY DEF Init, NewResult, NoResult
<1>5. \A t \in Tab : ~ tab[t].loading /\ tab[t].selectedResult <= 1
  BY DEF Init, NewTab, NoTab, undefined
<1>6. \A t \in Tab : tabAt[t] \in {0, Absent}
  BY DEF Init
<1>7. Steady /\ Waited
  BY <1>3 DEF Steady, Waited, Init
<1>8. UnusedAskNothing /\ GoneShowNothing /\ NoFailedCopy /\ SelectedOld
  BY <1>4, <1>5 DEF UnusedAskNothing, GoneShowNothing, NoFailedCopy, SelectedOld, Init, Unused,
                    Tabs, Live
<1>9. Tabs \subseteq Tab /\ Results \subseteq Result
  BY <1>1, Types DEF IInv
<1>10. OwnAnswers /\ SpinnerRuns /\ TabSpinnerRuns
  BY <1>4, <1>5, <1>9 DEF OwnAnswers, SpinnerRuns, TabSpinnerRuns
<1>11. ForeignOnlyAfterError
  BY <1>6, <1>9 DEF ForeignOnlyAfterError, Own, Absent
<1> QED
  BY <1>1, <1>7, <1>8, <1>10, <1>11 DEF SteadyInv, Shows

\* The invariant of the panel while every handle points at what it was taken for.
THEOREM SteadyInvariant == SteadySpec => []SteadyInv
<1>1. SteadyInv /\ [SessionNext /\ Steady']_vars => SteadyInv'
  BY SteadyStep
<1> QED
  BY <1>1, InitSteady, PTL DEF SteadySpec

\* Every result shows a statement submitted for it: no answer lands elsewhere.
THEOREM AnswersAreOwn == SteadySpec => []OwnAnswers
<1>1. SteadyInv => OwnAnswers
  BY DEF SteadyInv, Shows
<1> QED
  BY <1>1, SteadyInvariant, PTL

\* A spinner submitQuery started stands for the statement the result shows, still
\* running.
THEOREM ResultSpinnersRun == SteadySpec => []SpinnerRuns
<1>1. SteadyInv => SpinnerRuns
  BY DEF SteadyInv, Shows
<1> QED
  BY <1>1, SteadyInvariant, PTL

\* The spinner of a worksheet stands for a running statement of its own.
THEOREM WorksheetSpinnersRun == SteadySpec => []TabSpinnerRuns
<1>1. SteadyInv => TabSpinnerRuns
  BY DEF SteadyInv, Shows
<1> QED
  BY <1>1, SteadyInvariant, PTL

\* A worksheet of the connection shows a result of its own, or had one whose
\* statement failed cleaned up.
THEOREM ForeignResultsAfterErrors == SteadySpec => []ForeignOnlyAfterError
<1>1. SteadyInv => ForeignOnlyAfterError
  BY DEF SteadyInv, Shows
<1> QED
  BY <1>1, SteadyInvariant, PTL

-----------------------------------------------------------------------------
(***************************************************************************)
(* The refinement: each kind of step is a step of the board.               *)
(***************************************************************************)

\* Statements that wait still have their result after the step.
LEMMA StepArranges ==
  ASSUME SteadyInv, SteadyInv', NEW Q, \A p \in Running \ Q : StatementKept(p)
  PROVE  /\ Results' \subseteq Result
         /\ \A p \in Running \ Q : query[p].of \in Results'
<1>1. TypeOK /\ TypeOK'
  BY DEF SteadyInv, IInv
<1> QED
  BY <1>1, SteadyTypes DEF SteadyInv, Waited, StatementKept

LEMMA AskIsAsk ==
  ASSUME SteadyInv, SteadyInv', NEW q \in Query, NEW r \in Result, NEW t \in Tab, Asks(q, r, t)
  PROVE  Board!Ask(q, r)
<1>1. TypeOK /\ TypeOK'
  BY DEF SteadyInv, IInv
<1> USE <1>1, SteadyTypes
<1>2. query[q].of = undefined /\ q \notin Running
  BY DEF SteadyInv, Asks, UnusedAskNothing, Running
<1>3. [p \in Query |-> query'[p].of] = [[p \in Query |-> query[p].of] EXCEPT ![q] = r]
  BY DEF Asks, StatementKept
<1>4. Running' = Running \cup {q}
  BY DEF Asks, StatementKept
<1>5. Results' \subseteq Result /\ \A p \in Running : query[p].of \in Results'
  BY <1>2, StepArranges DEF Asks
<1>6. [x \in Result |-> result'[x].query] \in [Result -> Query \cup {undefined}]
  BY DEF ResultData
<1>7. \A x \in Result \ {r} :
        result'[x].query = IF x \in Results \cap Results' THEN result[x].query ELSE undefined
  BY DEF Asks, ResultKept
<1>8. Results' = Results' /\ r \in Results' /\ result'[r].query = q
  BY DEF Asks
<1> QED
  BY <1>2, <1>3, <1>4, <1>5, <1>6, <1>7, <1>8 DEF Board!Ask, Board!Arrange, Board!Untouched

LEMMA ReplyIsReply ==
  ASSUME SteadyInv, SteadyInv', NEW q \in Query, NEW r \in Result, NEW t \in Tab, Replies(q, r, t)
  PROVE  Board!Reply(q)
<1>1. TypeOK /\ TypeOK'
  BY DEF SteadyInv, IInv
<1> USE <1>1, SteadyTypes
<1>2. q \in Running /\ query[q].of = r
  BY DEF Replies
<1>3. [p \in Query |-> query'[p].of] = [p \in Query |-> query[p].of]
  BY DEF Replies, StatementKept
<1>4. Running' = Running \ {q}
  BY DEF Replies, StatementKept
<1>5. Results' = Results
  BY DEF Replies, Results
<1>6. \A x \in Result \ {r} : result'[x].query = result[x].query
  <2> SUFFICES ASSUME NEW x \in Result \ {r}
               PROVE  result'[x].query = result[x].query
    OBVIOUS
  <2>1. ResultKept(x)
    BY DEF Replies
  <2> QED BY <1>5, <2>1 DEF ResultKept, SteadyInv, GoneShowNothing
<1>7. result'[r].query \in {q, result[r].query}
  BY DEF Replies
<1>8. \/ [x \in Result |-> result'[x].query] = [[x \in Result |-> result[x].query] EXCEPT ![r] = q]
      \/ [x \in Result |-> result'[x].query] = [x \in Result |-> result[x].query]
  BY <1>6, <1>7
<1>9. [p \in Query |-> query[p].of][q] = r
  BY <1>2
<1> QED
  BY <1>2, <1>3, <1>4, <1>5, <1>8, <1>9 DEF Board!Reply

LEMMA RearrangingRearranges ==
  ASSUME SteadyInv, SteadyInv', Rearranges
  PROVE  Board!Rearrange
<1>1. TypeOK /\ TypeOK'
  BY DEF SteadyInv, IInv
<1> USE <1>1, SteadyTypes
<1>2. [p \in Query |-> query'[p].of] = [p \in Query |-> query[p].of]
  BY DEF Rearranges, StatementKept
<1>3. Running' = Running
  BY DEF Rearranges, StatementKept
<1>4. Results' \subseteq Result /\ \A p \in Running : query[p].of \in Results'
  BY StepArranges DEF Rearranges
<1>5. [x \in Result |-> result'[x].query] \in [Result -> Query \cup {undefined}]
  BY DEF ResultData
<1>6. \A x \in Result :
        result'[x].query = IF x \in Results \cap Results' THEN result[x].query ELSE undefined
  BY DEF Rearranges, ResultKept
<1> QED
  BY <1>2, <1>3, <1>4, <1>5, <1>6 DEF Board!Rearrange, Board!Arrange, Board!Untouched

\* The panel answers in the right place: it implements AnswerBoard.
THEOREM ImplementsBoard == SteadySpec => BoardSafety
<1>1. Init => Board!Init
  <2> SUFFICES ASSUME Init PROVE Board!Init
    OBVIOUS
  <2>1. Results \subseteq Result
    BY InitSteady, Types DEF SteadyInv, IInv
  <2>2. [r \in Result |-> result[r].query] = [r \in Result |-> undefined]
    BY DEF Init, NewResult, NoResult
  <2>3. [q \in Query |-> query[q].of] = [q \in Query |-> undefined]
    BY DEF Init, Unused
  <2>4. Running = {}
    BY DEF Init, Running, Unused
  <2> QED BY <2>1, <2>2, <2>3, <2>4 DEF Board!Init
<1>2. SteadyInv /\ [SessionNext /\ Steady']_vars => [Board!Next]_Board!vars
  <2> SUFFICES ASSUME SteadyInv, [SessionNext /\ Steady']_vars
               PROVE  Board!Next
    OBVIOUS
  <2>1. SteadyInv' /\ IsOfKind
    BY SteadyStep
  <2>2. ASSUME NEW q \in Query, NEW r \in Result, NEW t \in Tab, Asks(q, r, t)
        PROVE  Board!Next
    BY <2>1, <2>2, AskIsAsk DEF Board!Next
  <2>3. ASSUME NEW q \in Query, NEW r \in Result, NEW t \in Tab, Replies(q, r, t)
        PROVE  Board!Next
    BY <2>1, <2>3, ReplyIsReply DEF Board!Next
  <2>4. CASE Rearranges
    BY <2>1, <2>4, RearrangingRearranges DEF Board!Next
  <2> QED BY <2>1, <2>2, <2>3, <2>4 DEF IsOfKind
<1> QED
  BY <1>1, <1>2, SteadyInvariant, PTL DEF SteadySpec, BoardSafety, Board!Safety
=============================================================================
