----------------------------- MODULE Worksheets ------------------------------
(***************************************************************************)
(* The worksheets (tabs) of several dbNet windows, one connection each:    *)
(* the selection, hidden and deleted worksheets, the one stored session    *)
(* every window saves to and loads from (state.ts, TabNames.tsx,           *)
(* WorkPanel.tsx, Default.tsx), and the broadcasts that copy worksheets    *)
(* from window to window.                                                  *)
(*                                                                         *)
(* save posts all visible worksheets of the window, own and copied; the    *)
(* server keeps the last session posted.  When the answer is there, the    *)
(* window broadcasts the worksheets of its own connection as they are      *)
(* then.  Saves, answers, broadcasts, loads and users interleave freely.   *)
(*                                                                         *)
(* Results are left to QueryPanel, and so is renaming, which changes no    *)
(* id.  A connection has one database.  Index 0 of tabs always holds the   *)
(* worksheet Q1 of the first session, which has no connection and is shown *)
(* nowhere; it is left out, and undefined stands for its id.               *)
(***************************************************************************)
EXTENDS HsArray, Sequences

CONSTANTS
  Window, Conn,
  conn,        \* the connection a window was opened for
  Tab, of,     \* worksheet ids, and the connection each is made for
  maxEdits, maxMessages,   \* bounds of a model: edits of all texts, broadcasts in flight
  folder,      \* the id of the Work panel's node "Worksheets", which no worksheet has
  undefined

ASSUME ConnAssumption == conn \in [Window -> Conn] /\ of \in [Tab -> Conn]
ASSUME UndefinedAssumption == undefined \notin Tab \cup {folder} /\ folder \notin Tab
ASSUME BoundsAssumption == maxEdits \in Nat /\ maxMessages \in Nat /\ IsFiniteSet(Tab)

VARIABLES
  panel,   \* window -> its queryPanel and selectedConnectionTab (last)
  up,      \* window -> "off", "booting" (init awaits), "on"
  fetch,   \* window -> the session a load in flight will bring, or NotLoading
  row,     \* the stored session
  post,    \* window -> its save in flight
  chan,    \* window -> broadcasts it has not handled yet
  used,    \* ids given out
  edits,   \* number of edits so far: the text of a worksheet is its last edit
  stale    \* window -> deleted worksheets the tree of the Work panel still lists

vars == <<panel, up, fetch, row, post, chan, used, edits, stale>>

-----------------------------------------------------------------------------
Panel == [at : [Tab -> Nat \cup {Absent}], hidden : [Tab -> BOOLEAN], text : [Tab -> Nat],
          selected : Tab \cup {folder, undefined}, last : [Conn -> Tab \cup {folder, undefined}]]

\* QueryPanelState and WorkspaceState without a stored session.
Blank == [at |-> [t \in Tab |-> Absent], hidden |-> [t \in Tab |-> FALSE],
          text |-> [t \in Tab |-> 0],
          selected |-> undefined, last |-> [c \in Conn |-> undefined]]

NotLoading == undefined
NotSaving  == [status |-> "idle", data |-> Blank]

Tabs(p)       == Live(p.at)
Visible(p)    == {t \in Tabs(p) : ~p.hidden[t]}
Of(c)         == {t \in Tab : of[t] = c}
NewTab(c)     == CHOOSE t \in Of(c) : t \notin used     \* of those left, if any
Own(w)        == Tabs(panel[w]) \cap Of(conn[w])     \* getCurrConnectionsTabs
OwnVisible(w) == Visible(panel[w]) \cap Of(conn[w])

\* The session is stored without hidden worksheets; a broadcast holds those of
\* one connection.
Payload(p, tabs) ==
  [p EXCEPT !.at = Drop(p.at, Tabs(p) \ tabs),
            !.hidden = Blank.hidden,
            !.text = [t \in Tab |-> IF t \in tabs THEN p.text[t] ELSE 0]]

TypeOK ==
  /\ panel \in [Window -> Panel]
  /\ up \in [Window -> {"off", "booting", "on"}]
  /\ fetch \in [Window -> Panel \cup {NotLoading}]
  /\ row \in Panel
  /\ post \in [Window -> [status : {"idle", "sent", "orphan", "answered"}, data : Panel]]
  /\ chan \in [Window -> Seq([conn : Conn, at : [Tab -> Nat \cup {Absent}], text : [Tab -> Nat]])]
  /\ used \subseteq Tab /\ edits \in Nat /\ stale \in [Window -> SUBSET Tab]
  /\ Dense(row.at) /\ \A w \in Window : Dense(panel[w].at)

Init ==
  /\ panel = [w \in Window |-> Blank]
  /\ up = [w \in Window |-> "off"]
  /\ fetch = [w \in Window |-> NotLoading]
  /\ row = Blank
  /\ post = [w \in Window |-> NotSaving]
  /\ chan = [w \in Window |-> <<>>]
  /\ used = {} /\ edits = 0
  /\ stale = [w \in Window |-> {}]

-----------------------------------------------------------------------------
(***************************************************************************)
(* Definitions named ...Bug are used by no other: each is the definition   *)
(* after it with a plausible programming error (a run with it must fail).  *)
(***************************************************************************)

\* selectTab(t): an id that is gone is selected as well, and Q1 unhidden.
Selected(p, w, t) ==
  [p EXCEPT !.hidden = [x \in Tab |-> p.hidden[x] /\ x # t],
            !.selected = t, !.last[conn[w]] = t]

\* The new worksheet t at the end, selected.
Created(p, w, t) == Selected([p EXCEPT !.at = Push(p.at, t)], w, t)

\* The tree of the Work panel is made anew when the selection changes.
Show(w, p, gone) ==
  /\ panel' = [panel EXCEPT ![w] = p]
  /\ stale' = [stale EXCEPT ![w] = IF p.selected = panel[w].selected THEN @ \cup gone ELSE {}]

\* The id of the new worksheet is taken (new_ts_id).
Give(c) == Of(c) \ used # {} /\ used' = used \cup {NewTab(c)}

\* createTab with a new name.
Create(w) ==
  /\ up[w] = "on"
  /\ Give(conn[w])
  /\ Show(w, Created(panel[w], w, NewTab(conn[w])), {})
  /\ UNCHANGED <<up, fetch, row, post, chan, edits>>

\* The tab bar and the Work panel, which lists hidden worksheets too.
Select(w, t) ==
  /\ up[w] = "on"
  /\ t \in Own(w)
  /\ Show(w, Selected(panel[w], w, t), {})
  /\ UNCHANGED <<up, fetch, row, post, chan, used, edits>>

\* A click on the node above them.
SelectFolder(w) ==
  /\ up[w] = "on"
  /\ Show(w, Selected(panel[w], w, folder), {})
  /\ UNCHANGED <<up, fetch, row, post, chan, used, edits>>

\* A click on a worksheet in the tree that has been deleted since.
SelectStale(w, t) ==
  /\ up[w] = "on"
  /\ t \in stale[w]
  /\ Show(w, Selected(panel[w], w, t), {})
  /\ UNCHANGED <<up, fetch, row, post, chan, used, edits>>

\* Typing in the editor of the selected worksheet.
Edit(w) ==
  LET t == panel[w].selected
  IN  /\ up[w] = "on" /\ t \in Tabs(panel[w])
      /\ edits < maxEdits
      /\ edits' = edits + 1
      /\ panel' = [panel EXCEPT ![w].text[t] = edits']
      /\ UNCHANGED <<up, fetch, row, post, chan, used, stale>>

-----------------------------------------------------------------------------
First(p, tabs)  == CHOOSE x \in tabs : \A y \in tabs : p.at[x] <= p.at[y]
Previous(p, tabs, t) == {x \in tabs : p.at[x] < p.at[t]
                                   /\ \A y \in tabs : p.at[y] < p.at[t] => p.at[y] <= p.at[x]}

\* The selection stays.
CloseBug(w, t) ==
  /\ up[w] = "on"
  /\ t \in OwnVisible(w)
  /\ Show(w, [panel[w] EXCEPT !.hidden[t] = TRUE], {})
  /\ UNCHANGED <<up, fetch, row, post, chan, used, edits>>

\* hideTab, from the tab bar (if no worksheet is selected, its button Close selects
\* the first visible one, and throws): the selected worksheet gives way to the visible
\* one before it, or to the first one.  In the end the selected one is selected
\* again, which unhides it: the first worksheet, if selected, cannot be closed.
Close(w, t) ==
  LET p    == panel[w]
      prev == Previous(p, OwnVisible(w), t)
      next == IF t # p.selected THEN p.selected
              ELSE IF prev # {} THEN CHOOSE x \in prev : TRUE
              ELSE First(p, OwnVisible(w))
  IN  /\ up[w] = "on"
      /\ t \in OwnVisible(w)
      /\ Show(w, Selected([Selected(p, w, next) EXCEPT !.hidden[t] = TRUE], w, next), {})
      /\ UNCHANGED <<up, fetch, row, post, chan, used, edits>>

\* The selection stays with the deleted worksheet.
DeleteBug(w, t) ==
  /\ up[w] = "on"
  /\ t \in Own(w)
  /\ Show(w, [panel[w] EXCEPT !.at = Drop(@, {t}), !.text[t] = 0, !.hidden[t] = FALSE], {t})
  /\ UNCHANGED <<up, fetch, row, post, chan, used, edits>>

\* deleteTab.  No other window hears of it.
Remove(p, t) == [p EXCEPT !.at = Drop(@, {t}), !.text[t] = 0, !.hidden[t] = FALSE]

Delete(w, t) ==
  LET p    == panel[w]
      rest == Own(w) \ {t}
  IN  /\ up[w] = "on"
      /\ t \in Own(w)
      /\ \/ /\ t # p.selected
            /\ Show(w, Remove(p, t), {t})
            /\ UNCHANGED used
         \/ /\ t = p.selected /\ rest # {}
            /\ Show(w, Remove(Selected(p, w, First(p, rest)), t), {t})
            /\ UNCHANGED used
         \/ /\ t = p.selected /\ rest = {}
            /\ Give(conn[w])
            /\ Show(w, Remove(Created(p, w, NewTab(conn[w])), t), {t})
      /\ UNCHANGED <<up, fetch, row, post, chan, edits>>

-----------------------------------------------------------------------------
\* save, up to its await.  A window has one save in flight (a bound).
Save(w) ==
  /\ up[w] = "on" /\ post[w].status = "idle"
  /\ post' = [post EXCEPT ![w] = [status |-> "sent", data |-> Payload(panel[w], Visible(panel[w]))]]
  /\ UNCHANGED <<panel, up, fetch, row, chan, used, edits, stale>>

\* PostSaveSession: the session replaces the one stored.  The answer to a
\* window that is gone is lost, and so is every broadcast of it.
Store(w) ==
  /\ post[w].status \in {"sent", "orphan"}
  /\ row' = post[w].data
  /\ post' = [post EXCEPT ![w] = [status |-> IF @.status = "sent" THEN "answered" ELSE "idle",
                                  data |-> Blank]]
  /\ UNCHANGED <<panel, up, fetch, chan, used, edits, stale>>

\* The request fails: the rest of save runs all the same.
Lose(w) ==
  /\ post[w].status \in {"sent", "orphan"}
  /\ post' = [post EXCEPT ![w] = [status |-> IF @.status = "sent" THEN "answered" ELSE "idle",
                                  data |-> Blank]]
  /\ UNCHANGED <<panel, up, fetch, row, chan, used, edits, stale>>

\* The copies of other windows' worksheets are broadcast as well.
MessageBug(w) ==
  LET p == Payload(panel[w], Visible(panel[w]))
  IN  [conn |-> conn[w], at |-> p.at, text |-> p.text]

Message(w) ==
  LET p == Payload(panel[w], OwnVisible(w))
  IN  [conn |-> conn[w], at |-> p.at, text |-> p.text]

\* Nobody hears of a save.
BroadcastBug(w) ==
  /\ post[w].status = "answered"
  /\ post' = [post EXCEPT ![w] = NotSaving]
  /\ UNCHANGED <<panel, up, fetch, row, chan, used, edits, stale>>

\* The rest of save, with the worksheets the window has now.
Broadcast(w) ==
  /\ post[w].status = "answered"
  /\ \A u \in Window : Len(chan[u]) < maxMessages
  /\ chan' = [u \in Window |-> IF u # w /\ up[u] # "off" THEN Append(chan[u], Message(w))
                                                       ELSE chan[u]]
  /\ post' = [post EXCEPT ![w] = NotSaving]
  /\ UNCHANGED <<panel, up, fetch, row, used, edits, stale>>

\* All unknown worksheets get the same place.
MergeBug(p, m) ==
  [p EXCEPT !.at = [t \in Tab |-> IF t \in Live(m.at) \ Tabs(p) THEN Cardinality(Tabs(p))
                                                              ELSE p.at[t]]]

\* handleLocalTabResults: known worksheets are replaced where they are, unknown
\* ones appended in the order of the message.
Merge(p, m) ==
  LET new == Live(m.at) \ Tabs(p)
  IN  [p EXCEPT !.at = [t \in Tab |-> IF t \in new THEN Cardinality(Tabs(p)) + Before(m.at, new, t)
                                                  ELSE p.at[t]],
                !.hidden = [t \in Tab |-> p.hidden[t] /\ t \notin Live(m.at)],
                !.text = [t \in Tab |-> IF t \in Live(m.at) THEN m.text[t] ELSE p.text[t]]]

\* The onmessage callback.  A window ignores broadcasts of its own connection.
Receive(w) ==
  /\ chan[w] # <<>>
  /\ chan' = [chan EXCEPT ![w] = Tail(@)]
  /\ LET m == Head(chan[w])
     IN  panel' = IF m.conn = conn[w] THEN panel ELSE [panel EXCEPT ![w] = Merge(@, m)]
  /\ UNCHANGED <<up, fetch, row, post, used, stale, edits>>

-----------------------------------------------------------------------------
\* The page is opened or reloaded; what was in flight to and from it is lost, but
\* for a save already sent.  init asks for the session.
Boot(w) ==
  /\ panel' = [panel EXCEPT ![w] = Blank]
  /\ up' = [up EXCEPT ![w] = "booting"]
  /\ fetch' = [fetch EXCEPT ![w] = row]
  /\ chan' = [chan EXCEPT ![w] = <<>>]
  /\ post' = [post EXCEPT ![w] = IF @.status = "sent" THEN [@ EXCEPT !.status = "orphan"]
                                 ELSE IF @.status = "orphan" THEN @ ELSE NotSaving]
  /\ stale' = [stale EXCEPT ![w] = {}]
  /\ UNCHANGED <<row, used, edits>>

\* Init's selectTab(lastTabID) in panel p: the last one, else the one selected if
\* it is of the connection, else the first one that is, else a new one.
Opened(w, p) ==
  LET c   == conn[w]
      own == Tabs(p) \cap Of(c)
  IN  /\ p.last[c] # undefined \/ p.selected \in Tabs(p) \cup {undefined}
      /\ up' = [up EXCEPT ![w] = "on"]
      /\ \/ /\ p.last[c] # undefined
            /\ Show(w, Selected(p, w, p.last[c]), {})
            /\ UNCHANGED used
         \/ /\ p.last[c] = undefined /\ own # {}
            /\ Show(w, Selected(p, w, IF p.selected \in own THEN p.selected ELSE First(p, own)), {})
            /\ UNCHANGED used
         \/ /\ p.last[c] = undefined /\ own = {}
            /\ Give(c)
            /\ Show(w, Created(p, w, NewTab(c)), {})

\* The session arrives in a new window.
Open(w) ==
  /\ up[w] = "booting"
  /\ Opened(w, fetch[w])
  /\ fetch' = [fetch EXCEPT ![w] = NotLoading]
  /\ UNCHANGED <<row, post, chan, edits>>

\* Without a last worksheet, and with a selected id that is gone, Init throws.
OpenDangling(w) ==
  LET p == fetch[w]
  IN  /\ up[w] = "booting"
      /\ p.last[conn[w]] = undefined /\ p.selected \notin Tabs(p) \cup {undefined}
      /\ up' = [up EXCEPT ![w] = "on"]
      /\ Show(w, p, {})
      /\ fetch' = [fetch EXCEPT ![w] = NotLoading]
      /\ UNCHANGED <<row, post, chan, used, edits>>

\* The session does not arrive: Init goes on with what the window has.
OpenWithout(w) ==
  /\ up[w] = "booting"
  /\ Opened(w, panel[w])
  /\ fetch' = [fetch EXCEPT ![w] = NotLoading]
  /\ UNCHANGED <<row, post, chan, edits>>

\* The Load session button, and its answer.
AskLoad(w) ==
  /\ up[w] = "on" /\ fetch[w] = NotLoading
  /\ fetch' = [fetch EXCEPT ![w] = row]
  /\ UNCHANGED <<panel, up, row, post, chan, used, edits, stale>>

Load(w) ==
  /\ up[w] = "on" /\ fetch[w] # NotLoading
  /\ Show(w, fetch[w], {})
  /\ fetch' = [fetch EXCEPT ![w] = NotLoading]
  /\ UNCHANGED <<up, row, post, chan, used, edits>>

-----------------------------------------------------------------------------
User(w) ==
  \/ \E t \in Tab : Select(w, t) \/ Close(w, t) \/ Delete(w, t)
  \/ SelectFolder(w) \/ Create(w) \/ Edit(w) \/ Save(w)

Sync(w) == Store(w) \/ Lose(w) \/ Broadcast(w) \/ Receive(w)

\* Without the Load session button, failed loads, and clicks on nodes of the tree
\* whose worksheet is gone.
CalmNext == \E w \in Window : User(w) \/ Sync(w) \/ Boot(w) \/ Open(w) \/ OpenDangling(w)

Next ==
  \/ CalmNext
  \/ \E w \in Window : \/ AskLoad(w) \/ Load(w) \/ OpenWithout(w)
                       \/ \E t \in Tab : SelectStale(w, t)

Spec     == Init /\ [][Next]_vars
CalmSpec == Init /\ [][CalmNext]_vars

-----------------------------------------------------------------------------
\* A window shows a visible worksheet of its own connection, or none after a click
\* on the folder; and that is what it will show when it is opened again, unless the
\* folder was clicked in another connection's window.
SelectionExists ==
  \A w \in Window : up[w] = "on" =>
    /\ panel[w].selected \in OwnVisible(w) \cup {folder}
    /\ \/ panel[w].last[conn[w]] = panel[w].selected
       \/ panel[w].selected = folder /\ panel[w].last[conn[w]] = undefined

\* Wherever a session is, stored, on its way to the server or to a window, the
\* worksheets it selects, for every connection, are among those it holds, or were
\* left for the folder.
Coherent(s) ==
  /\ s.selected \in Tabs(s) \cup {folder} \/ s = Blank
  /\ \A c \in Conn : s.last[c] \in {folder, undefined} \cup (Tabs(s) \cap Of(c))

SessionsCoherent ==
  /\ Coherent(row)
  /\ \A w \in Window : /\ post[w].status \in {"sent", "orphan"} => Coherent(post[w].data)
                       /\ fetch[w] # NotLoading => Coherent(fetch[w])

\* A broadcast never touches the worksheets of the receiver's own connection,
\* whichever copies of them other windows hold.
OwnWorksheetsKept ==
  [][\A w \in Window : Receive(w) =>
       \A t \in Of(conn[w]) : /\ t \in Tabs(panel[w]) <=> t \in Tabs(panel[w]')
                              /\ panel'[w].text[t] = panel[w].text[t]
                              /\ panel'[w].hidden[t] = panel[w].hidden[t]]_vars

-----------------------------------------------------------------------------
(***************************************************************************)
(* What comments of the code say, and the code does not do.                *)
(***************************************************************************)
\* "delete selected tab": a visible worksheet that is closed is hidden.
CloseHides ==
  \A w \in Window, t \in Tab :
    OwnVisible(w) # {t} /\ ENABLED Close(w, t) => ENABLED (Close(w, t) /\ panel'[w].hidden[t])

\* "set init tab to current connection/database": an opened window shows one of
\* the worksheets of its connection.
InitTabOfConnection ==
  [][\A w \in Window : Open(w) => panel'[w].selected \in Tabs(panel'[w]) \cap Of(conn[w])]_vars
=============================================================================
