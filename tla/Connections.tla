----------------------------- MODULE Connections -----------------------------
(***************************************************************************)
(* One window loads its connections, their databases and the schemata of   *)
(* these, and the schema panel shows them (dbnet.ts, Default.tsx,          *)
(* SchemaPanel.tsx, ConnectionChooser.tsx).                                *)
(*                                                                         *)
(* Init, the panel, the choosers and two menus all start loads and wait    *)
(* for none but their own: a load holds what it read before its request,   *)
(* and its answer is written to what there is by then.  A second Init      *)
(* replaces the connections under the loads in flight.                     *)
(*                                                                         *)
(* Nothing stands for the empty name.  The panel's state lives as long as  *)
(* the panel is mounted, and setting it afterwards throws (hookstate); its *)
(* spinner belongs to the window.                                          *)
(***************************************************************************)
EXTENDS Naturals, Sequences, FiniteSets, SequencesExt

CONSTANTS
  Name, DB,
  databases,     \* the databases the server knows of a connection
  Listings,      \* lists of connections the server may answer with
  Tries,         \* attempts of loadConnections
  Nothing,
  MaxMoves, MaxJobs   \* bounds of a model: acts of the user, loads in flight

ASSUME NothingAssumption == Nothing \notin Name
ASSUME ServerAssumption == databases \in [Name -> SUBSET DB] /\ Listings \subseteq Seq(Name)
ASSUME BoundsAssumption == Tries \in Nat \ {0} /\ MaxMoves \in Nat /\ MaxJobs \in Nat \ {0}

VARIABLES
  list,       \* names of the connections, in order
  trees,      \* one entry per list ever loaded, the last for list: name -> its databases
  selected, remembered,   \* selectedConnection, and that of an earlier window (localStorage)
  panel,      \* the schema panel: what it shows, its timers and effects
  loading,    \* its spinner: "off", or on, and by whom
  boot,       \* progress of Init
  chooser,    \* the dialog for a connection is open, and the panes are not there
  jobs,       \* loads in flight, oldest first
  moves

vars == <<list, trees, selected, remembered, panel, loading, boot, chooser, jobs, moves>>

-----------------------------------------------------------------------------
Tree == [DB -> {"absent", "bare", "full"}]     \* bare: the name only
Bare == [d \in DB |-> "absent"]
Keys(t) == {d \in DB : t[d] # "absent"}

load      == Len(trees)
Listed(n) == n \in Range(list)
IndexOf(n) == CHOOSE i \in DOMAIN list : list[i] = n

\* getConnection in a list with the trees ts: a blank one when the name is not listed.
View(n, ts) == IF Listed(n) THEN [name |-> n, load |-> Len(ts), tree |-> ts[Len(ts)][n]]
                            ELSE [name |-> Nothing, load |-> Len(ts), tree |-> Bare]

Job == [by : {"panel", "init", "menu", "plain"}, conn : Name, mount : Nat,
        at : {"timer", "databases", "again", "schemata", "end"},
        load : Nat, index : Nat, wait : SUBSET DB]

TypeOK ==
  /\ list \in Seq(Name) /\ trees \in Seq([Name -> Tree])
  /\ {selected, remembered} \subseteq Name \cup {Nothing}
  /\ panel \in [on : BOOLEAN, mount : Nat, timers : Nat, due : BOOLEAN,
                shown : [name : Name \cup {Nothing}, load : Nat, tree : Tree]]
  /\ loading \in {"off", "on", "restored", "stranded"}
  /\ boot \in [at : {"state", "connections", "done"}, tries : 0 .. Tries]
  /\ chooser \in BOOLEAN /\ (chooser => ~panel.on)
  /\ jobs \in Seq(Job) /\ moves \in 0 .. MaxMoves
  /\ \A k \in DOMAIN jobs : /\ jobs[k].load \in 0 .. load
                            /\ jobs[k].at \in {"databases", "again"} => jobs[k].index > 0
                            /\ (jobs[k].at = "schemata") <=> (jobs[k].wait # {})

\* What the mounted panel starts with: both its effects have run.
Mounted(mount, shown) ==
  [on |-> TRUE, mount |-> mount, timers |-> 1, due |-> FALSE, shown |-> shown]

\* The page is opened for the connection of its hash, or for none: only then
\* is the one remembered read.
Init ==
  /\ list = <<>> /\ trees = <<>>
  /\ selected \in Name \cup {Nothing} /\ remembered \in Name \cup {Nothing}
  /\ selected # Nothing => remembered = Nothing
  /\ panel = Mounted(1, View(Nothing, trees)) /\ loading = "off"
  /\ boot = [at |-> "state", tries |-> 0] /\ chooser = FALSE
  /\ jobs = <<>> /\ moves = 0

-----------------------------------------------------------------------------
(* What the loads call; definitions named ...Bug are slips for a run to find. *)

NewJob(by, n) == [by |-> by, conn |-> n, mount |-> panel.mount, at |-> "end",
                  load |-> 0, index |-> 0, wait |-> {}]

\* What a load has read and needs no more is 0 again.
Done(j) == [j EXCEPT !.at = "end", !.load = 0, !.index = 0]

\* getDatabases takes the index and the object of the connection and asks.
AskDatabases(j, at) ==
  IF Listed(j.conn) THEN [j EXCEPT !.at = at, !.load = load, !.index = IndexOf(j.conn)]
                    ELSE Done(j)

\* getAllSchemata asks for all databases of the object it holds at once.
AskSchemataBug(j, tree) ==
  IF Keys(tree) = {} THEN AskDatabases(j, "databases")
                     ELSE [Done(j) EXCEPT !.at = "schemata", !.wait = Keys(tree)]
AskSchemata(j, tree) ==
  IF Keys(tree) = {} THEN Done(j) ELSE [Done(j) EXCEPT !.at = "schemata", !.wait = Keys(tree)]

\* getAllSchemata; a connection without databases is asked for them first.
AllSchemata(j, ts) ==
  LET tree == View(j.conn, ts).tree IN
    IF Keys(tree) = {} THEN AskDatabases(j, "again") ELSE AskSchemata(j, tree)

\* The answer's names are added to the databases the object held has by now.
AddedBug(j) == [d \in DB |-> IF d \in databases[j.conn] THEN "bare" ELSE "absent"]
Added(j) ==
  LET held == trees[j.load][j.conn] IN
    [d \in DB |-> IF held[d] = "absent" /\ d \in databases[j.conn] THEN "bare" ELSE held[d]]

\* ... and the result goes to the connection that has the index now.
Databases(j) ==
  IF j.index \in DOMAIN list THEN [trees EXCEPT ![load][list[j.index]] = Added(j)] ELSE trees

\* getSchemata stores into a database the connection of that name has now.
Stores(j, d) == Listed(j.conn) /\ trees[load][j.conn][d] # "absent"

\* trigger('refreshSchemaPanel') and trigger('onSelectConnection') reach a mounted panel.
RefreshedBug(p) == p
Refreshed(p)    == [p EXCEPT !.due = p.on]
Notified(p, n)  == [p EXCEPT !.timers = IF p.on THEN @ + n ELSE @]
Left(p)         == [p EXCEPT !.on = FALSE, !.due = FALSE, !.timers = 0]

-----------------------------------------------------------------------------
(* The steps of a load. *)

\* The 10 ms timer of loadConnection.
Fire(k) ==
  /\ jobs[k].at = "timer"
  /\ jobs' = [jobs EXCEPT ![k] = AskDatabases(jobs[k], "databases")]
  /\ UNCHANGED <<list, trees, selected, remembered, panel, loading, boot, chooser, moves>>

\* An error, no databases, or an index that is gone: a message, and the load goes on.
AnswerDatabases(k) == \E ok \in BOOLEAN :
  LET j == jobs[k]
      stored == ok /\ databases[j.conn] # {} /\ j.index \in DOMAIN list
  IN
  /\ j.at \in {"databases", "again"}
  /\ trees' = IF stored THEN Databases(j) ELSE trees
  /\ panel' = IF stored THEN Refreshed(panel) ELSE panel
  /\ jobs' = IF j.by = "plain" THEN RemoveAt(jobs, k)
             ELSE [jobs EXCEPT ![k] = IF j.at = "databases" THEN AllSchemata(j, trees')
                                      ELSE AskSchemata(j, trees'[j.load][j.conn])]
  /\ UNCHANGED <<list, selected, remembered, loading, boot, chooser, moves>>

\* A connection or a database that is gone is an error too.
AnswerSchemata(k) == \E d \in jobs[k].wait, ok \in BOOLEAN :
  LET stored == ok /\ Stores(jobs[k], d) IN
  /\ trees' = IF stored THEN [trees EXCEPT ![load][jobs[k].conn][d] = "full"] ELSE trees
  /\ panel' = IF stored THEN Refreshed(panel) ELSE panel
  /\ jobs' = [jobs EXCEPT ![k].wait = @ \ {d},
                          ![k].at = IF jobs[k].wait = {d} THEN "end" ELSE @]
  /\ UNCHANGED <<list, selected, remembered, loading, boot, chooser, moves>>

\* loadConnection shows its connection and clears the spinner, if the panel is
\* still the one that asked; Init and the menu of a database clear it always.
Reaches(j) == panel.on /\ j.mount = panel.mount

SpinnerAfterBug(j) == IF j.by \in {"plain", "menu"} THEN loading ELSE "off"
SpinnerAfter(j) ==
  IF j.by = "plain" THEN loading
  ELSE IF j.by # "panel" \/ Reaches(j) THEN "off"
  ELSE IF loading = "on" THEN "stranded" ELSE loading

End(k) ==
  LET j == jobs[k] IN
  /\ j.at = "end"
  /\ loading' = SpinnerAfter(j)
  /\ panel' = IF j.by = "panel" /\ Reaches(j)
              THEN [panel EXCEPT !.shown = View(j.conn, trees)] ELSE panel
  /\ jobs' = RemoveAt(jobs, k)
  /\ UNCHANGED <<list, trees, selected, remembered, boot, chooser, moves>>

-----------------------------------------------------------------------------
(* The schema panel. *)

\* loadConnection(n), with the panel as p otherwise.
LoadConnection(n, p) ==
  /\ Len(jobs) < MaxJobs
  /\ panel' = [p EXCEPT !.shown = View(n, trees)] /\ loading' = "on"
  /\ jobs' = Append(jobs, [NewJob("panel", n) EXCEPT !.at = "timer"])

\* The 100 ms timer after a mount or a selection.
SelectTimer ==
  /\ panel.timers > 0
  /\ LET p == [panel EXCEPT !.timers = @ - 1] IN
       \/ /\ selected \in {Nothing, panel.shown.name}
          /\ panel' = p /\ UNCHANGED <<loading, jobs>>
       \/ /\ selected \notin {Nothing, panel.shown.name}
          /\ LoadConnection(selected, p)
  /\ UNCHANGED <<list, trees, selected, remembered, boot, chooser, moves>>

\* The connection the refresh effect shows.
Preferred == IF Listed(selected) THEN selected
             ELSE IF selected = Nothing /\ remembered # Nothing THEN remembered ELSE Head(list)
Redrawn(p) == IF list = <<>> THEN p ELSE [p EXCEPT !.shown = View(Preferred, trees)]

RefreshEffect ==
  /\ panel.due
  /\ panel' = [Redrawn(panel) EXCEPT !.due = FALSE]
  /\ UNCHANGED <<list, trees, selected, remembered, loading, boot, chooser, jobs, moves>>

Act == moves < MaxMoves /\ moves' = moves + 1

\* "Refresh All" loads the connection shown.
RefreshAll ==
  /\ Act /\ panel.on /\ panel.shown.name # Nothing
  /\ LoadConnection(panel.shown.name, panel)
  /\ UNCHANGED <<list, trees, selected, remembered, boot, chooser>>

\* "Refresh" of one database in the menu of the tree.
RefreshDatabase(d) ==
  /\ Act /\ panel.on /\ d \in Keys(panel.shown.tree) /\ Len(jobs) < MaxJobs
  /\ loading' = "on"
  /\ jobs' = Append(jobs, [NewJob("menu", panel.shown.name) EXCEPT !.at = "schemata", !.wait = {d}])
  /\ UNCHANGED <<list, trees, selected, remembered, panel, boot, chooser>>

\* Another tab of the left pane, and back.
LeavePanel ==
  /\ Act /\ panel.on /\ panel' = Left(panel)
  /\ UNCHANGED <<list, trees, selected, remembered, loading, boot, chooser, jobs>>

Mount == Redrawn(Mounted(panel.mount + 1, View(Nothing, trees)))

ReturnToPanel ==
  /\ ~panel.on /\ ~chooser /\ panel' = Mount
  /\ UNCHANGED <<list, trees, selected, remembered, loading, boot, chooser, jobs, moves>>

-----------------------------------------------------------------------------
(* The choosers. *)

\* A chooser with a connection selected asks for its databases if it has none.
AskIfBare(n) ==
  IF Listed(n) /\ Keys(View(n, trees).tree) = {}
  THEN /\ Len(jobs) < MaxJobs
       /\ jobs' = Append(jobs, AskDatabases(NewJob("plain", n), "databases"))
  ELSE UNCHANGED jobs

\* The user chooses n; the only connection of a list is chosen for him.
Choose(n) ==
  /\ chooser /\ selected = Nothing /\ Listed(n)
  /\ selected' = n /\ remembered' = n
  /\ AskIfBare(n)
  /\ UNCHANGED <<list, trees, panel, loading, boot, chooser, moves>>

\* OK and the cross bring the panes back; the tab bar has a chooser of its own.
Close ==
  /\ chooser /\ ~(selected = Nothing /\ Len(list) = 1)
  /\ chooser' = FALSE /\ panel' = Mount
  /\ AskIfBare(selected)
  /\ UNCHANGED <<list, trees, selected, remembered, loading, moves>>

OK == selected # Nothing /\ boot' = [at |-> "state", tries |-> 0] /\ Close

Hide == UNCHANGED boot /\ Close

\* Another worksheet is shown: its tab bar is a new one.
ShowWorksheet ==
  /\ Act /\ ~chooser /\ AskIfBare(selected)
  /\ UNCHANGED <<list, trees, selected, remembered, panel, loading, boot, chooser>>

-----------------------------------------------------------------------------
(* Init: the stored session, the connections, then the loads. *)

\* state.load, then loadWorkspace: a session that is there brings its spinner
\* and the left pane back to the panel; the connections are gone.
StateLoaded(ok) ==
  /\ boot.at = "state"
  /\ boot' = [at |-> "connections", tries |-> 1]
  /\ list' = <<>>
  /\ loading' \in IF ok THEN {"off", "restored"} ELSE {loading}
  /\ panel' = IF ok /\ ~panel.on THEN Mounted(panel.mount + 1, View(Nothing, trees)) ELSE panel
  /\ UNCHANGED <<trees, selected, remembered, chooser, jobs, moves>>

\* fetch fails; one second later loadConnections tries again.
Retry ==
  /\ boot.at = "connections" /\ boot.tries < Tries
  /\ boot' = [boot EXCEPT !.tries = @ + 1]
  /\ UNCHANGED <<list, trees, selected, remembered, panel, loading, chooser, jobs, moves>>

\* The last try failed, or the answer is an error or an empty list.
NoConnections ==
  /\ boot.at = "connections" /\ boot' = [boot EXCEPT !.at = "done"]
  /\ panel' \in {panel, Notified(panel, 1)}
  /\ UNCHANGED <<list, trees, selected, remembered, loading, chooser, jobs, moves>>

\* A window without a selection takes that of the window before, or asks for one.
SomeConnections(l) ==
  /\ boot.at = "connections" /\ boot' = [boot EXCEPT !.at = "done"]
  /\ l # <<>> /\ list' = l
  /\ trees' = Append(trees, [n \in Name |-> Bare])
  /\ selected' = IF selected = Nothing /\ remembered \in Range(l) THEN remembered ELSE selected
  /\ IF selected' = Nothing
     THEN chooser' = TRUE /\ panel' = Left(panel) /\ UNCHANGED <<loading, jobs>>
     ELSE /\ Len(jobs) + 2 <= MaxJobs /\ chooser' = chooser
          /\ panel' = Notified(panel, IF selected = Nothing THEN 2 ELSE 1)
          /\ loading' = "on"
          /\ jobs' = jobs \o <<AskDatabases(NewJob("plain", selected), "databases")',
                             AllSchemata(NewJob("init", selected), trees)'>>
  /\ UNCHANGED <<remembered, moves>>
-----------------------------------------------------------------------------
Load == \E k \in DOMAIN jobs : Fire(k) \/ AnswerDatabases(k) \/ AnswerSchemata(k) \/ End(k)
Start == (\E ok \in BOOLEAN : StateLoaded(ok)) \/ Retry \/ NoConnections
         \/ \E l \in Listings : SomeConnections(l)
User == \/ RefreshAll \/ (\E d \in DB : RefreshDatabase(d)) \/ LeavePanel \/ ReturnToPanel
        \/ (\E n \in Name : Choose(n)) \/ OK \/ Hide \/ ShowWorksheet

Next == Load \/ Start \/ SelectTimer \/ RefreshEffect \/ User

\* Timers and effects run and every request is answered or fails; users need not act.
Spec == Init /\ [][Next]_vars
        /\ WF_vars(Load) /\ WF_vars(Start) /\ WF_vars(SelectTimer) /\ WF_vars(RefreshEffect)

-----------------------------------------------------------------------------
\* While the spinner of the panel is on for a load of this window, some load in
\* flight will clear it, whatever other loads, lists and mounts came in between.
\* (A load of a panel that is gone leaves it "stranded": the code clears it only
\* with the next load.)
SpinnerServes == loading = "on" => \E k \in DOMAIN jobs : jobs[k].by # "plain"

\* Answers only add to what is loaded, and to the connection they are about, in
\* whatever order they come, unless an answer is due to a list that was replaced.
Grows(t, u) == \A d \in DB : /\ t[d] # "absent" => u[d] # "absent"
                             /\ t[d] = "full" => u[d] = "full"
Late(j) == j.at \in {"databases", "again"} /\ j.load # load

AnswersKeepTrees ==
  [][ trees # <<>> /\ load' = load /\ (\A k \in DOMAIN jobs : ~Late(jobs[k])) =>
        \A n \in Name : LET t == trees[load][n]  u == trees'[load][n] IN
          Grows(t, u) /\ Keys(u) \ Keys(t) \subseteq databases[n] ]_vars

\* When nothing is in flight, a panel that is there shows the connection that is
\* selected, with all that was loaded of it from the list in use.
Quiet == jobs = <<>> /\ panel.timers = 0 /\ ~panel.due /\ boot.at = "done"

PanelAgrees ==
  Quiet /\ panel.on /\ Listed(selected) =>
    /\ panel.shown.name = selected
    /\ panel.shown.load = load => panel.shown.tree = trees[load][selected]

\* Every load ends, though each waits for answers of its own, starts others'
\* timers and effects, and may be told that there is nothing.
LoadsEnd == <>[](jobs = <<>> /\ loading # "on")
=============================================================================
