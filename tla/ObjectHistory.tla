---------------------------- MODULE ObjectHistory ----------------------------
(***************************************************************************)
(* The object panel of one window: the table it shows and the history the  *)
(* back and forward buttons walk (loadMetaTable, MetaTablePanel.tsx).      *)
(*                                                                         *)
(* A load awaits the columns of its table.  Nothing stops the user from    *)
(* starting another one, going back, or loading the saved session while it *)
(* runs, and the rest of loadMetaTable uses the history it finds then.     *)
(***************************************************************************)
EXTENDS Integers, Sequences, FiniteSets

CONSTANTS
  Name, Schema,   \* a table is a name in a schema; the history compares names
  Load,           \* ids of loads in flight (the bound of a model)
  cap,            \* longest history: 15
  none            \* no table, nothing saved

ASSUME CapAssumption  == cap \in Nat \ {0}
ASSUME NoneAssumption == none \notin [name : Name, schema : Schema]

Table == [name : Name, schema : Schema]

VARIABLES
  shown,      \* objectPanel.table: whose name and whose columns it shows
  local,      \* the panel's own copy of it, which its table and buttons use
  history, historyI,   \* indices are JavaScript's, from 0
  loading,
  load,       \* loads in flight: the table asked for, and what it was read from
  saved       \* the panel in the stored session

vars == <<shown, local, history, historyI, loading, load, saved>>

Panel    == [shown |-> shown, history |-> history, historyI |-> historyI, loading |-> loading]
Pending  == {l \in Load : load[l].from # "free"}
Free     == [from |-> "free", table |-> none]
Item(i)  == history[i + 1]
Last     == Len(history) - 1

TypeOK ==
  /\ {shown, local} \subseteq [name : Table \cup {none}, columns : Table \cup {none}]
  /\ history \in Seq(Table) /\ historyI \in Int /\ loading \in BOOLEAN
  /\ load \in [Load -> {Free} \cup [from : {"click", "shown", "history"}, table : Table]]
  /\ saved = none \/ saved \in [shown : [name : Table \cup {none}, columns : Table \cup {none}],
                                history : Seq(Table), historyI : Int, loading : BOOLEAN]

Blank == [shown |-> [name |-> none, columns |-> none], history |-> <<>>, historyI |-> -1,
          loading |-> FALSE]

SameName(s, t) == IF none \in {s, t} THEN s = t ELSE s.name = t.name

\* The panel's effect runs after any change of the name or of loading, and
\* compares nothing else: a table of the same name in another schema is missed.
Redrawn ==
  local' = IF SameName(shown.name, shown'.name) /\ loading' = loading THEN local ELSE shown'

(***************************************************************************)
(* Definitions named ...Bug are used by no other: each is the definition   *)
(* after it with a plausible programming error (a run with it must fail).  *)
(***************************************************************************)

\* new ObjectPanelState(data), whose `historyI || -1` takes 0 for missing.
Restore(p) ==
  /\ shown' = p.shown /\ history' = p.history /\ loading' = p.loading
  /\ historyI' = IF p.historyI = 0 THEN -1 ELSE p.historyI

Init ==
  /\ shown = Blank.shown /\ local = Blank.shown /\ history = <<>> /\ historyI = -1 /\ loading = FALSE
  /\ load = [l \in Load |-> Free]
  /\ saved = none

-----------------------------------------------------------------------------
\* loadMetaTable up to its await.
Start(l, from, t) ==
  /\ l \notin Pending
  /\ load' = [load EXCEPT ![l] = [from |-> from, table |-> t]]
  /\ loading' = TRUE
  /\ UNCHANGED <<shown, saved>>
  /\ Redrawn

\* From the schema panel, the search, the editor or the menus.
Open(l, t) ==
  /\ Start(l, "click", t)
  /\ UNCHANGED <<history, historyI>>

\* The refresh button passes the panel's own copy.
Refresh(l) ==
  /\ local.name # none
  /\ Start(l, "shown", local.name)
  /\ UNCHANGED <<history, historyI>>

\* Back loads the item it leaves.
BackBug(l) ==
  /\ Len(history) > 1 /\ historyI > 0
  /\ historyI' = historyI - 1
  /\ Start(l, "history", Item(historyI))
  /\ UNCHANGED history

\* The buttons move first and load then.
Back(l) ==
  /\ Len(history) > 1 /\ historyI > 0
  /\ historyI' = historyI - 1
  /\ Start(l, "history", Item(historyI - 1))
  /\ UNCHANGED history

\* Forward can be pressed at the last item.
ForwardBug(l) ==
  /\ Len(history) > 1 /\ historyI <= Last
  /\ historyI' = historyI + 1
  /\ \E t \in Table : Start(l, "history", t)
  /\ UNCHANGED history

Forward(l) ==
  /\ Len(history) > 1 /\ historyI < Last
  /\ historyI' = historyI + 1
  /\ Start(l, "history", Item(historyI + 1))
  /\ UNCHANGED history

-----------------------------------------------------------------------------
\* A refresh uses what the panel shows now, even if it shows nothing.
NamesAtAnswerBug(l) ==
  {IF load[l].from = "shown" THEN local.name ELSE load[l].table}

\* The names the panel may get when load l is answered.  A refresh holds what
\* the library handed out of the panel's copy, and reads the name from it only
\* now: the effect may have replaced the copy since.
NamesAtAnswer(l) ==
  {load[l].table} \cup (IF load[l].from = "shown" THEN {local.name} \ {none} ELSE {})

\* What is in front of historyI stays.
PushBug(t) ==
  LET h == Append(history, t)
  IN  IF historyI >= 0 /\ Item(historyI).name = t.name
        THEN UNCHANGED <<history, historyI>>
        ELSE /\ history' = IF Len(h) > cap THEN Tail(h) ELSE h
             /\ historyI' = Len(history') - 1

\* The item before the current one is dropped as well.
PushCutBug(t) ==
  LET h == Append(SubSeq(history, 1, historyI - 1), t)
  IN  /\ history' = IF Len(h) > cap THEN Tail(h) ELSE h
      /\ historyI' = Len(history') - 1

\* What is in front of historyI is dropped, then t is pushed unless it has the
\* name of the current item, and the oldest item goes when there are too many.
Push(t) ==
  LET kept == SubSeq(history, 1, historyI + 1)
      same == historyI >= 0 /\ Item(historyI).name = t.name
      h    == Append(kept, t)
  IN  IF same THEN history' = kept /\ UNCHANGED historyI
      ELSE /\ history' = IF Len(h) > cap THEN Tail(h) ELSE h
           /\ historyI' = Len(history') - 1

\* The save at the end may fail: then the stored session is the one before.
SaveMaybe(p) == saved' \in {saved, p}

\* Going back or forward leaves the name in the panel.
AnswerBug(l) ==
  /\ l \in Pending
  /\ \E t \in NamesAtAnswer(l) :
       \/ /\ load[l].from = "history"
          /\ shown' = [shown EXCEPT !.columns = load[l].table]
          /\ UNCHANGED <<history, historyI>>
       \/ /\ load[l].from # "history"
          /\ shown' = [name |-> t, columns |-> load[l].table]
          /\ Push(t)
  /\ loading' = FALSE /\ Redrawn
  /\ load' = [load EXCEPT ![l] = Free]
  /\ SaveMaybe(Panel')

Answer(l) ==
  /\ l \in Pending
  /\ \E t \in NamesAtAnswer(l) :
       /\ shown' = [name |-> t, columns |-> load[l].table]
       /\ \/ load[l].from = "history" /\ UNCHANGED <<history, historyI>>
          \/ load[l].from # "history" /\ Push(t)
  /\ loading' = FALSE /\ Redrawn
  /\ load' = [load EXCEPT ![l] = Free]
  /\ SaveMaybe(Panel')

Fail(l) ==
  /\ l \in Pending
  /\ UNCHANGED <<shown, history, historyI>>
  /\ loading' = FALSE /\ Redrawn
  /\ load' = [load EXCEPT ![l] = Free]
  /\ SaveMaybe(Panel')

\* Other parts of the program save the session too.
Save ==
  /\ saved' = Panel
  /\ UNCHANGED <<shown, local, history, historyI, loading, load>>

\* The Load session button; loads in flight stay in flight.
LoadSession ==
  /\ Restore(IF saved = none THEN Blank ELSE saved)
  /\ Redrawn
  /\ UNCHANGED <<load, saved>>

\* The page is reloaded, or the window opened again: the effect runs at once.
Reopen ==
  /\ Restore(IF saved = none THEN Blank ELSE saved)
  /\ local' = shown'
  /\ load' = [l \in Load |-> Free]
  /\ UNCHANGED saved

\* What happens while the panel stays on the screen.
Work ==
  \/ \E l \in Load : \/ \E t \in Table : Open(l, t)
                     \/ Refresh(l) \/ Back(l) \/ Forward(l)
                     \/ Answer(l) \/ Fail(l)
  \/ Save \/ LoadSession

Next == Work \/ Reopen

Spec == Init /\ [][Next]_vars

-----------------------------------------------------------------------------
\* Whatever overlaps: the current position is in the history, or in front of
\* it, and the history is no longer than cap.  Every history[historyI] the
\* buttons and loadMetaTable read is a table.
PositionInHistory == historyI \in -1..Last /\ Len(history) <= cap

\* Neighbours in the history have different names: going back or forward from
\* an item of it leads to another table, also after the oldest items were dropped,
\* after a branch was cut off, and after a session was restored.  (Restored in
\* front of it, at -1, the panel may show the table forward leads to.)
NoRepeats == \A i \in 1..Last : history[i].name # history[i + 1].name

\* Histories are cut at the current position or lose their oldest item, never
\* anything else: where the user is, and what they can go back to, survives any
\* answer.
BackStaysPossible ==
  [][\A l \in Pending : Answer(l) =>
       \A i \in 0..historyI :
         \/ i < Len(history') /\ history'[i + 1] = Item(i)
         \/ Len(history') = cap /\ i > 0 /\ history'[i] = Item(i)
         \/ Len(history') = cap /\ i = 0]_vars

==============================================================================
