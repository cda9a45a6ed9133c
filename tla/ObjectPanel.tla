----------------------------- MODULE ObjectPanel -----------------------------
(***************************************************************************)
(* What the user does with the object panel: select columns, open a form,  *)
(* and submit statements about the table (MetaTablePanel.tsx, schema.ts).  *)
(* The rows and buttons of the panel use its own copy of the table, the    *)
(* forms the table of the state: every statement must be about one table.  *)
(***************************************************************************)
EXTENDS ObjectHistory

VARIABLES
  selected,   \* the table whose columns are selected, or none
  form,       \* the form that is open: "group", "compare", or "closed"
  asked       \* what was submitted last

panelVars == <<vars, selected, form, asked>>

Statement(t, fields) == [table |-> t, fields |-> fields]
TabText == Statement(none, none)   \* the whole text of the tab's editor

PanelInit == Init /\ selected = none /\ form = "closed" /\ asked = TabText

\* The comparison closes itself when it is drawn with nothing selected, and
\* every form is drawn anew whenever the panel is.
FormDrawn == form' = IF form = "compare" /\ selected' = none THEN "closed" ELSE form

-----------------------------------------------------------------------------
\* The selection outlives the table it was made in.
SelectionFollowsBug ==
  /\ selected' = IF shown'.name = none THEN none ELSE selected
  /\ FormDrawn

\* The panel's effect also resets the selection.
SelectionFollows ==
  /\ selected' = IF SameName(shown.name, shown'.name) /\ loading' = loading THEN selected ELSE none
  /\ FormDrawn

\* Rows of the panel's table are ticked, or none is left.
Select ==
  /\ selected' \in {local.columns, none}
  /\ FormDrawn
  /\ UNCHANGED <<vars, asked>>

ShowForm ==
  /\ form' \in {"group"} \cup (IF selected = none THEN {} ELSE {"compare"})
  /\ UNCHANGED <<vars, selected, asked>>

HideForms ==
  /\ form' = "closed"
  /\ UNCHANGED <<vars, selected, asked>>

-----------------------------------------------------------------------------
\* Select fields, Count rows and the statistics do without a selection (`*`).
Submit ==
  /\ local.name # none
  /\ asked' = Statement(local.name, selected)
  /\ form' \in {form, "closed"}          \* the deep ones close the overlay
  /\ UNCHANGED <<vars, selected>>

\* The distributions make an empty text when nothing fits is selected, and an
\* empty text submits the tab's.
SubmitDistro ==
  /\ local.name # none
  /\ \/ selected # none /\ asked' = Statement(local.name, selected)
     \/ asked' = TabText
  /\ form' = "closed"
  /\ UNCHANGED <<vars, selected>>

\* A form names the table of the state and the columns selected in the panel.
SubmitOf(f) ==
  /\ local.name # none /\ form = f
  /\ asked' = Statement(shown.name, selected)
  /\ form' = "closed"
  /\ UNCHANGED <<vars, selected>>

StatsByGroup   == SubmitOf("group")
CompareColumns == SubmitOf("compare")

PanelNext ==
  \/ Work /\ SelectionFollows /\ UNCHANGED asked
  \/ Reopen /\ selected' = none /\ form' = "closed" /\ UNCHANGED asked
  \/ Select \/ ShowForm \/ HideForms
  \/ Submit \/ SubmitDistro \/ StatsByGroup \/ CompareColumns

(***************************************************************************)
(* When loads do not overlap, the session is not saved or loaded while one *)
(* is in flight, and a loaded session does not show a table of the same    *)
(* name from another schema, which the panel's effect would miss.          *)
(***************************************************************************)
Namesake ==
  /\ saved # none
  /\ saved.shown.name # shown.name /\ SameName(saved.shown.name, shown.name)

CalmNext ==
  /\ PanelNext
  /\ Cardinality(Pending') <= 1
  /\ Pending # {} => ~ (Save \/ LoadSession \/ Reopen)
  /\ Namesake => ~ LoadSession

CalmSpec == PanelInit /\ [][CalmNext]_panelVars

-----------------------------------------------------------------------------
\* The panel and its copy show the columns of the table they name.
ColumnsMatch == shown.columns = shown.name /\ local = shown

\* What a button or a form submits names columns of the table it is about,
\* whatever was loaded, restored or selected between the selection and the
\* click.
StatementsFit == asked.fields \in {none, asked.table}

\* A successful load leaves the panel at the table the history stands at.
ShowsCurrent ==
  [][\A l \in Pending : Answer(l) => /\ historyI' >= 0
                                     /\ shown'.name.name = history'[historyI' + 1].name]_vars
==============================================================================
