-------------------------- MODULE ObjectPanelProofs --------------------------
(***************************************************************************)
(* Theorems about the object panel, for any names, schemas and any cap.    *)
(* First ObjectHistory, with any number of loads in flight: the history    *)
(* stays usable.  Then ObjectPanel, with one load at a time: a statement   *)
(* is about the table whose columns it names.                              *)
(***************************************************************************)
EXTENDS ObjectPanel, SequenceTheorems, FiniteSetTheorems, TLAPS

\* What a panel must satisfy: the one on the screen, and the one in the stored
\* session, since it comes back.
Usable(h, i) ==
  /\ h \in Seq(Table)
  /\ i \in -1..(Len(h) - 1) /\ Len(h) <= cap
  /\ \A k \in 1..(Len(h) - 1) : h[k].name # h[k + 1].name

SavedUsable == saved # none => Usable(saved.history, saved.historyI)

IInv == TypeOK /\ Usable(history, historyI) /\ SavedUsable

-----------------------------------------------------------------------------
\* Cutting keeps a prefix.
LEMMA Cut ==
  ASSUME NEW h, NEW i, Usable(h, i)
  PROVE  /\ SubSeq(h, 1, i + 1) \in Seq(Table)
         /\ Len(SubSeq(h, 1, i + 1)) = i + 1
         /\ \A k \in 1..(i + 1) : SubSeq(h, 1, i + 1)[k] = h[k]
         /\ \A k \in 1..(i + 1) : h[k] \in Table
  BY SubSeqProperties DEF Usable

\* Push keeps the history usable, and keeps what is behind the position.
LEMMA Pushed ==
  ASSUME Usable(history, historyI), NEW t \in Table, Push(t)
  PROVE  /\ Usable(history', historyI')
         /\ historyI' >= 0 /\ history'[historyI' + 1].name = t.name
         /\ \A i \in 0..historyI :
              \/ i < Len(history') /\ history'[i + 1] = Item(i)
              \/ Len(history') = cap /\ i > 0 /\ history'[i] = Item(i)
              \/ Len(history') = cap /\ i = 0
<1> DEFINE kept == SubSeq(history, 1, historyI + 1)
           h    == Append(kept, t)
<1>1. /\ kept \in Seq(Table) /\ Len(kept) = historyI + 1
      /\ \A k \in 1..(historyI + 1) : kept[k] = history[k]
  BY Cut
<1>2. /\ historyI \in Int /\ historyI >= -1 /\ historyI <= Len(history) - 1
      /\ Len(history) \in Nat /\ cap \in Nat /\ cap >= 1 /\ Len(history) <= cap
      /\ \A k \in 1..(Len(history) - 1) : history[k].name # history[k + 1].name
  BY CapAssumption DEF Usable
<1>3. CASE historyI >= 0 /\ Item(historyI).name = t.name
  <2>1. history' = kept /\ historyI' = historyI
    BY <1>3 DEF Push
  <2>2. \A k \in 1..(Len(kept) - 1) : kept[k].name # kept[k + 1].name
    BY <1>1, <1>2
  <2> HIDE DEF kept
  <2>3. Usable(kept, historyI)
    BY <1>1, <1>2, <2>2 DEF Usable
  <2>4. kept[historyI + 1].name = t.name
    BY <1>1, <1>2, <1>3 DEF Item
  <2>5. \A i \in 0..historyI : i < Len(kept) /\ kept[i + 1] = Item(i)
    BY <1>1, <1>2 DEF Item
  <2> QED BY <1>3, <2>1, <2>3, <2>4, <2>5
<1>4. CASE ~ (historyI >= 0 /\ Item(historyI).name = t.name)
  <2>1. /\ history' = IF Len(h) > cap THEN Tail(h) ELSE h
        /\ historyI' = Len(history') - 1
    BY <1>4 DEF Push
  <2> HIDE DEF kept
  <2>2. /\ h \in Seq(Table) /\ Len(h) = historyI + 2
        /\ \A k \in 1..(historyI + 1) : h[k] = history[k]
        /\ h[historyI + 2] = t
    BY <1>1, <1>2
  <2>3. \A k \in 1..(historyI + 1) : h[k].name # h[k + 1].name
    <3> TAKE k \in 1..(historyI + 1)
    <3>1. CASE k = historyI + 1
      BY <3>1, <1>2, <1>4, <2>2 DEF Item
    <3>2. CASE k # historyI + 1
      BY <3>2, <1>2, <2>2
    <3> QED BY <3>1, <3>2
  <2> HIDE DEF h
  <2>4. CASE Len(h) <= cap
    <3>1. history' = h /\ historyI' = historyI + 1
      BY <1>2, <2>1, <2>2, <2>4
    <3>2. Usable(h, historyI + 1)
      BY <1>2, <2>2, <2>3, <2>4 DEF Usable
    <3>3. \A i \in 0..historyI : i < Len(h) /\ h[i + 1] = Item(i)
      BY <1>2, <2>2 DEF Item
    <3> QED BY <1>2, <2>2, <3>1, <3>2, <3>3
  <2>5. CASE Len(h) > cap
    <3> DEFINE s == Tail(h)
    <3>1. /\ s \in Seq(Table) /\ Len(s) = historyI + 1 /\ historyI + 1 = cap
          /\ \A k \in 1..(historyI + 1) : s[k] = h[k + 1]
      BY <1>2, <2>2, <2>5
    <3>2. history' = s /\ historyI' = historyI
      BY <1>2, <2>1, <2>5, <3>1
    <3> HIDE DEF s
    <3>3. \A k \in 1..(Len(s) - 1) : s[k].name # s[k + 1].name
      <4> TAKE k \in 1..(Len(s) - 1)
      <4>1. k \in 1..(historyI + 1) /\ k + 1 \in 1..(historyI + 1)
        BY ONLY <1>2, <3>1, k \in 1..(Len(s) - 1)
      <4>2. h[k + 1].name # h[k + 1 + 1].name
        BY ONLY <4>1, <2>3
      <4> QED BY ONLY <4>1, <4>2, <3>1
    <3>4. Usable(s, historyI)
      <4>1. historyI \in -1..(Len(s) - 1) /\ Len(s) <= cap
        BY ONLY <1>2, <3>1
      <4> QED BY ONLY <4>1, <3>1, <3>3 DEF Usable
    <3>5. \A i \in 0..historyI : i = 0 \/ s[i] = Item(i)
      <4> SUFFICES ASSUME NEW i \in 0..historyI, i # 0
                   PROVE  s[i] = history[i + 1]
        BY DEF Item
      <4>1. i \in 1..(historyI + 1) /\ i + 1 \in 1..(historyI + 1)
        BY ONLY <1>2, i \in 0..historyI, i # 0
      <4> QED BY ONLY <4>1, <2>2, <3>1
    <3> QED BY <1>2, <2>2, <3>1, <3>2, <3>4, <3>5
  <2> QED BY <1>2, <2>2, <2>4, <2>5
<1> QED BY <1>3, <1>4

-----------------------------------------------------------------------------
Named == [name : Table \cup {none}, columns : Table \cup {none}]
Loads == {Free} \cup [from : {"click", "shown", "history"}, table : Table]
Saved == [shown : Named, history : Seq(Table), historyI : Int, loading : BOOLEAN]

\* The parts of the invariant, so that a step can prove them one by one.
LEMMA Parts ==
  /\ IInv <=> /\ shown \in Named /\ local \in Named /\ loading \in BOOLEAN /\ load \in [Load -> Loads]
              /\ saved = none \/ saved \in Saved
              /\ Usable(history, historyI) /\ SavedUsable
  /\ IInv' <=> /\ shown' \in Named /\ local' \in Named /\ loading' \in BOOLEAN /\ load' \in [Load -> Loads]
               /\ saved' = none \/ saved' \in Saved
               /\ Usable(history', historyI') /\ SavedUsable'
  BY DEF IInv, TypeOK, Named, Loads, Saved, Usable

\* The panel's copy is what it was, or what the panel shows now.
LEMMA Copied ==
  ASSUME IInv, shown' \in Named, Redrawn
  PROVE  local' \in Named
  BY Parts DEF Redrawn

LEMMA Started ==
  ASSUME IInv, NEW l \in Load, NEW f \in {"click", "shown", "history"},
         NEW t \in Table, Start(l, f, t)
  PROVE  loading' \in BOOLEAN /\ load' \in [Load -> Loads] /\ local' \in Named
<1>1. [from |-> f, table |-> t] \in Loads
  BY DEF Loads
<1>2. load \in [Load -> Loads] /\ shown' \in Named
  BY Parts DEF Start
<1>3. local' \in Named
  BY <1>2, Copied DEF Start
<1> QED BY <1>1, <1>2, <1>3 DEF Start

LEMMA Freed ==
  ASSUME IInv, NEW l \in Load, load' = [load EXCEPT ![l] = Free]
  PROVE  load' \in [Load -> Loads]
<1>1. Free \in Loads
  BY DEF Loads
<1>2. load \in [Load -> Loads]
  BY Parts
<1> QED BY <1>1, <1>2

\* A usable panel is still usable after a save of it, whether or not the save
\* reached the store.
LEMMA SaveUsable ==
  ASSUME IInv, shown' \in Named, local' \in Named, loading' \in BOOLEAN,
         load' \in [Load -> Loads], Usable(history', historyI'), SaveMaybe(Panel')
  PROVE  IInv'
<1>1. CASE saved' = saved
  BY <1>1, Parts DEF SavedUsable
<1>2. CASE saved' = Panel'
  <2>1. Panel' \in Saved
    BY DEF Panel, Saved, Usable
  <2>2. saved'.history = history' /\ saved'.historyI = historyI'
    BY <1>2 DEF Panel
  <2> QED BY <1>2, <2>1, <2>2, Parts DEF SavedUsable
<1> QED BY <1>1, <1>2 DEF SaveMaybe

LEMMA Restored ==
  ASSUME IInv, Restore(IF saved = none THEN Blank ELSE saved)
  PROVE  /\ shown' \in Named /\ loading' \in BOOLEAN
         /\ Usable(history', historyI')
<1>1. CASE saved = none
  <2>1. /\ shown' = Blank.shown /\ history' = Blank.history /\ loading' = Blank.loading
        /\ historyI' = IF Blank.historyI = 0 THEN -1 ELSE Blank.historyI
    BY <1>1 DEF Restore
  <2>2. shown' \in Named /\ loading' \in BOOLEAN /\ history' = <<>> /\ historyI' = -1
    BY <2>1 DEF Blank, Named
  <2> QED BY <2>2, CapAssumption DEF Usable
<1>2. CASE saved # none
  <2>1. saved \in Saved /\ Usable(saved.history, saved.historyI)
    BY <1>2, Parts DEF SavedUsable
  <2>2. /\ shown' = saved.shown /\ history' = saved.history /\ loading' = saved.loading
        /\ historyI' = IF saved.historyI = 0 THEN -1 ELSE saved.historyI
    BY <1>2 DEF Restore
  <2> QED BY <2>1, <2>2 DEF Saved, Usable
<1> QED BY <1>1, <1>2

LEMMA Asked ==
  ASSUME IInv, NEW l \in Load, l \in Pending, NEW t \in NamesAtAnswer(l), shown' = [name |-> t, columns |-> load[l].table]
  PROVE  t \in Table /\ shown' \in Named
<1>1. load[l].table \in Table /\ local.name \in Table \cup {none}
  <2>1. load[l] \in Loads /\ load[l].from # "free"
    BY Parts DEF Pending
  <2>2. load[l] \in [from : {"click", "shown", "history"}, table : Table]
    BY <2>1 DEF Loads, Free
  <2> QED BY <2>2, Parts DEF Named
<1> QED BY <1>1 DEF NamesAtAnswer, Named

-----------------------------------------------------------------------------

LEMMA StartPreserves ==
  ASSUME IInv, NEW l \in Load,
         \/ \E t \in Table : Open(l, t)
         \/ Refresh(l) \/ Back(l) \/ Forward(l)
  PROVE  IInv'
<1>1. shown \in Named /\ Usable(history, historyI) /\ SavedUsable
  BY Parts
<1>2. CASE \E t \in Table : Open(l, t)
  <2>1. PICK t \in Table : Open(l, t)
    BY <1>2
  <2>2. loading' \in BOOLEAN /\ load' \in [Load -> Loads] /\ local' \in Named
    BY <2>1, Started DEF Open
  <2>3. shown' = shown /\ history' = history /\ historyI' = historyI /\ saved' = saved
    BY <2>1 DEF Open, Start
  <2> QED BY <2>2, <2>3, Parts DEF SavedUsable
<1>3. CASE Refresh(l)
  <2>1. local.name \in Table
    BY <1>1, <1>3, Parts DEF Refresh, Named
  <2>2. loading' \in BOOLEAN /\ load' \in [Load -> Loads] /\ local' \in Named
    BY <1>3, <2>1, Started DEF Refresh
  <2>3. shown' = shown /\ history' = history /\ historyI' = historyI /\ saved' = saved
    BY <1>3 DEF Refresh, Start
  <2> QED BY <2>2, <2>3, Parts DEF SavedUsable
<1>4. CASE Back(l)
  <2>1. /\ historyI > 0 /\ historyI' = historyI - 1 /\ Start(l, "history", Item(historyI - 1))
        /\ shown' = shown /\ history' = history /\ saved' = saved
    BY <1>4 DEF Back, Start
  <2>2. Item(historyI - 1) \in Table
    BY <1>1, <2>1 DEF Usable, Item
  <2>3. loading' \in BOOLEAN /\ load' \in [Load -> Loads] /\ local' \in Named
    BY <2>1, <2>2, Started
  <2>4. Usable(history', historyI')
    BY <1>1, <2>1 DEF Usable
  <2> QED BY <2>1, <2>3, <2>4, Parts DEF SavedUsable
<1>5. CASE Forward(l)
  <2>1. /\ historyI < Len(history) - 1 /\ historyI' = historyI + 1
        /\ Start(l, "history", Item(historyI + 1))
        /\ shown' = shown /\ history' = history /\ saved' = saved
    BY <1>5 DEF Forward, Last, Start
  <2>2. Item(historyI + 1) \in Table
    BY <1>1, <2>1 DEF Usable, Item
  <2>3. loading' \in BOOLEAN /\ load' \in [Load -> Loads] /\ local' \in Named
    BY <2>1, <2>2, Started
  <2>4. Usable(history', historyI')
    BY <1>1, <2>1 DEF Usable
  <2> QED BY <2>1, <2>3, <2>4, Parts DEF SavedUsable
<1> QED BY <1>2, <1>3, <1>4, <1>5

LEMMA AnswerPreserves ==
  ASSUME IInv, NEW l \in Load, Answer(l)
  PROVE  IInv'
<1>1. /\ l \in Pending /\ loading' = FALSE /\ Redrawn /\ SaveMaybe(Panel')
      /\ load' = [load EXCEPT ![l] = Free]
  BY DEF Answer
<1>2. PICK t \in NamesAtAnswer(l) :
        /\ shown' = [name |-> t, columns |-> load[l].table]
        /\ \/ load[l].from = "history" /\ UNCHANGED <<history, historyI>>
           \/ load[l].from # "history" /\ Push(t)
  BY DEF Answer
<1>3. t \in Table /\ shown' \in Named
  BY <1>1, <1>2, Asked
<1>4. load' \in [Load -> Loads]
  BY <1>1, Freed
<1>5. Usable(history, historyI)
  BY Parts
<1>6. Usable(history', historyI')
  <2>1. CASE UNCHANGED <<history, historyI>>
    BY <1>5, <2>1
  <2>2. CASE Push(t)
    BY <1>3, <1>5, <2>2, Pushed
  <2> QED BY <1>2, <2>1, <2>2
<1>7. local' \in Named
  BY <1>1, <1>3, Copied
<1> QED BY <1>1, <1>3, <1>4, <1>6, <1>7, SaveUsable

LEMMA FailPreserves ==
  ASSUME IInv, NEW l \in Load, Fail(l)
  PROVE  IInv'
<1>1. /\ shown' = shown /\ history' = history /\ historyI' = historyI
      /\ loading' = FALSE /\ Redrawn
      /\ load' = [load EXCEPT ![l] = Free] /\ SaveMaybe(Panel')
  BY DEF Fail
<1>2. load' \in [Load -> Loads]
  BY <1>1, Freed
<1>3. shown \in Named /\ Usable(history, historyI)
  BY Parts
<1>4. local' \in Named
  BY <1>1, <1>3, Copied
<1> QED BY <1>1, <1>2, <1>3, <1>4, SaveUsable

LEMMA SessionPreserves ==
  ASSUME IInv, Save \/ LoadSession \/ Reopen
  PROVE  IInv'
<1>1. /\ shown \in Named /\ local \in Named /\ loading \in BOOLEAN
      /\ load \in [Load -> Loads] /\ Usable(history, historyI) /\ SavedUsable /\ (saved = none \/ saved \in Saved)
  BY Parts
<1>2. CASE Save
  <2>1. Panel \in Saved /\ Panel.history = history /\ Panel.historyI = historyI
    BY <1>1 DEF Panel, Saved, Usable
  <2>2. /\ saved' = Panel /\ shown' = shown /\ local' = local /\ history' = history /\ historyI' = historyI
        /\ loading' = loading /\ load' = load
    BY <1>2 DEF Save
  <2> QED BY <1>1, <2>1, <2>2, Parts DEF SavedUsable
<1>3. CASE LoadSession
  <2>1. shown' \in Named /\ loading' \in BOOLEAN /\ Usable(history', historyI')
    BY <1>3, Restored DEF LoadSession
  <2>2. load' = load /\ saved' = saved /\ local' \in Named
    BY <1>3, <2>1, Copied DEF LoadSession
  <2> QED BY <1>1, <2>1, <2>2, Parts DEF SavedUsable
<1>4. CASE Reopen
  <2>1. shown' \in Named /\ loading' \in BOOLEAN /\ Usable(history', historyI')
    BY <1>4, Restored DEF Reopen
  <2>2. load' \in [Load -> Loads] /\ saved' = saved /\ local' \in Named
    BY <1>4, <2>1 DEF Reopen, Loads
  <2> QED BY <1>1, <2>1, <2>2, Parts DEF SavedUsable
<1> QED BY <1>2, <1>3, <1>4

LEMMA InitPanel == Init => IInv
<1> SUFFICES ASSUME Init PROVE IInv
  OBVIOUS
<1>1. shown = Blank.shown /\ local = Blank.shown /\ history = <<>> /\ historyI = -1 /\ loading = FALSE /\ saved = none
  BY DEF Init
<1>2. load \in [Load -> Loads]
  BY DEF Init, Loads
<1>3. shown \in Named /\ local \in Named
  BY <1>1 DEF Blank, Named
<1>4. Usable(history, historyI)
  BY <1>1, CapAssumption DEF Usable
<1> QED BY <1>1, <1>2, <1>3, <1>4, Parts DEF SavedUsable

LEMMA NextPreserves == IInv /\ [Next]_vars => IInv'
<1> SUFFICES ASSUME IInv, [Next]_vars PROVE IInv'
  OBVIOUS
<1>1. ASSUME NEW l \in Load,
             \/ \E t \in Table : Open(l, t)
             \/ Refresh(l) \/ Back(l) \/ Forward(l) \/ Answer(l) \/ Fail(l)
      PROVE  IInv'
  BY <1>1, StartPreserves, AnswerPreserves, FailPreserves
<1>2. CASE Save \/ LoadSession \/ Reopen
  BY <1>2, SessionPreserves
<1>3. CASE UNCHANGED vars
  <2>1. /\ shown' = shown /\ local' = local /\ history' = history /\ historyI' = historyI
        /\ loading' = loading /\ load' = load /\ saved' = saved
    BY <1>3 DEF vars
  <2> QED BY <2>1, Parts DEF SavedUsable
<1> QED BY <1>1, <1>2, <1>3 DEF Next, Work

-----------------------------------------------------------------------------
\* The inductive invariant: besides what the panel shows, the panel in the
\* stored session must be usable, because loading the session brings it back
\* while loads are in flight.
THEOREM HistoryInvariant == Spec => []IInv
  BY InitPanel, NextPreserves, PTL DEF Spec

\* The panel's state keeps its type, whatever overlaps.
THEOREM HistoryTypes == Spec => []TypeOK
<1>1. IInv => TypeOK
  BY DEF IInv
<1> QED BY <1>1, HistoryInvariant, PTL

\* Every history[historyI] the buttons and loadMetaTable read is a table, and
\* the history never outgrows its cap, in every interleaving.
THEOREM PositionStaysInHistory == Spec => []PositionInHistory
<1>1. IInv => PositionInHistory
  BY DEF IInv, Usable, PositionInHistory, Last
<1> QED BY <1>1, HistoryInvariant, PTL

\* Neighbours in the history always differ, so back and forward always move to
\* another table.
THEOREM HistoryHasNoRepeats == Spec => []NoRepeats
<1>1. IInv => NoRepeats
  BY DEF IInv, Usable, NoRepeats, Last
<1> QED BY <1>1, HistoryInvariant, PTL

\* An answer never loses or alters an item behind the current position, other
\* than the oldest one of a full history.
THEOREM BackIsNeverLost == Spec => BackStaysPossible
<1>1. ASSUME IInv, [Next]_vars
      PROVE  [\A l \in Pending : Answer(l) =>
                \A i \in 0..historyI :
                  \/ i < Len(history') /\ history'[i + 1] = Item(i)
                  \/ Len(history') = cap /\ i > 0 /\ history'[i] = Item(i)
                  \/ Len(history') = cap /\ i = 0]_vars
  <2> SUFFICES ASSUME NEW l \in Pending, Answer(l), NEW i \in 0..historyI
               PROVE  \/ i < Len(history') /\ history'[i + 1] = Item(i)
                      \/ Len(history') = cap /\ i > 0 /\ history'[i] = Item(i)
                      \/ Len(history') = cap /\ i = 0
    OBVIOUS
  <2>1. PICK t \in NamesAtAnswer(l) :
          /\ shown' = [name |-> t, columns |-> load[l].table]
          /\ \/ load[l].from = "history" /\ UNCHANGED <<history, historyI>>
             \/ load[l].from # "history" /\ Push(t)
    BY DEF Answer
  <2>2. t \in Table /\ Usable(history, historyI)
    BY <1>1, <2>1, Asked, Parts DEF Pending
  <2>3. CASE Push(t)
    BY <2>2, <2>3, Pushed
  <2>4. CASE UNCHANGED <<history, historyI>>
    BY <2>2, <2>4 DEF Usable, Item
  <2> QED BY <2>1, <2>3, <2>4
<1> QED BY <1>1, HistoryInvariant, PTL DEF Spec, BackStaysPossible

-----------------------------------------------------------------------------
(***************************************************************************)
(* One load at a time: CalmSpec of ObjectPanel.                            *)
(***************************************************************************)

\* At most one load is in flight, and the spinner says so.
OneLoad ==
  /\ \A k, l \in Pending : k = l
  /\ loading = (Pending # {})

\* A load still fits the panel it was read from: a refresh is about the table
\* shown, a step through the history about the item it moved to.
LoadFits ==
  \A l \in Pending :
    /\ load[l].from = "shown" => load[l].table = shown.name
    /\ load[l].from = "history" => historyI >= 0 /\ load[l].table = Item(historyI)

\* The stored session was saved between loads.
SavedRests == saved # none => saved.loading = FALSE /\ saved.shown.columns = saved.shown.name

SelectionFits == selected \in {none, shown.name}

Calm == OneLoad /\ LoadFits /\ SavedRests /\ SelectionFits /\ ColumnsMatch /\ StatementsFit

CInv == IInv /\ Calm

-----------------------------------------------------------------------------
\* Every step is one of the panel's history, or leaves its state alone.
LEMMA StepsOfTheHistory ==
  ASSUME CInv, [CalmNext]_panelVars
  PROVE  IInv'
<1>1. CASE CalmNext
  <2>1. PanelNext
    BY <1>1 DEF CalmNext
  <2>2. Next \/ UNCHANGED vars
    BY <2>1 DEF PanelNext, Next, Select, ShowForm, HideForms, Submit, SubmitDistro, SubmitOf,
                StatsByGroup, CompareColumns
  <2> QED BY <2>2, NextPreserves DEF CInv
<1>2. CASE UNCHANGED panelVars
  <2>1. UNCHANGED vars
    BY <1>2 DEF panelVars
  <2> QED BY <2>1, NextPreserves DEF CInv
<1> QED BY <1>1, <1>2

LEMMA TwoAreNotOne ==
  ASSUME NEW k, NEW l, Cardinality({k, l}) <= 1
  PROVE  k = l
<1> SUFFICES ASSUME k # l PROVE FALSE
  OBVIOUS
<1>1. IsFiniteSet({k}) /\ Cardinality({k}) = 1
  BY FS_Singleton
<1>2. Cardinality({k} \cup {l}) = 2
  BY <1>1, FS_AddElement
<1>3. {k} \cup {l} = {k, l}
  OBVIOUS
<1> QED BY <1>2, <1>3

\* A load that starts is alone.
LEMMA StartsAlone ==
  ASSUME CInv, NEW l \in Load, NEW f \in {"click", "shown", "history"}, NEW t,
         Start(l, f, t), Cardinality(Pending') <= 1
  PROVE  /\ Pending' = {l} /\ load'[l] = [from |-> f, table |-> t]
         /\ loading = FALSE /\ loading' = TRUE
         /\ shown' = shown /\ saved' = saved /\ Redrawn
<1>1. load \in [Load -> Loads] /\ l \notin Pending
  BY Parts DEF CInv, Start
<1>2. load' = [load EXCEPT ![l] = [from |-> f, table |-> t]]
  BY DEF Start
<1>3. load'[l] = [from |-> f, table |-> t] /\ \A m \in Load \ {l} : load'[m] = load[m]
  BY <1>1, <1>2
<1>4. Pending' = Pending \cup {l}
  BY <1>1, <1>3 DEF Pending
<1>5. Pending = {}
  <2> SUFFICES ASSUME NEW k \in Pending PROVE FALSE
    OBVIOUS
  <2>1. Pending = {k}
    BY DEF CInv, Calm, OneLoad
  <2>2. Pending' = {k, l}
    BY <1>4, <2>1
  <2> QED BY <1>1, <2>2, TwoAreNotOne
<1>6. loading = FALSE
  BY <1>5 DEF CInv, Calm, OneLoad
<1> QED BY <1>3, <1>4, <1>5, <1>6 DEF Start

\* With a load that ends, none is left.
LEMMA EndsAlone ==
  ASSUME CInv, NEW l \in Pending, load' = [load EXCEPT ![l] = Free]
  PROVE  Pending' = {} /\ loading = TRUE
<1>1. load \in [Load -> Loads] /\ l \in Load
  BY Parts DEF CInv, Pending
<1>2. load'[l].from = "free" /\ \A m \in Load \ {l} : load'[m] = load[m]
  BY <1>1 DEF Free
<1>3. Pending = {l} /\ loading = TRUE
  BY DEF CInv, Calm, OneLoad
<1>4. Pending' = {}
  BY <1>2, <1>3 DEF Pending
<1> QED BY <1>3, <1>4

-----------------------------------------------------------------------------
LEMMA StartKeepsCalm ==
  ASSUME CInv, NEW l \in Load, NEW f \in {"click", "shown", "history"}, NEW t,
         Start(l, f, t), Cardinality(Pending') <= 1,
         f = "shown" => t = shown.name,
         f = "history" => historyI' >= 0 /\ t = history'[historyI' + 1],
         SelectionFollows, UNCHANGED asked
  PROVE  Calm'
<1>1. /\ Pending' = {l} /\ load'[l] = [from |-> f, table |-> t]
      /\ loading = FALSE /\ loading' = TRUE
      /\ shown' = shown /\ saved' = saved /\ Redrawn
  BY StartsAlone
<1>2. local' = shown' /\ selected' = none
  BY <1>1 DEF Redrawn, SelectionFollows
<1>3. LoadFits'
  BY <1>1 DEF LoadFits, Item
<1>4. OneLoad'
  BY <1>1 DEF OneLoad
<1>5. SavedRests' /\ SelectionFits' /\ ColumnsMatch' /\ StatementsFit'
  BY <1>1, <1>2 DEF CInv, Calm, SavedRests, SelectionFits, ColumnsMatch, StatementsFit
<1> QED BY <1>3, <1>4, <1>5 DEF Calm

LEMMA LoadsStartCalm ==
  ASSUME CInv, NEW l \in Load,
         (\E t \in Table : Open(l, t)) \/ Refresh(l) \/ Back(l) \/ Forward(l),
         Cardinality(Pending') <= 1, SelectionFollows, UNCHANGED asked
  PROVE  Calm'
<1>1. ASSUME NEW t \in Table, Open(l, t) PROVE Calm'
  BY <1>1, StartKeepsCalm DEF Open
<1>2. CASE Refresh(l)
  <2>1. local = shown
    BY DEF CInv, Calm, ColumnsMatch
  <2> QED BY <1>2, <2>1, StartKeepsCalm DEF Refresh
<1>3. ASSUME NEW i, Start(l, "history", Item(i)), historyI' = i, i \in Nat, history' = history
      PROVE  Calm'
  <2>1. Item(i) = history'[historyI' + 1] /\ historyI' >= 0
    BY <1>3 DEF Item
  <2> QED BY <1>3, <2>1, StartKeepsCalm
<1>4. historyI \in Int
  BY Parts DEF CInv, Usable
<1>5. CASE Back(l)
  BY <1>3, <1>4, <1>5 DEF Back
<1>6. CASE Forward(l)
  <2>1. historyI + 1 \in Nat
    BY Parts DEF CInv, Usable
  <2> QED BY <1>3, <1>6, <2>1 DEF Forward
<1> QED BY <1>1, <1>2, <1>5, <1>6

\* A load that ends leaves the panel as the save at its end finds it.
LEMMA EndKeepsCalm ==
  ASSUME CInv, NEW l \in Pending, load' = [load EXCEPT ![l] = Free],
         loading' = FALSE, Redrawn, SaveMaybe(Panel'), shown'.columns = shown'.name,
         SelectionFollows, UNCHANGED asked
  PROVE  Calm'
<1>1. Pending' = {} /\ loading = TRUE
  BY EndsAlone
<1>2. local' = shown' /\ selected' = none
  BY <1>1 DEF Redrawn, SelectionFollows
<1>3. OneLoad' /\ LoadFits'
  BY <1>1 DEF OneLoad, LoadFits
<1>4. SavedRests'
  <2>1. CASE saved' = saved
    BY <2>1 DEF CInv, Calm, SavedRests
  <2>2. CASE saved' = Panel'
    <3>1. saved'.loading = loading' /\ saved'.shown = shown'
      BY <2>2 DEF Panel
    <3> QED BY <3>1 DEF SavedRests
  <2> QED BY <2>1, <2>2 DEF SaveMaybe
<1>5. SelectionFits' /\ ColumnsMatch' /\ StatementsFit'
  BY <1>2 DEF CInv, Calm, SelectionFits, ColumnsMatch, StatementsFit
<1> QED BY <1>3, <1>4, <1>5 DEF Calm

\* An answer brings the columns of the table it names: a refresh reads the name
\* when it is answered, but nothing else was shown since it was asked.
LEMMA AnswerNames ==
  ASSUME CInv, NEW l \in Pending, NEW t \in NamesAtAnswer(l)
  PROVE  t = load[l].table
<1>1. local = shown /\ (load[l].from = "shown" => load[l].table = shown.name)
  BY DEF CInv, Calm, ColumnsMatch, LoadFits
<1> QED BY <1>1 DEF NamesAtAnswer

LEMMA LoadsEndCalm ==
  ASSUME CInv, NEW l \in Load, Answer(l) \/ Fail(l), SelectionFollows, UNCHANGED asked
  PROVE  Calm'
<1>1. CASE Answer(l)
  <2>1. /\ l \in Pending /\ load' = [load EXCEPT ![l] = Free]
        /\ loading' = FALSE /\ Redrawn /\ SaveMaybe(Panel')
    BY <1>1 DEF Answer
  <2>2. PICK t \in NamesAtAnswer(l) : shown' = [name |-> t, columns |-> load[l].table]
    BY <1>1 DEF Answer
  <2>3. shown'.columns = shown'.name
    BY <2>1, <2>2, AnswerNames
  <2> QED BY <2>1, <2>3, EndKeepsCalm
<1>2. CASE Fail(l)
  <2>1. /\ l \in Pending /\ load' = [load EXCEPT ![l] = Free]
        /\ loading' = FALSE /\ Redrawn /\ SaveMaybe(Panel') /\ shown' = shown
    BY <1>2 DEF Fail
  <2>2. shown.columns = shown.name
    BY DEF CInv, Calm, ColumnsMatch
  <2> QED BY <2>1, <2>2, EndKeepsCalm
<1> QED BY <1>1, <1>2

-----------------------------------------------------------------------------
\* Between loads the session is saved and loaded.
LEMMA RestoreRests ==
  ASSUME CInv, Restore(IF saved = none THEN Blank ELSE saved)
  PROVE  loading' = FALSE /\ shown'.columns = shown'.name
<1>1. CASE saved = none
  <2>1. shown' = Blank.shown /\ loading' = Blank.loading
    BY <1>1 DEF Restore
  <2> QED BY <2>1 DEF Blank
<1>2. CASE saved # none
  <2>1. shown' = saved.shown /\ loading' = saved.loading
    BY <1>2 DEF Restore
  <2> QED BY <1>2, <2>1 DEF CInv, Calm, SavedRests
<1> QED BY <1>1, <1>2

\* What a loaded session shows is drawn, unless it is on the screen already.
LEMMA LoadedIsDrawn ==
  ASSUME CInv, LoadSession, ~ Namesake, loading = FALSE
  PROVE  /\ local' = shown'
         /\ SameName(shown.name, shown'.name) => shown' = shown
<1>1. Restore(IF saved = none THEN Blank ELSE saved) /\ Redrawn
  BY DEF LoadSession
<1>2. loading' = FALSE /\ shown'.columns = shown'.name
  BY <1>1, RestoreRests
<1>3. local = shown /\ shown.columns = shown.name
  BY DEF CInv, Calm, ColumnsMatch
<1>4. SameName(shown.name, shown'.name) => shown'.name = shown.name
  <2>1. CASE saved = none
    <3>1. shown' = Blank.shown
      BY <1>1, <2>1 DEF Restore
    <3>2. shown'.name = none
      BY <3>1 DEF Blank
    <3> QED BY <3>2 DEF SameName
  <2>2. CASE saved # none
    <3>1. shown' = saved.shown
      BY <1>1, <2>2 DEF Restore
    <3> QED BY <2>2, <3>1 DEF Namesake, SameName
  <2> QED BY <2>1, <2>2
<1>5. shown \in Named /\ shown' \in Named
  BY <1>1, Parts, Restored DEF CInv
<1>6. SameName(shown.name, shown'.name) => shown' = shown
  BY <1>2, <1>3, <1>4, <1>5 DEF Named
<1> QED BY <1>1, <1>2, <1>3, <1>6 DEF Redrawn

LEMMA SessionKeepsCalm ==
  ASSUME CInv, Pending = {}, UNCHANGED asked,
         \/ Save /\ SelectionFollows
         \/ LoadSession /\ SelectionFollows /\ ~ Namesake
         \/ Reopen /\ selected' = none
  PROVE  Calm'
<1>1. loading = FALSE /\ local = shown /\ shown.columns = shown.name
  BY DEF CInv, Calm, OneLoad, ColumnsMatch
<1>2. CASE Save /\ SelectionFollows
  <2>1. /\ shown' = shown /\ local' = local /\ loading' = loading /\ load' = load
        /\ saved' = Panel
    BY <1>2 DEF Save
  <2>2. Panel.loading = loading /\ Panel.shown = shown
    BY DEF Panel
  <2>3. Pending' = {}
    BY <2>1 DEF Pending
  <2>4. selected' \in {selected, none}
    BY <1>2 DEF SelectionFollows
  <2>5. OneLoad' /\ LoadFits' /\ SavedRests'
    BY <1>1, <2>1, <2>2, <2>3 DEF OneLoad, LoadFits, SavedRests
  <2>6. SelectionFits' /\ ColumnsMatch' /\ StatementsFit'
    BY <1>1, <2>1, <2>4 DEF CInv, Calm, SelectionFits, ColumnsMatch, StatementsFit
  <2> QED BY <2>5, <2>6 DEF Calm
<1>3. ASSUME load' \in {load, [l \in Load |-> Free]}, saved' = saved,
             loading' = FALSE, local' = shown', shown'.columns = shown'.name, SelectionFits'
      PROVE  Calm'
  <2>1. Pending' = {}
    <3>1. CASE load' = load
      BY <3>1 DEF Pending
    <3>2. CASE load' = [l \in Load |-> Free]
      BY <3>2 DEF Pending, Free
    <3> QED BY <1>3, <3>1, <3>2
  <2>2. OneLoad' /\ LoadFits'
    BY <1>3, <2>1 DEF OneLoad, LoadFits
  <2>3. SavedRests' /\ ColumnsMatch' /\ StatementsFit'
    BY <1>3 DEF CInv, Calm, SavedRests, ColumnsMatch, StatementsFit
  <2> QED BY <1>3, <2>2, <2>3 DEF Calm
<1>4. CASE LoadSession /\ SelectionFollows /\ ~ Namesake
  <2>1. /\ Restore(IF saved = none THEN Blank ELSE saved)
        /\ load' = load /\ saved' = saved
    BY <1>4 DEF LoadSession
  <2>2. loading' = FALSE /\ shown'.columns = shown'.name
    BY <2>1, RestoreRests
  <2>3. local' = shown' /\ (SameName(shown.name, shown'.name) => shown' = shown)
    BY <1>1, <1>4, LoadedIsDrawn
  <2>4. SelectionFits'
    BY <1>1, <1>4, <2>2, <2>3 DEF SelectionFollows, SelectionFits, CInv, Calm
  <2> QED BY <1>3, <2>1, <2>2, <2>3, <2>4
<1>5. CASE Reopen /\ selected' = none
  <2>1. /\ Restore(IF saved = none THEN Blank ELSE saved)
        /\ load' = [l \in Load |-> Free] /\ saved' = saved /\ local' = shown'
    BY <1>5 DEF Reopen
  <2>2. loading' = FALSE /\ shown'.columns = shown'.name
    BY <2>1, RestoreRests
  <2>3. SelectionFits'
    BY <1>5 DEF SelectionFits
  <2> QED BY <1>3, <2>1, <2>2, <2>3
<1> QED BY <1>2, <1>4, <1>5

\* Selecting, the forms, and submitting leave the panel's state alone.
LEMMA UserKeepsCalm ==
  ASSUME CInv, UNCHANGED vars, SelectionFits', StatementsFit'
  PROVE  Calm'
<1>1. /\ shown' = shown /\ local' = local /\ history' = history /\ historyI' = historyI
      /\ loading' = loading /\ load' = load /\ saved' = saved
  BY DEF vars
<1>2. Pending' = Pending
  BY <1>1 DEF Pending
<1>3. OneLoad' /\ LoadFits'
  BY <1>1, <1>2 DEF CInv, Calm, OneLoad, LoadFits, Item
<1>4. SavedRests' /\ ColumnsMatch'
  BY <1>1 DEF CInv, Calm, SavedRests, ColumnsMatch
<1> QED BY <1>3, <1>4 DEF Calm

LEMMA ClicksKeepCalm ==
  ASSUME CInv,
         \/ Select \/ ShowForm \/ HideForms
         \/ Submit \/ SubmitDistro \/ StatsByGroup \/ CompareColumns
  PROVE  Calm'
<1>1. /\ local = shown /\ shown.columns = shown.name /\ selected \in {none, shown.name}
      /\ asked.fields \in {none, asked.table}
  BY DEF CInv, Calm, ColumnsMatch, SelectionFits, StatementsFit
<1>2. ASSUME selected' \in {shown.name, none, selected}, asked' = asked, UNCHANGED vars
      PROVE  Calm'
  <2>1. SelectionFits' /\ StatementsFit'
    BY <1>1, <1>2 DEF SelectionFits, StatementsFit, vars
  <2> QED BY <1>2, <2>1, UserKeepsCalm
<1>3. ASSUME UNCHANGED vars, selected' = selected,
             asked' = Statement(shown.name, selected) \/ asked' = TabText
      PROVE  Calm'
  <2>1. asked'.fields \in {none, asked'.table}
    BY <1>1, <1>3 DEF Statement, TabText
  <2>2. SelectionFits' /\ StatementsFit'
    BY <1>1, <1>3, <2>1 DEF SelectionFits, StatementsFit, vars
  <2> QED BY <1>3, <2>2, UserKeepsCalm
<1>4. CASE Select \/ ShowForm \/ HideForms
  BY <1>1, <1>2, <1>4 DEF Select, ShowForm, HideForms
<1>5. CASE Submit \/ SubmitDistro
  BY <1>1, <1>3, <1>5 DEF Submit, SubmitDistro
<1>6. CASE StatsByGroup \/ CompareColumns
  BY <1>3, <1>6 DEF StatsByGroup, CompareColumns, SubmitOf
<1> QED BY <1>4, <1>5, <1>6

-----------------------------------------------------------------------------
LEMMA InitCalm == PanelInit => CInv
<1> SUFFICES ASSUME PanelInit PROVE CInv
  OBVIOUS
<1>1. IInv
  BY InitPanel DEF PanelInit
<1>2. /\ shown = Blank.shown /\ local = Blank.shown /\ loading = FALSE /\ saved = none
      /\ selected = none /\ asked = TabText
  BY DEF PanelInit, Init
<1>3. Pending = {}
  BY DEF PanelInit, Init, Pending, Free
<1>4. OneLoad /\ LoadFits /\ SavedRests /\ SelectionFits
  BY <1>2, <1>3 DEF OneLoad, LoadFits, SavedRests, SelectionFits
<1>5. ColumnsMatch /\ StatementsFit
  BY <1>2 DEF ColumnsMatch, StatementsFit, Blank, TabText, Statement
<1> QED BY <1>1, <1>4, <1>5 DEF CInv, Calm

LEMMA NextKeepsCalm == CInv /\ [CalmNext]_panelVars => CInv'
<1> SUFFICES ASSUME CInv, [CalmNext]_panelVars PROVE Calm'
  BY StepsOfTheHistory DEF CInv
<1>1. CASE UNCHANGED panelVars
  <2>1. UNCHANGED vars /\ selected' = selected /\ asked' = asked
    BY <1>1 DEF panelVars
  <2>2. SelectionFits' /\ StatementsFit'
    BY <2>1 DEF CInv, Calm, SelectionFits, StatementsFit, vars
  <2> QED BY <2>1, <2>2, UserKeepsCalm
<1>2. ASSUME CalmNext PROVE Calm'
  <2>1. /\ PanelNext /\ Cardinality(Pending') <= 1
        /\ Save \/ LoadSession \/ Reopen => Pending = {}
        /\ LoadSession => ~ Namesake
    BY <1>2 DEF CalmNext
  <2>2. ASSUME NEW l \in Load, SelectionFollows, UNCHANGED asked,
               \/ \E t \in Table : Open(l, t)
               \/ Refresh(l) \/ Back(l) \/ Forward(l) \/ Answer(l) \/ Fail(l)
        PROVE  Calm'
    BY <2>1, <2>2, LoadsStartCalm, LoadsEndCalm
  <2>3. CASE (Save \/ LoadSession) /\ SelectionFollows /\ UNCHANGED asked
    BY <2>1, <2>3, SessionKeepsCalm
  <2>4. CASE Reopen /\ selected' = none /\ UNCHANGED asked
    BY <2>1, <2>4, SessionKeepsCalm
  <2>5. CASE \/ Select \/ ShowForm \/ HideForms
             \/ Submit \/ SubmitDistro \/ StatsByGroup \/ CompareColumns
    BY <2>5, ClicksKeepCalm
  <2> QED BY <2>1, <2>2, <2>3, <2>4, <2>5 DEF PanelNext, Work
<1> QED BY <1>1, <1>2

\* The inductive invariant: what is in flight was read from what is on the
\* screen, and so was the selection; what is stored was saved between loads.
LEMMA CalmInvariant == CalmSpec => []CInv
  BY InitCalm, NextKeepsCalm, PTL DEF CalmSpec

\* The panel shows the columns of the table it names, and so does the copy its
\* rows and buttons use.
THEOREM ColumnsOfTheTable == CalmSpec => []ColumnsMatch
<1>1. CInv => ColumnsMatch
  BY DEF CInv, Calm
<1> QED BY <1>1, CalmInvariant, PTL

\* What a button or a form submits names columns of the table it is about.
THEOREM StatementsAreOfOneTable == CalmSpec => []StatementsFit
<1>1. CInv => StatementsFit
  BY DEF CInv, Calm
<1> QED BY <1>1, CalmInvariant, PTL

\* A successful load leaves the panel at the table the history stands at,
\* whether it came from a click, a refresh or a step through the history.
THEOREM PanelStandsInHistory == CalmSpec => ShowsCurrent
<1>1. ASSUME CInv, [CalmNext]_panelVars
      PROVE  [\A l \in Pending : Answer(l) =>
                /\ historyI' >= 0
                /\ shown'.name.name = history'[historyI' + 1].name]_vars
  <2> SUFFICES ASSUME NEW l \in Pending, Answer(l)
               PROVE  historyI' >= 0 /\ shown'.name.name = history'[historyI' + 1].name
    OBVIOUS
  <2>1. PICK t \in NamesAtAnswer(l) :
          /\ shown' = [name |-> t, columns |-> load[l].table]
          /\ \/ load[l].from = "history" /\ UNCHANGED <<history, historyI>>
             \/ load[l].from # "history" /\ Push(t)
    BY DEF Answer
  <2>2. t = load[l].table /\ shown'.name = t
    BY <1>1, <2>1, AnswerNames
  <2>3. IInv /\ l \in Load /\ Usable(history, historyI)
    BY <1>1, Parts DEF CInv, Pending
  <2>4. t \in Table
    BY <2>1, <2>3, Asked
  <2>5. CASE Push(t)
    BY <2>2, <2>3, <2>4, <2>5, Pushed
  <2>6. CASE load[l].from = "history" /\ UNCHANGED <<history, historyI>>
    <3>1. historyI >= 0 /\ load[l].table = Item(historyI)
      BY <1>1, <2>6 DEF CInv, Calm, LoadFits
    <3> QED BY <2>2, <2>6, <3>1 DEF Item
  <2> QED BY <2>1, <2>5, <2>6
<1> QED BY <1>1, CalmInvariant, PTL DEF CalmSpec, ShowsCurrent
==============================================================================
