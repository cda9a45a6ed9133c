---------------------------- MODULE MCWorksheets -----------------------------
(* Worksheets for TLC: two windows with a connection each; the first has more *)
(* worksheets than the second.                                                *)
EXTENDS Worksheets, TLC

CONSTANTS w1, w2, c1, c2, a1, a2, a3, b1

ConnOf == (w1 :> c1) @@ (w2 :> c2)
OfTab  == [t \in Tab |-> IF t = b1 THEN c2 ELSE c1]

(* Without SelectStale nothing reads stale. *)
CalmView == <<panel, up, fetch, row, post, chan, used, edits>>

(* One save, broadcast or opening at a time, and, for the first window, a save  *)
(* that its own reload overlaps; texts differ only while no save has succeeded. *)
FewInFlight ==
  LET saves    == Cardinality({w \in Window : post[w].status # "idle"})
      messages == Len(chan[w1]) + Len(chan[w2])
      opening  == Cardinality({w \in Window : up[w] = "booting"})
  IN  /\ \/ saves + messages + opening <= 1
         \/ saves + messages + opening = 2 /\ post[w1].status # "idle" /\ up[w1] = "booting"
      /\ edits > 0 => row = Blank

(* The first window alone clicks the folder; as long as a window or the stored  *)
(* session knows of it, two worksheets are made at most, and no text is edited. *)
HasFolder(p) == folder \in {p.selected} \cup {p.last[c] : c \in Conn}
FolderClicks ==
  /\ panel[w2].last[c2] # folder
  /\ (HasFolder(row) \/ \E w \in Window : HasFolder(panel[w]))
       => Cardinality(used) <= 2 /\ edits = 0
==============================================================================
