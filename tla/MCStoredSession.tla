--------------------------- MODULE MCStoredSession ---------------------------
(* StoredSession for TLC: two connections, the second one open in two windows. *)
EXTENDS StoredSession, TLC

CONSTANTS w1, w2, w3, c1, c2, a1, a2, b1

ConnOf == (w1 :> c1) @@ (w2 :> c2) @@ (w3 :> c2)
OfTab  == [t \in Tab |-> IF t = b1 THEN c2 ELSE c1]

(* Nothing here reads stale.  *)
SerialView == <<panel, up, fetch, row, post, chan, used, edits, kept>>

(* The third window comes when all worksheets were made and before any text is  *)
(* edited; while it is there, it alone is reloaded.                             *)
ThirdWindow ==
  up[w3] # "off" => used = Tab /\ edits = 0 /\ up[w1] = "on" /\ up[w2] = "on"

(* The first window alone clicks the folder; as long as a window or the stored  *)
(* session knows of it, two worksheets are made at most, and no text is edited. *)
HasFolder(p) == folder \in {p.selected} \cup {p.last[c] : c \in Conn}
FolderClicks ==
  /\ panel[w2].last[c2] # folder
  /\ (HasFolder(row) \/ \E w \in Window : HasFolder(panel[w]))
       => up[w3] = "off" /\ Cardinality(used) <= 2 /\ edits = 0
==============================================================================
