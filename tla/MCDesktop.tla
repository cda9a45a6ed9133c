----------------------------- MODULE MCDesktop ------------------------------
(* Bounds of the Desktop model for TLC.                                     *)
EXTENDS Desktop, TLC

CONSTANTS c1, c2
Clients  == {c1, c2}
Symmetry == Permutations(Clients)

(* Upserts fail with one statement about: the end of one is unrecorded, or  *)
(* a statement is answered and has no row.                                  *)
HasAnswer(q) == \/ wire[q] \in {"continue", "rows", "norows", "error"}
                \/ frame[q] \in {"ended", "failed"}
Missed(q)    == HasAnswer(q) /\ history[q] = "none" /\ \A r \in records : r.query # q
LostAlone    == ghost.unrecorded # {} \/ (\E q \in Query : Missed(q)) => frame[2] = "unused"
=============================================================================
