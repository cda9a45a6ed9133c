----------------------------- MODULE AnswerBoard -----------------------------
(***************************************************************************)
(* What the worksheet panel promises its user, without worksheets, arrays  *)
(* or handles: a board of results.  A statement is asked for one result,   *)
(* its answer is shown in that result and nowhere else, and a result is    *)
(* never taken off the board while a statement asked for it is pending.    *)
(* QueryPanel implements it as long as its handles stay exact.             *)
(***************************************************************************)
CONSTANTS Result, Query, none

VARIABLES
  open,      \* the results on the board
  shown,     \* result -> the statement it shows
  asked,     \* statement -> the result it was asked for
  pending    \* statements without an answer

vars == <<open, shown, asked, pending>>

Init ==
  /\ open \subseteq Result
  /\ shown = [r \in Result |-> none]
  /\ asked = [q \in Query |-> none]
  /\ pending = {}

\* Results come and go; one that is waited for stays, one that stays is the
\* same as before, and one that comes or goes shows nothing.
Arrange ==
  /\ open' \subseteq Result
  /\ \A q \in pending : asked[q] \in open'

Untouched(r) == shown'[r] = IF r \in open \cap open' THEN shown[r] ELSE none

\* q is asked for r, old or new; old answers to r may still be pending.
Ask(q, r) ==
  /\ asked[q] = none
  /\ asked' = [asked EXCEPT ![q] = r]
  /\ pending' = pending \cup {q}
  /\ Arrange
  /\ r \in open'
  /\ shown' \in [Result -> Query \cup {none}]
  /\ shown'[r] = q
  /\ \A x \in Result \ {r} : Untouched(x)

\* q is answered in the result it was asked for, or fails and changes none.
Reply(q) ==
  /\ q \in pending
  /\ pending' = pending \ {q}
  /\ \/ shown' = [shown EXCEPT ![asked[q]] = q]
     \/ UNCHANGED shown
  /\ UNCHANGED <<open, asked>>

Rearrange ==
  /\ Arrange
  /\ shown' \in [Result -> Query \cup {none}]
  /\ \A x \in Result : Untouched(x)
  /\ UNCHANGED <<asked, pending>>

Next ==
  \/ \E q \in Query : Reply(q) \/ \E r \in Result : Ask(q, r)
  \/ Rearrange

Safety == Init /\ [][Next]_vars
==============================================================================
