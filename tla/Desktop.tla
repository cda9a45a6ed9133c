------------------------------ MODULE Desktop -------------------------------
(***************************************************************************)
(* The desktop application: the shell and its servers, one result of its   *)
(* window with the statements it submits, and the files of a project.  A   *)
(* server that ends takes its requests with it; a page that goes leaves    *)
(* them without a reader.                                                  *)
(***************************************************************************)
EXTENDS Statement, FileStore

\* Statements and files meet in nothing but the server that serves them, so a
\* behaviour has acts on the one or on the other, and on the shell.
VARIABLE traffic

vars == <<acts, traffic, shellVars, statementVars, fileVars>>

Init == ShellInit /\ StatementInit /\ FileInit /\ traffic \in {"statements", "files"}

\* A step of the shell or of a server, and what it does to the rest.
ServerEnds == \E s \in Server : Ends(s)

Gone == /\ ServerEnds
        /\ IF Up /\ ~Up' THEN DropStatements /\ DropJobs ELSE UNCHANGED <<statementVars, fileVars>>

PageEnters == LoadPage /\ (IF Up THEN EnterPage ELSE UNCHANGED statementVars) /\ UNCHANGED fileVars
PageLeaves == (Reload \/ CloseWindow \/ Quit) /\ LeavePage /\ UNCHANGED fileVars

Alone ==
  /\ \E s \in Server : \/ Activate(s) \/ Listen(s) \/ Signal(s)
  /\ UNCHANGED <<statementVars, fileVars>>

Next ==
  /\ \/ Gone \/ PageEnters \/ PageLeaves \/ Alone
     \/ /\ traffic = "statements" /\ (WindowStep \/ ServerStep)
        /\ UNCHANGED <<shellVars, fileVars>>
     \/ /\ traffic = "files" /\ FileStep
        /\ UNCHANGED <<shellVars, statementVars>>
  /\ UNCHANGED traffic

Spec == Init /\ [][Next]_vars

-----------------------------------------------------------------------------
TypeOK == ShellType /\ StatementType /\ FileType

(***************************************************************************)
(* The text above the rows of a result is the one the server was given for *)
(* them: through continuations, failures, cancellations, the end of the    *)
(* server, a reload of the window and the cache.  It holds as long as the  *)
(* user has not edited that text since, and has never submitted, edited or *)
(* restored the result while a statement ran for it.                       *)
(***************************************************************************)
RowsOfTheirText ==
  (Shown.rows # Detached /\ ~ghost.mixed /\ ~ghost.draft) => Shown.text = ran[Shown.rows]

(***************************************************************************)
(* A spinner that a statement has started, in a page that has not been     *)
(* replaced, turns only while a submission waits: only those that a        *)
(* session or a fetch of a blank text has started are nobody's.            *)
(***************************************************************************)
SpinnerHasItsStatement ==
  (page = "app" /\ result.loading /\ ghost.spin = "statement") => Waiting # {}

(***************************************************************************)
(* The history tells the end of every statement the window has got the end *)
(* of, once its upserts are over: no older row of it, from a continuation  *)
(* or a cancellation, stays there or comes back.  Only an upsert of the    *)
(* end that failed, or went with its server, leaves an older row for good. *)
(***************************************************************************)
HistoryTellsTheEnd ==
  \A q \in Query :
    (frame[q] \in {"ended", "failed"} /\ q \notin ghost.unrecorded
       /\ \A r \in records : r.query # q) => history[q] \in Ended

(***************************************************************************)
(* A Write without Overwrite never truncates a body its client has not     *)
(* seen, unless that was written before or in the second in which the      *)
(* client's last Read took its time stamp, or after the check.             *)
(***************************************************************************)
NoLostUpdate ==
  [][\A c \in Client :
       (/\ job[c].op = "open" /\ job'[c].op = "fill" /\ ~job[c].overwrite
        /\ file.body \notin {0, view[c].body} /\ bodies[file.body].by # c)
         => bodies[file.body].at <= view[c].at \/ file.body # job[c].met]_vars

(***************************************************************************)
(* After the shell has quit, the last server it spawned is gone or has     *)
(* been told to go; a server that goes on was forgotten when a window was  *)
(* opened again on macOS.                                                  *)
(***************************************************************************)
OnlyForgottenServersStay ==
  \A s \in Server :
    (quit /\ Alive(s) /\ ~server[s].told) => darwin /\ s < proc
=============================================================================
