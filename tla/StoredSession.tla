---------------------------- MODULE StoredSession ----------------------------
(***************************************************************************)
(* The one stored session of Worksheets, when the saves of the windows     *)
(* follow one another: each window posts its own worksheets and the copies *)
(* it has of the others', and the server keeps the last session posted.    *)
(***************************************************************************)
EXTENDS Worksheets

VARIABLE
  kept   \* worksheet -> its text as a window of its connection stored it last,
         \* or Absent if it was not among those stored (a history variable)

storedVars == <<vars, kept>>

(***************************************************************************)
(* Everything in flight arrives before the next save, opening, edit,       *)
(* closing or deletion begins, and no save fails.                          *)
(***************************************************************************)
Quiet == \A w \in Window : post[w].status = "idle" /\ chan[w] = <<>> /\ up[w] # "booting"

SerialStep(w) ==
  \/ Create(w) \/ SelectFolder(w) \/ Broadcast(w) \/ Receive(w) \/ Open(w) \/ OpenDangling(w)
  \/ \E t \in Tab : Select(w, t)
  \/ Quiet /\ (Edit(w) \/ Save(w) \/ Boot(w) \/ \E t \in Tab : Close(w, t) \/ Delete(w, t))

\* A save replaces what its window's connection stored before.
StoreNoted(w) ==
  /\ Store(w)
  /\ kept' = [t \in Tab |-> IF of[t] # conn[w] THEN kept[t]
                            ELSE IF t \in Tabs(row') THEN row'.text[t] ELSE Absent]

SerialNext == \E w \in Window : StoreNoted(w) \/ (SerialStep(w) /\ UNCHANGED kept)

SerialInit == Init /\ kept = [t \in Tab |-> Absent]
SerialSpec == SerialInit /\ [][SerialNext]_storedVars

\* Whichever window saves, with whichever copies: the stored session holds every
\* worksheet its own connection has stored, with the text it stored last.
NothingLost ==
  \A t \in Tab : kept[t] # Absent => t \in Tabs(row) /\ row.text[t] = kept[t]

\* The server answers, and the browser runs callbacks.
LiveSerialSpec ==
  /\ SerialSpec
  /\ \A w \in Window : /\ WF_vars(Store(w))
                       /\ WF_vars(Broadcast(w)) /\ WF_vars(Receive(w))
                       /\ WF_vars(Open(w) \/ OpenDangling(w))

\* A worksheet saved in its own window gets to every other open window, but those
\* of its connection, unless it is closed or deleted first.
SavesReachWindows ==
  \A w, u \in Window : \A t \in Of(conn[w]) : conn[w] # conn[u] =>
    ((post[w].status = "sent" /\ t \in OwnVisible(w) /\ up[u] = "on")
       ~> (t \in Visible(panel[u]) \/ t \notin OwnVisible(w)))
==============================================================================
