----------------------------- MODULE Statement ------------------------------
(***************************************************************************)
(* One result of a window and the statements submitted for it, from the    *)
(* button to the history: submitQuery with its continuations (dbnet.ts),   *)
(* the cache of rows in IndexedDB and pullResult (TabTable.tsx), what the  *)
(* session keeps of a result (query.ts), and on the server the statements  *)
(* that run, their cancellation and the history the middleware of the      *)
(* routes writes (functions.go).  The data base and dbREST, which runs     *)
(* the statements, are external.                                           *)
(*                                                                         *)
(* submitQuery shares its Query object with the result: what the user or   *)
(* a later submission does to the query of the result, it does to the      *)
(* object a running submission still posts from.  Many results and tabs,   *)
(* and who wins among overlapping answers, are module QueryPanel's.        *)
(***************************************************************************)
EXTENDS Shell

CONSTANT MaxQuery   \* statements submitted in a behaviour (a bound)

ASSUME QueryAssumption == MaxQuery \in Nat

Query == 1..MaxQuery
Text  == {"a", "b"}
blank == ""
Detached == 0   \* of an object that no submission holds, and the id of no query

VARIABLES
  object,    \* Query object -> [text, rows, err]; rows: the query they answer
  result,    \* [ref, id, loading, from_cache]: its object, and the id of that
  frame,     \* query -> how far its submitQuery is
  wire,      \* query -> where its request or answer is
  sent,      \* query -> the text its latest request carries
  pulls,     \* ids that pullResult is looking up
  cache,     \* query -> its entry in IndexedDB
  session,   \* the result in the stored session
  stmt,      \* query -> its statement on the server
  ran,       \* query -> the text the server was given to run
  cancels,   \* cancellations posted
  records,   \* upserts of the middleware under way
  history,   \* query -> status in its row of the history
  ghost      \* what the properties remember: [mixed, draft, spin, unrecorded]

windowVars == <<object, result, frame, sent, pulls, cache, ghost>>
serverVars == <<stmt, ran, cancels, records, history>>
statementVars == <<windowVars, wire, session, serverVars>>

Shown   == object[result.ref]
Waiting == {q \in Query : frame[q] = "waiting"}
Ended   == {"done", "empty", "errored", "cancelled"}
Blank   == [text |-> blank, rows |-> Detached, err |-> FALSE]

StatementType ==
  /\ object \in [0..MaxQuery -> [text : Text \cup {blank}, rows : 0..MaxQuery, err : BOOLEAN]]
  /\ result \in [ref : 0..MaxQuery, id : 0..MaxQuery, loading : BOOLEAN, from_cache : BOOLEAN]
  /\ frame \in [Query -> {"unused", "waiting", "ended", "failed", "broken", "lost"}]
  /\ wire \in [Query -> {"none", "posted", "resumed", "handled", "continue", "rows", "norows",
                         "error", "broken"}]
  /\ stmt \in [Query -> {"unknown", "running"} \cup Ended]
  /\ history \in [Query -> {"none", "running"} \cup Ended]

StatementInit ==
  /\ object = [q \in 0..MaxQuery |-> Blank]
  /\ result = [ref |-> Detached, id |-> Detached, loading |-> FALSE, from_cache |-> FALSE]
  /\ frame = [q \in Query |-> "unused"]
  /\ wire = [q \in Query |-> "none"]
  /\ sent = [q \in Query |-> blank]
  /\ pulls = {}
  /\ cache = [q \in Query |-> Blank]
  /\ session = [id |-> Detached, text |-> blank, err |-> FALSE, loading |-> FALSE]
  /\ stmt = [q \in Query |-> "unknown"]
  /\ ran = [q \in Query |-> blank]
  /\ cancels = {} /\ records = {}
  /\ history = [q \in Query |-> "none"]
  /\ ghost = [mixed |-> FALSE, draft |-> FALSE, spin |-> "none", unrecorded |-> {}]

-----------------------------------------------------------------------------
(* The window.                                                             *)

App == page = "app"

\* state.save: the result without its rows.
Payload(r, o) == [id |-> r.id, text |-> o.text, err |-> o.err, loading |-> r.loading]
Save(r, o) == session' = IF Up THEN Payload(r, o) ELSE session

SaveSession ==
  /\ Act /\ App /\ Save(result, Shown)
  /\ UNCHANGED <<windowVars, wire, serverVars>>

\* state.load: the result of the session takes the place of the one shown.
Restored ==
  /\ object' = [object EXCEPT ![Detached] =
                  [text |-> session.text, rows |-> Detached, err |-> session.err]]
  /\ result' = [ref |-> Detached, id |-> session.id,
                loading |-> session.loading, from_cache |-> FALSE]

\* "Load session": submissions go on.
LoadSession ==
  /\ Act /\ App /\ Up /\ Restored
  /\ ghost' = [ghost EXCEPT !.mixed = @ \/ Waiting # {}, !.draft = FALSE,
                            !.spin = IF session.loading THEN "session" ELSE "none"]
  /\ UNCHANGED <<frame, sent, pulls, cache, wire, session, serverVars>>

\* The window's page goes: nobody waits for the answers any more.
Forgotten == frame' = [q \in Query |-> IF frame[q] = "waiting" THEN "lost" ELSE frame[q]]

LeavePage ==
  /\ Forgotten
  /\ pulls' = {}
  /\ UNCHANGED <<object, result, sent, cache, ghost, wire, session, serverVars>>

\* The page is back: the session, and the table's effect on its first render.
EnterPage ==
  /\ Restored
  /\ pulls' = {session.id} \ {Detached}
  /\ ghost' = [ghost EXCEPT !.draft = FALSE,
                            !.spin = IF session.loading THEN "session" ELSE "none"]
  /\ UNCHANGED <<frame, sent, cache, wire, session, serverVars>>

\* The user edits the text of the result in its overlay.
Edit(t) ==
  /\ Act /\ App /\ t # Shown.text
  /\ object' = [object EXCEPT ![result.ref].text = t]
  /\ ghost' = [ghost EXCEPT !.mixed = @ \/ Waiting # {}, !.draft = TRUE]
  /\ UNCHANGED <<result, frame, sent, pulls, cache, wire, session, serverVars>>

\* The text of the worksheet's editor, unless it is blank.
EditorText == "a"

\* refreshResult, the overlay's Run, an export, fetchRows with a higher limit:
\* submitQuery for this result.  The object it shows is reset in place.
ToSubmit == IF Shown.text # blank THEN Shown.text ELSE EditorText

Reset(t) == [Blank EXCEPT !.text = t]

Submit(q) ==
  /\ Act /\ App
  /\ frame[q] = "unused" /\ \A p \in Query : p < q => frame[p] # "unused"
  /\ object' = [object EXCEPT ![result.ref] = Reset(ToSubmit), ![q] = Reset(ToSubmit)]
  /\ result' = [result EXCEPT !.ref = q, !.id = q, !.loading = TRUE]
  /\ frame' = [frame EXCEPT ![q] = "waiting"]
  /\ wire' = [wire EXCEPT ![q] = "posted"]
  /\ sent' = [sent EXCEPT ![q] = ToSubmit]
  /\ ghost' = [ghost EXCEPT !.mixed = @ \/ Waiting # {}, !.draft = FALSE, !.spin = "statement"]
  /\ UNCHANGED <<pulls, cache, session, serverVars>>

\* fetchRows starts the spinner before submitQuery knows that both the text and
\* the editor are blank, and stops it, whatever runs, at the highest limit.
FetchRows ==
  /\ Act /\ App
  /\ \E loading \in BOOLEAN :
       /\ loading => Shown.text = blank
       /\ result' = [result EXCEPT !.loading = loading]
       /\ ghost' = [ghost EXCEPT !.spin = IF loading THEN "blank" ELSE "none"]
  /\ UNCHANGED <<object, frame, sent, pulls, cache, wire, session, serverVars>>

\* "Kill query", on the button the spinner brings.
CancelSQL ==
  /\ Act /\ App /\ result.loading /\ result.id # Detached
  /\ cancels' = cancels \cup {result.id}
  /\ UNCHANGED <<windowVars, wire, session, stmt, ran, records, history>>

\* The table is drawn anew, after another worksheet or result was selected.
ShowTable ==
  /\ Act /\ App /\ ~result.from_cache /\ Shown.rows = Detached /\ result.id # Detached
  /\ pulls' = pulls \cup {result.id}
  /\ UNCHANGED <<object, result, frame, sent, cache, ghost, wire, session, serverVars>>

\* pullResult has looked p up: rows that are found replace the query.
PulledBug(p) == [cache[p] EXCEPT !.text = Shown.text]   \* sets the rows only
Pulled(p)    == cache[p]

PullResult(p) ==
  /\ Reaction /\ p \in pulls
  /\ pulls' = pulls \ {p}
  /\ IF cache[p].rows # Detached
     THEN /\ object' = [object EXCEPT ![Detached] = Pulled(p)]
          /\ result' = [ref |-> Detached, id |-> p, loading |-> FALSE, from_cache |-> TRUE]
          /\ ghost' = [ghost EXCEPT !.mixed = @ \/ Waiting # {}, !.draft = FALSE, !.spin = "none"]
     ELSE UNCHANGED <<object, result, ghost>>
  /\ UNCHANGED <<frame, sent, cache, wire, session, serverVars>>

\* A response of fewer bytes than a buffer leaves when the middleware is done.
HeldBug(q) == FALSE   \* the upsert runs on after the answer
Held(q)    == \E r \in records : r.query = q /\ r.request = "sql" /\ wire[q] # "rows"

Arrived(q, what) == frame[q] = "waiting" /\ wire[q] = what /\ ~Held(q)

\* 202: the text of the answer, when it has one, is put into the Query object
\* and shown, and the object's text is posted again.
Continued(q) == {object[q].text, ran[q]}

Continue(q) ==
  /\ Reaction /\ App /\ Arrived(q, "continue")
  /\ \E t \in Continued(q) :
       /\ object' = [object EXCEPT ![q].text = t, ![result.ref].text = t]
       /\ sent' = [sent EXCEPT ![q] = t]
  /\ wire' = [wire EXCEPT ![q] = "resumed"]
  /\ UNCHANGED <<result, frame, pulls, cache, ghost, session, serverVars>>

\* The answer's rows, possibly none, are shown and cached.
Succeed(q) ==
  LET answered == [object[q] EXCEPT !.rows = IF wire[q] = "rows" THEN q ELSE Detached,
                                    !.err = FALSE]
      shown    == [result EXCEPT !.ref = q, !.id = q, !.loading = FALSE]
  IN  /\ Reaction /\ App
      /\ Arrived(q, "rows") \/ Arrived(q, "norows")
      /\ object' = [object EXCEPT ![q] = answered]
      /\ result' = shown
      /\ cache' = [cache EXCEPT ![q] = answered]
      /\ frame' = [frame EXCEPT ![q] = "ended"]
      /\ wire' = [wire EXCEPT ![q] = "none"]
      /\ Save(shown, answered)
      /\ ghost' = [ghost EXCEPT !.spin = "none"]
      /\ UNCHANGED <<sent, pulls, serverVars>>

\* The catch: an answer with an error, or none.
StoppedBug(r) == r                                 \* the catch forgets the spinner
Stopped(r)    == [r EXCEPT !.loading = FALSE]

Fail(q) ==
  /\ Reaction /\ App
  /\ \/ Arrived(q, "error")  /\ frame' = [frame EXCEPT ![q] = "failed"]
     \/ Arrived(q, "broken") /\ frame' = [frame EXCEPT ![q] = "broken"]
  /\ object' = [object EXCEPT ![q].err = TRUE]
  /\ result' = Stopped(result)
  /\ wire' = [wire EXCEPT ![q] = "none"]
  /\ Save(result', object'[result.ref])
  /\ ghost' = [ghost EXCEPT !.spin = IF result'.loading THEN @ ELSE "none"]
  /\ UNCHANGED <<sent, pulls, cache, serverVars>>

WindowStep ==
  \/ SaveSession \/ LoadSession \/ FetchRows \/ CancelSQL \/ ShowTable
  \/ \E t \in Text : Edit(t)
  \/ \E q \in Query : \/ Submit(q) \/ PullResult(q) \/ Continue(q) \/ Succeed(q) \/ Fail(q)

-----------------------------------------------------------------------------
(* The server.                                                             *)

\* The routes' handler starts the statement of a new id, or finds it again.  A
\* continuation of an unknown one is refused, or runs the text it carries.
Accept(q) ==
  /\ Reaction /\ Up /\ wire[q] \in {"posted", "resumed"}
  /\ IF stmt[q] = "unknown"
     THEN stmt' = [stmt EXCEPT ![q] = "running"] /\ ran' = [ran EXCEPT ![q] = sent[q]]
     ELSE UNCHANGED <<stmt, ran>>
  /\ wire' = [wire EXCEPT ![q] = "handled"]
  /\ UNCHANGED <<windowVars, session, cancels, records, history>>

\* Also what a request comes to when no server listens.
Refuse(q) ==
  /\ Reaction
  /\ IF Up THEN wire[q] = "resumed" /\ stmt[q] = "unknown"
           ELSE wire[q] \in {"posted", "resumed"}
  /\ wire' = [wire EXCEPT ![q] = "broken"]
  /\ UNCHANGED <<windowVars, session, serverVars>>

Run(q, status) ==
  /\ Reaction /\ stmt[q] = "running"
  /\ stmt' = [stmt EXCEPT ![q] = status]
  /\ UNCHANGED <<windowVars, wire, session, ran, cancels, records, history>>

\* The answer to a request of a statement in this state.
Code(status) == CASE status = "running" -> "continue"
                  [] status = "done"    -> "rows"
                  [] status = "empty"   -> "norows"
                  [] OTHER              -> "error"

\* queryMiddleware: the handler has written its answer, and the row of the
\* statement is upserted, as it is now.
Record(q, request, status) ==
  records \cup {[query |-> q, request |-> request, status |-> status]}

Respond(q) ==
  /\ Reaction /\ wire[q] = "handled"
  /\ wire' = [wire EXCEPT ![q] = Code(stmt[q])]
  /\ records' = Record(q, "sql", stmt[q])
  /\ UNCHANGED <<windowVars, session, stmt, ran, cancels, history>>

CancelStatement(q) ==
  /\ Reaction /\ Up /\ q \in cancels
  /\ cancels' = cancels \ {q}
  /\ LET status == IF stmt[q] = "running" THEN "cancelled" ELSE stmt[q]
     IN  /\ stmt' = [stmt EXCEPT ![q] = status]
         /\ records' = IF status = "unknown" THEN records ELSE Record(q, "cancel", status)
  /\ UNCHANGED <<windowVars, wire, session, ran, history>>

Upsert(r) ==
  /\ Reaction /\ r \in records
  /\ records' = records \ {r}
  /\ history' = [history EXCEPT ![r.query] = r.status]
  /\ UNCHANGED <<windowVars, wire, session, stmt, ran, cancels>>

\* An upsert that fails is logged, and the row stays as it was.
Lost(rs) == {r.query : r \in {x \in rs : x.status \in Ended}}

UpsertFails(r) ==
  /\ Reaction /\ r \in records
  /\ records' = records \ {r}
  /\ ghost' = [ghost EXCEPT !.unrecorded = @ \cup Lost({r})]
  /\ UNCHANGED <<object, result, frame, sent, pulls, cache, wire, session, stmt, ran, cancels, history>>

ServerStep ==
  \/ \E q \in Query : \/ Accept(q) \/ Refuse(q) \/ Respond(q) \/ CancelStatement(q)
                      \/ \E status \in Ended \ {"cancelled"} : Run(q, status)
  \/ \E r \in records : Upsert(r) \/ UpsertFails(r)

\* The server is gone, with its statements, its requests and its upserts; rows
\* on their way may still arrive.
DropStatements ==
  /\ \E kept \in SUBSET {q \in Query : wire[q] = "rows"} :
       wire' = [q \in Query |-> IF q \in kept \/ wire[q] = "none" THEN wire[q] ELSE "broken"]
  /\ stmt' = [q \in Query |-> "unknown"]
  /\ records' = {} /\ cancels' = {}
  /\ ghost' = [ghost EXCEPT !.unrecorded = @ \cup Lost(records)]
  /\ UNCHANGED <<object, result, frame, sent, pulls, cache, session, ran, history>>
=============================================================================
