--------------------------- MODULE DesktopProofs ----------------------------
(***************************************************************************)
(* Theorems about Desktop, for any number of servers, statements, clients  *)
(* of the file, bodies and seconds.                                        *)
(*                                                                         *)
(* The invariant has a part for the shell, one for the statements and one  *)
(* for the file.  A step of the one leaves the variables of the others     *)
(* alone, but for a server that ends and a page that comes or goes.        *)
(***************************************************************************)
EXTENDS Desktop, FiniteSetTheorems, TLAPS

-----------------------------------------------------------------------------
(* The shell.                                                              *)

\* Servers are spawned in order, and proc is the last of them.
SpawnedInOrder == \A s \in Server : server[s].stage = "none" <=> s > proc

\* Only macOS lets the shell open a second window.
OneWithoutDarwin == ~darwin => proc = 1

QuitTells == quit /\ Alive(proc) => server[proc].told

ShellInv == ShellType /\ SpawnedInOrder /\ OneWithoutDarwin /\ QuitTells

-----------------------------------------------------------------------------
(* The statements.                                                         *)

AnyText       == Text \cup {blank}
Status        == {"running"} \cup Ended
QueryObject   == [text : AnyText, rows : 0..MaxQuery, err : BOOLEAN]
ResultState   == [ref : 0..MaxQuery, id : 0..MaxQuery, loading : BOOLEAN, from_cache : BOOLEAN]
SessionRecord == [id : 0..MaxQuery, text : AnyText, err : BOOLEAN, loading : BOOLEAN]
HistoryRecord == [query : Query, request : {"sql", "cancel"}, status : Status]
GhostRecord   == [mixed : BOOLEAN, draft : BOOLEAN,
                  spin : {"none", "statement", "session", "blank"}, unrecorded : SUBSET Query]
Wires  == {"none", "posted", "resumed", "handled", "continue", "rows", "norows", "error", "broken"}
Frames == {"unused", "waiting", "ended", "failed", "broken", "lost"}

StatementTypes ==
  /\ object \in [0..MaxQuery -> QueryObject] /\ result \in ResultState
  /\ frame \in [Query -> Frames] /\ wire \in [Query -> Wires]
  /\ sent \in [Query -> AnyText] /\ ran \in [Query -> AnyText]
  /\ stmt \in [Query -> {"unknown"} \cup Status] /\ history \in [Query -> {"none"} \cup Status]
  /\ pulls \subseteq Query /\ cancels \subseteq Query
  /\ cache \in [Query -> QueryObject] /\ session \in SessionRecord
  /\ records \subseteq HistoryRecord /\ ghost \in GhostRecord

\* A submission that waits has a page; one that does not wait, and whose page
\* has not gone, has nothing on its way, and an unused one nothing anywhere.
FramesAndWires ==
  /\ Waiting # {} => page = "app"
  /\ \A q \in Query :
       /\ frame[q] \in {"unused", "ended", "failed", "broken"} => wire[q] = "none"
       /\ frame[q] = "unused" => stmt[q] = "unknown"
       /\ wire[q] = "handled" => stmt[q] # "unknown"

\* Rows are those of a statement that has ended well, and nothing runs for it.
RowsEnded ==
  /\ \A o \in 0..MaxQuery : object[o].rows # Detached => frame[object[o].rows] = "ended"
  /\ \A q \in Query : cache[q].rows # Detached => frame[cache[q].rows] = "ended"

\* Unless the user has mixed statements, the one that waits is the one shown,
\* with the text it was sent with, and the server runs that.
Unmixed ==
  ~ ghost.mixed =>
    /\ \A q \in Waiting :
         /\ result.ref = q /\ object[q].text = sent[q]
         /\ (stmt[q] # "unknown" \/ wire[q] \in {"handled", "continue", "rows", "norows", "error"})
              => ran[q] = sent[q]
    /\ \A q \in Query : cache[q].rows # Detached => cache[q].text = ran[cache[q].rows]

\* A row of the history that says "running" is on its way only while the answer
\* that says the same is held back for it.
RunningHeld ==
  \A r \in records : r.status = "running" => r.request = "sql" /\ wire[r.query] = "continue"

\* The end of a statement is in the history, or on its way there.
EndsRecorded ==
  \A q \in Query \ ghost.unrecorded :
    wire[q] \in {"rows", "norows", "error"} \/ frame[q] \in {"ended", "failed"}
      => history[q] \in Ended \/ \E r \in records : r.query = q

StatementInv ==
  /\ StatementTypes /\ FramesAndWires
  /\ RowsEnded /\ Unmixed /\ RowsOfTheirText
  /\ SpinnerHasItsStatement
  /\ RunningHeld /\ EndsRecorded

-----------------------------------------------------------------------------
(* The file.                                                               *)

\* Bodies are numbered in the order they are written.
BodiesCounted ==
  /\ \E n \in 0..MaxBody : DOMAIN bodies = 1..n
  /\ \A b \in DOMAIN bodies : bodies[b].at \in 0..now

\* The time stamp of the file is that of its body.
StampOfBody ==
  /\ file.modTs <= now
  /\ file.body # 0 => file.body \in DOMAIN bodies /\ bodies[file.body].at = file.modTs

\* What a client has read is no younger than its reading, and a write without
\* Overwrite that has passed its check met a body that is not either.
ViewsInOrder ==
  \A c \in Client :
    /\ view[c].modTs <= view[c].at
    /\ (job[c].op = "open" /\ ~job[c].overwrite /\ job[c].met # 0)
         => job[c].met \in DOMAIN bodies /\ bodies[job[c].met].at <= view[c].at

FileInv == FileType /\ BodiesCounted /\ StampOfBody /\ ViewsInOrder

IInv == ShellInv /\ StatementInv /\ FileInv /\ traffic \in {"statements", "files"}

-----------------------------------------------------------------------------
(* The shell's part.                                                       *)

LEMMA ActsCounted ==
  ASSUME acts \in 0..MaxActs, Act \/ Reaction
  PROVE  acts' \in 0..MaxActs
BY ShellAssumption, SMT DEF Act, Reaction

ServerRecord == [stage : {"none", "starting", "listening", "exited"}, told : BOOLEAN]

LEMMA StageSet ==
  ASSUME NEW stage, NEW told, NEW stage2
  PROVE  [[stage |-> stage, told |-> told] EXCEPT !.stage = stage2] = [stage |-> stage2, told |-> told]
BY SMT

LEMMA ServerRecords ==
  ASSUME NEW r \in ServerRecord
  PROVE  /\ [NotSpawned EXCEPT !.stage = "exited"] \in ServerRecord
         /\ [NotSpawned EXCEPT !.stage = "exited"].stage = "exited"
         /\ Spawned = [stage |-> "starting", told |-> FALSE]
         /\ [r EXCEPT !.stage = "listening"] \in ServerRecord
         /\ [r EXCEPT !.told = TRUE] \in ServerRecord
<1>1. /\ [NotSpawned EXCEPT !.stage = "exited"] = [stage |-> "exited", told |-> FALSE]
      /\ Spawned = [stage |-> "starting", told |-> FALSE]
  <2>1. [NotSpawned EXCEPT !.stage = "exited"] = [stage |-> "exited", told |-> FALSE]
    BY StageSet DEF NotSpawned
  <2>2. Spawned = [stage |-> "starting", told |-> FALSE]
    BY StageSet DEF NotSpawned, Spawned
  <2> QED
    BY <2>1, <2>2
<1>2. [stage |-> "exited", told |-> FALSE] \in ServerRecord
  BY Zenon DEF ServerRecord
<1>3. [r EXCEPT !.stage = "listening"] \in ServerRecord
  BY SMT DEF ServerRecord
<1>4. [r EXCEPT !.told = TRUE] \in ServerRecord
  BY Zenon DEF ServerRecord
<1> QED
  BY <1>1, <1>2, <1>3, <1>4

LEMMA ShellStarts == ShellInit => ShellInv
<1> SUFFICES ASSUME ShellInit PROVE ShellInv
  OBVIOUS
<1>1. acts = 0 /\ quit = FALSE /\ darwin \in BOOLEAN /\ proc = 1 /\ page = "loading"
      /\ server = [s \in Server |-> IF s = 1 THEN [stage |-> "starting", told |-> FALSE]
                                    ELSE [stage |-> "none", told |-> FALSE]]
  <2>1. [stage |-> "none", told |-> FALSE] \in ServerRecord
    BY Zenon DEF ServerRecord
  <2> QED
    BY <2>1, ServerRecords DEF ShellInit, NotSpawned
<1>2. server \in [Server -> ServerRecord]
  BY <1>1, Zenon DEF ServerRecord
<1>3. ShellType
  <2>1. acts \in 0..MaxActs /\ proc \in Server
    BY <1>1, ShellAssumption DEF Server
  <2> QED
    BY <1>1, <1>2, <2>1, Zenon DEF ShellType, ServerRecord
<1>4. SpawnedInOrder
  BY <1>1, ShellAssumption, SMT DEF SpawnedInOrder, Server
<1> QED
  BY <1>1, <1>3, <1>4 DEF ShellInv, OneWithoutDarwin, QuitTells

\* What happens to the process of one server, and to nothing else.
LEMMA ServerSteps ==
  ASSUME ShellInv, NEW s \in Server, Listen(s) \/ Signal(s) \/ Ends(s)
  PROVE  ShellInv' /\ page' = page
<1>1. ShellType /\ SpawnedInOrder /\ OneWithoutDarwin /\ QuitTells
  BY DEF ShellInv
<1>2. UNCHANGED <<darwin, proc, page, quit>> /\ acts' \in 0..MaxActs
  BY <1>1, ActsCounted DEF ShellType, Listen, Signal, Ends, CannotStart, MainExits, HandExits,
     BrokenPipe, Exit
<1>3. \/ server' = [server EXCEPT ![s] = [NotSpawned EXCEPT !.stage = "exited"]]
      \/ server' = [server EXCEPT ![s].stage = "listening"]
      \/ server' = [server EXCEPT ![s].told = TRUE]
  BY DEF Listen, Signal, Ends, CannotStart, MainExits, HandExits, BrokenPipe, Exit, Told
<1>4. server[s].stage \in {"starting", "listening"}
  BY DEF Listen, Signal, Ends, CannotStart, MainExits, HandExits, BrokenPipe, Alive
<1>5. ShellType'
  <2>1. server \in [Server -> ServerRecord]
    BY <1>1 DEF ShellType, ServerRecord
  <2>2. /\ [NotSpawned EXCEPT !.stage = "exited"] \in ServerRecord
        /\ [server[s] EXCEPT !.stage = "listening"] \in ServerRecord
        /\ [server[s] EXCEPT !.told = TRUE] \in ServerRecord
    BY <2>1, ServerRecords
  <2>3. \E x \in ServerRecord : server' = [server EXCEPT ![s] = x]
    BY <1>3, <2>1, <2>2
  <2>4. server' \in [Server -> ServerRecord]
    BY <2>1, <2>3
  <2> QED
    BY <1>1, <1>2, <2>4 DEF ShellType, ServerRecord
<1>6. SpawnedInOrder'
  BY <1>1, <1>2, <1>3, <1>4, SMT DEF ShellType, SpawnedInOrder, NotSpawned
<1>7. QuitTells'
  BY <1>1, <1>2, <1>3, <1>4, SMT DEF ShellType, QuitTells, NotSpawned, Alive
<1> QED
  BY <1>1, <1>2, <1>5, <1>6, <1>7 DEF ShellInv, OneWithoutDarwin

\* A second window needs a second server, and macOS.
LEMMA ActivateSteps ==
  ASSUME ShellInv, NEW s \in Server, Activate(s)
  PROVE  ShellInv' /\ page = "none" /\ page' = "loading"
<1>1. ShellType /\ SpawnedInOrder /\ darwin /\ ~quit /\ server[s].stage = "none"
      /\ server' = [server EXCEPT ![s] = [stage |-> "starting", told |-> FALSE]]
      /\ proc' = s /\ UNCHANGED <<darwin, quit>> /\ page = "none" /\ page' = "loading"
  <2>1. Spawned = [stage |-> "starting", told |-> FALSE]
    BY ServerRecords DEF ShellInv, ShellType, ServerRecord
  <2> QED
    BY <2>1 DEF ShellInv, Activate, CreateWindow, Start, Remember
<1>2. \A r \in Server : r < s => server[r].stage # "none"
  BY DEF Activate
<1>3. s = proc + 1
  <2>1. s > proc
    BY <1>1 DEF SpawnedInOrder
  <2>2. ~(proc + 1 < s)
    BY <1>1, <1>2, ShellAssumption, SMT DEF SpawnedInOrder, ShellType, Server
  <2> QED
    BY <1>1, <2>1, <2>2, ShellAssumption, SMT DEF Server, ShellType
<1>4. ShellType'
  BY <1>1, ActsCounted, SMT DEF ShellType, Activate
<1>5. SpawnedInOrder'
  BY <1>1, <1>3, SMT DEF ShellType, SpawnedInOrder, Server
<1> QED
  BY <1>1, <1>4, <1>5 DEF ShellInv, OneWithoutDarwin, QuitTells

\* The page is loaded, answered or left; only a quit tells a server.
LEMMA PageSteps ==
  ASSUME ShellInv, LoadPage \/ Reload \/ CloseWindow \/ Quit
  PROVE  ShellInv'
<1>1. ShellType /\ SpawnedInOrder /\ OneWithoutDarwin /\ QuitTells
  BY DEF ShellInv
<1>2. acts' \in 0..MaxActs
  BY <1>1, ActsCounted DEF ShellType, LoadPage, Reload, CloseWindow, Quit
<1>3. CASE UNCHANGED <<darwin, server, proc, quit>> /\ page' \in {"none", "loading", "blank", "app"}
  BY <1>1, <1>2, <1>3 DEF ShellInv, ShellType, SpawnedInOrder, OneWithoutDarwin, QuitTells, Alive
<1>4. CASE WillQuit
  <2>1. /\ quit' = TRUE /\ page' = "none" /\ UNCHANGED <<darwin, proc>>
        /\ server' = IF Alive(proc) THEN [server EXCEPT ![proc].told = TRUE] ELSE server
    BY <1>4 DEF WillQuit, Told
  <2>2. ShellType'
    <3>1. server \in [Server -> ServerRecord] /\ proc \in Server
      BY <1>1 DEF ShellType, ServerRecord
    <3>2. [server[proc] EXCEPT !.told = TRUE] \in ServerRecord
      BY <3>1, ServerRecords
    <3>3. server' \in [Server -> ServerRecord]
      BY <2>1, <3>1, <3>2
    <3> QED
      BY <1>1, <1>2, <2>1, <3>3 DEF ShellType, ServerRecord
  <2>3. SpawnedInOrder'
    BY <1>1, <2>1, SMT DEF ShellType, SpawnedInOrder
  <2>4. QuitTells'
    BY <1>1, <2>1, SMT DEF ShellType, QuitTells, Alive
  <2> QED
    BY <1>1, <2>1, <2>2, <2>3, <2>4 DEF ShellInv, OneWithoutDarwin
<1> QED
  BY <1>3, <1>4 DEF LoadPage, Reload, CloseWindow, Quit

\* A step that leaves the shell alone may still be an act of the user.
LEMMA ShellStays ==
  ASSUME ShellInv, UNCHANGED shellVars, Act \/ Reaction
  PROVE  ShellInv'
BY ActsCounted DEF ShellInv, ShellType, SpawnedInOrder, OneWithoutDarwin, QuitTells, Alive, shellVars

-----------------------------------------------------------------------------
(* The file's part.                                                        *)

FileRecord == [exists : BOOLEAN, body : 0..MaxBody, modTs : 0..MaxNow]
JobRecord  == [op : {"none", "read", "stat", "write", "open", "fill", "delete"},
               overwrite : BOOLEAN, met : 0..MaxBody, body : 0..MaxBody]
ViewRecord == [body : 0..MaxBody, modTs : 0..MaxNow, at : 0..MaxNow]

\* The next number of a body, and what is known of the bodies once it is used.
LEMMA NextBody ==
  ASSUME FileInv, NewBody <= MaxBody, NEW by, bodies' = Written(NewBody, by)
  PROVE  /\ NewBody \in 1..MaxBody /\ NewBody \notin DOMAIN bodies
         /\ DOMAIN bodies' \subseteq 1..MaxBody
         /\ \E n \in 0..MaxBody : DOMAIN bodies' = 1..n
         /\ \A b \in DOMAIN bodies : b \in DOMAIN bodies' /\ bodies'[b] = bodies[b]
         /\ NewBody \in DOMAIN bodies' /\ bodies'[NewBody].at = now
         /\ \A b \in DOMAIN bodies' : bodies'[b].at \in 0..now
<1>1. PICK n \in 0..MaxBody : DOMAIN bodies = 1..n
  BY DEF FileInv, BodiesCounted
<1>2. NewBody = n + 1
  <2>1. Cardinality(1..n) = n
    BY <1>1, FS_Interval, FileAssumption, SMT
  <2> QED
    BY <1>1, <2>1 DEF NewBody
<1>3. NewBody \in 1..MaxBody /\ DOMAIN bodies \cup {NewBody} = 1..(n + 1) /\ n + 1 \in 0..MaxBody
  BY <1>1, <1>2, FileAssumption, SMT
<1>4. DOMAIN bodies' = 1..(n + 1)
  BY <1>3 DEF Written
<1>5. NewBody \notin DOMAIN bodies
  BY <1>1, <1>2, SMT
<1>6. \A b \in DOMAIN bodies : b \in DOMAIN bodies' /\ bodies'[b] = bodies[b]
  BY DEF Written
<1>7. NewBody \in DOMAIN bodies' /\ bodies'[NewBody] = [by |-> by, at |-> now]
  BY <1>3, <1>5 DEF Written
<1>8. \A b \in DOMAIN bodies' : bodies'[b].at \in 0..now
  <2>1. \A b \in DOMAIN bodies : bodies[b].at \in 0..now
    BY DEF FileInv, BodiesCounted
  <2>2. now \in 0..now
    BY FileAssumption DEF FileInv, FileType
  <2> QED
    BY <1>6, <1>7, <2>1, <2>2 DEF Written
<1> QED
  BY <1>1, <1>3, <1>4, <1>5, <1>6, <1>7, <1>8, FileAssumption, SMT

LEMMA FileStarts == FileInit => FileInv
<1> SUFFICES ASSUME FileInit PROVE FileInv
  OBVIOUS
<1>1. /\ now = 0 /\ file = [exists |-> TRUE, body |-> 1, modTs |-> 0]
      /\ bodies = [b \in {1} |-> [by |-> "other", at |-> 0]]
      /\ job = [c \in Client |-> NoJob] /\ view = [c \in Client |-> NoView]
  BY DEF FileInit
<1>2. 0 \in 0..MaxBody /\ 1 \in 0..MaxBody /\ {1} = 1..1 /\ {1} \subseteq 1..MaxBody
      /\ 0 \in 0..MaxNow /\ 0 \in 0..0
  BY FileAssumption, SMT
<1>3. file \in FileRecord /\ NoJob \in JobRecord /\ NoView \in ViewRecord
  BY <1>1, <1>2, Zenon DEF FileRecord, JobRecord, ViewRecord, NoJob, NoView
<1>4. FileType
  BY <1>1, <1>2, <1>3 DEF FileType, FileRecord, JobRecord, ViewRecord
<1>5. BodiesCounted /\ StampOfBody
  BY <1>1, <1>2, SMT DEF BodiesCounted, StampOfBody
<1>6. ViewsInOrder
  BY <1>1, SMT DEF ViewsInOrder, NoJob, NoView
<1> QED
  BY <1>4, <1>5, <1>6 DEF FileInv

\* A step that changes no more than the job of one client, which does not pass
\* a check.
LEMMA JobSteps ==
  ASSUME FileInv, UNCHANGED <<now, file, bodies, view>>, NEW c \in Client, NEW new \in JobRecord,
         job' = [job EXCEPT ![c] = new],
         (new.op = "open" /\ ~new.overwrite /\ new.met # 0)
           => new.met \in DOMAIN bodies /\ bodies[new.met].at <= view[c].at
  PROVE  FileInv'
<1>1. FileType'
  BY DEF FileInv, FileType, JobRecord
<1>2. ViewsInOrder'
  BY DEF FileInv, FileType, ViewsInOrder
<1> QED
  BY <1>1, <1>2 DEF FileInv, BodiesCounted, StampOfBody

LEMMA NoJobRecord == NoJob \in JobRecord /\ NoJob.op = "none"
<1>1. 0 \in 0..MaxBody
  BY FileAssumption, SMT
<1> QED
  BY <1>1, Zenon DEF JobRecord, NoJob

LEMMA AskSteps ==
  ASSUME FileInv, NEW c \in Client, NEW op \in {"read", "delete", "write"},
         NEW overwrite \in BOOLEAN, Ask(c, op, overwrite)
  PROVE  FileInv'
<1> DEFINE new == [NoJob EXCEPT !.op = op, !.overwrite = overwrite]
<1>1. new \in JobRecord
  BY NoJobRecord, Zenon DEF JobRecord
<1>2. new.op # "open"
  BY NoJobRecord DEF JobRecord
<1> QED
  BY <1>1, <1>2, JobSteps DEF Ask

LEMMA ReadBodySteps == ASSUME FileInv, NEW c \in Client, ReadBody(c) PROVE FileInv'
<1>1. UNCHANGED <<now, file, bodies, view>> /\ job[c] \in JobRecord /\ file.body \in 0..MaxBody
  BY DEF ReadBody, FileInv, FileType, JobRecord
<1> DEFINE new == [job[c] EXCEPT !.op = "stat", !.body = file.body]
<1>2. new \in JobRecord /\ new.op = "stat"
  BY <1>1 DEF JobRecord
<1>3. CASE job' = [job EXCEPT ![c].op = "stat", ![c].body = file.body]
  <2>1. job' = [job EXCEPT ![c] = new]
    BY <1>3, <1>1 DEF FileInv, FileType
  <2> HIDE DEF new
  <2> QED
    BY <1>1, <1>2, <2>1, JobSteps
<1>4. CASE Answered(c)
  BY <1>1, <1>4, NoJobRecord, JobSteps DEF Answered
<1> QED
  BY <1>3, <1>4 DEF ReadBody

LEMMA ReadStatSteps == ASSUME FileInv, NEW c \in Client, ReadStat(c) PROVE FileInv'
<1>1. UNCHANGED <<now, file, bodies>> /\ job' = [job EXCEPT ![c] = NoJob]
  BY DEF ReadStat, Answered
<1>2. /\ now \in 0..MaxNow /\ file \in FileRecord /\ file.modTs <= now
      /\ job \in [Client -> JobRecord] /\ view \in [Client -> ViewRecord]
  BY DEF FileInv, FileType, StampOfBody, FileRecord, JobRecord, ViewRecord
<1> DEFINE new == [body |-> job[c].body, modTs |-> file.modTs, at |-> now]
<1>3. new \in ViewRecord /\ new.modTs <= new.at
  BY <1>2 DEF FileRecord, JobRecord, ViewRecord
<1>4. view' = view \/ view' = [view EXCEPT ![c] = new]
  BY DEF ReadStat
<1> HIDE DEF new
<1>5. job' \in [Client -> JobRecord] /\ view' \in [Client -> ViewRecord]
  BY <1>1, <1>2, <1>3, <1>4, NoJobRecord
<1>6. FileType'
  BY <1>1, <1>5 DEF FileInv, FileType, JobRecord, ViewRecord
<1>7. ViewsInOrder'
  BY <1>1, <1>2, <1>3, <1>4, NoJobRecord DEF FileInv, ViewsInOrder
<1> QED
  BY <1>1, <1>6, <1>7 DEF FileInv, BodiesCounted, StampOfBody

\* The check: what it lets pass is no younger than what the client has read.
LEMMA WriteCheckSteps == ASSUME FileInv, NEW c \in Client, WriteCheck(c) PROVE FileInv'
<1>1. /\ UNCHANGED <<now, file, bodies, view>> /\ job[c] \in JobRecord /\ file \in FileRecord
      /\ 0 \in 0..MaxBody
  BY FileAssumption DEF WriteCheck, FileInv, FileType, JobRecord, FileRecord
<1>2. CASE Answered(c)
  BY <1>1, <1>2, NoJobRecord, JobSteps DEF Answered
<1>3. CASE /\ ~file.exists \/ Unchanged(view[c].modTs) \/ job[c].overwrite
           /\ job' = [job EXCEPT ![c].op = "open", ![c].met = IF file.exists THEN file.body ELSE 0]
  <2> DEFINE met == IF file.exists THEN file.body ELSE 0
             new == [job[c] EXCEPT !.op = "open", !.met = met]
  <2>1. met \in 0..MaxBody
    BY <1>1 DEF FileRecord
  <2>2. job' = [job EXCEPT ![c] = new]
    BY <1>3 DEF FileInv, FileType
  <2>3. (~job[c].overwrite /\ met # 0) => met \in DOMAIN bodies /\ bodies[met].at <= view[c].at
    <3> SUFFICES ASSUME ~job[c].overwrite, met # 0
                 PROVE  met \in DOMAIN bodies /\ bodies[met].at <= view[c].at
      OBVIOUS
    <3>1. met = file.body /\ view[c].modTs >= file.modTs
      BY <1>3 DEF Unchanged
    <3>2. met \in DOMAIN bodies /\ bodies[met].at = file.modTs
      BY <3>1 DEF FileInv, StampOfBody
    <3>3. view[c].modTs <= view[c].at /\ view[c] \in ViewRecord
      BY DEF FileInv, FileType, ViewsInOrder, ViewRecord
    <3> QED
      BY <1>1, <3>1, <3>2, <3>3, FileAssumption, SMT DEF FileRecord, ViewRecord
  <2> HIDE DEF met
  <2>4. new \in JobRecord /\ new.overwrite = job[c].overwrite /\ new.met = met
    BY <1>1, <2>1 DEF JobRecord
  <2> HIDE DEF new
  <2> QED
    BY <1>1, <2>2, <2>3, <2>4, JobSteps
<1> QED
  BY <1>2, <1>3 DEF WriteCheck

LEMMA WriteOpenSteps == ASSUME FileInv, NEW c \in Client, WriteOpen(c) PROVE FileInv'
<1>1. /\ UNCHANGED <<now, bodies, view>> /\ job \in [Client -> JobRecord] /\ now \in 0..MaxNow
      /\ file' = [exists |-> TRUE, body |-> 0, modTs |-> now]
      /\ job' = [job EXCEPT ![c].op = "fill"]
  BY DEF WriteOpen, FileInv, FileType, JobRecord
<1>2. [job[c] EXCEPT !.op = "fill"] \in JobRecord /\ [job[c] EXCEPT !.op = "fill"].op = "fill"
  BY <1>1 DEF JobRecord
<1>3. job' = [job EXCEPT ![c] = [job[c] EXCEPT !.op = "fill"]]
  BY <1>1
<1>4. job' \in [Client -> JobRecord] /\ job'[c].op = "fill" /\ \A d \in Client \ {c} : job'[d] = job[d]
  BY <1>1, <1>2, <1>3
<1>5. file' \in FileRecord /\ file'.body = 0 /\ file'.modTs = now
  <2>1. 0 \in 0..MaxBody
    BY FileAssumption
  <2> QED
    BY <1>1, <2>1, Zenon DEF FileRecord
<1>6. FileType'
  BY <1>1, <1>4, <1>5 DEF FileInv, FileType, JobRecord, FileRecord
<1>7. ViewsInOrder'
  BY <1>1, <1>4 DEF FileInv, ViewsInOrder
<1>8. now <= now
  BY <1>1, FileAssumption, SMT
<1> QED
  BY <1>1, <1>5, <1>6, <1>7, <1>8 DEF FileInv, BodiesCounted, StampOfBody

\* A body is written, by a client or by another program.
LEMMA BodySteps ==
  ASSUME FileInv, NewBody <= MaxBody, NEW by, bodies' = Written(NewBody, by),
         file' \in FileRecord, file'.body = NewBody, file'.modTs = now,
         UNCHANGED <<now, view>>, job' \in [Client -> JobRecord],
         \A c \in Client : job'[c].op = "open" => job'[c] = job[c]
  PROVE  FileInv'
<1>1. /\ NewBody \in 1..MaxBody /\ NewBody \notin DOMAIN bodies
      /\ DOMAIN bodies' \subseteq 1..MaxBody
      /\ \E n \in 0..MaxBody : DOMAIN bodies' = 1..n
      /\ \A b \in DOMAIN bodies : b \in DOMAIN bodies' /\ bodies'[b] = bodies[b]
      /\ NewBody \in DOMAIN bodies' /\ bodies'[NewBody].at = now
      /\ \A b \in DOMAIN bodies' : bodies'[b].at \in 0..now
  BY NextBody
<1>2. FileType'
  BY <1>1 DEF FileInv, FileType, FileRecord, JobRecord
<1>3. BodiesCounted' /\ StampOfBody'
  BY <1>1, FileAssumption DEF BodiesCounted, StampOfBody, FileInv, FileType
<1>4. ViewsInOrder'
  BY <1>1 DEF FileInv, ViewsInOrder
<1> QED
  BY <1>2, <1>3, <1>4 DEF FileInv

LEMMA OtherWritesSteps == ASSUME FileInv, OtherWrites PROVE FileInv'
<1>1. /\ NewBody <= MaxBody /\ bodies' = Written(NewBody, "other")
      /\ file' = [exists |-> TRUE, body |-> NewBody, modTs |-> now]
      /\ UNCHANGED <<now, job, view>>
  BY DEF OtherWrites
<1>2. NewBody \in 0..MaxBody /\ now \in 0..MaxNow /\ job \in [Client -> JobRecord]
  BY <1>1, NextBody, FileAssumption, SMT DEF FileInv, FileType, JobRecord
<1>3. file' \in FileRecord /\ file'.body = NewBody /\ file'.modTs = now
  BY <1>1, <1>2 DEF FileRecord
<1> QED
  BY <1>1, <1>2, <1>3, BodySteps

LEMMA WriteFillSteps == ASSUME FileInv, NEW c \in Client, WriteFill(c) PROVE FileInv'
<1>1. /\ NewBody <= MaxBody /\ bodies' = Written(NewBody, c)
      /\ file' = [file EXCEPT !.body = NewBody, !.modTs = now]
      /\ job' = [job EXCEPT ![c] = NoJob] /\ UNCHANGED <<now, view>>
  BY DEF WriteFill, Answered
<1>2. NewBody \in 0..MaxBody /\ now \in 0..MaxNow /\ job \in [Client -> JobRecord] /\ file \in FileRecord
  BY <1>1, NextBody, FileAssumption, SMT DEF FileInv, FileType, JobRecord, FileRecord
<1>3. file' \in FileRecord /\ file'.body = NewBody /\ file'.modTs = now
  BY <1>1, <1>2 DEF FileRecord
<1>4. job' \in [Client -> JobRecord] /\ \A d \in Client : job'[d].op = "open" => job'[d] = job[d]
  BY <1>1, <1>2, NoJobRecord
<1> QED
  BY <1>1, <1>3, <1>4, BodySteps

LEMMA DeleteSteps == ASSUME FileInv, NEW c \in Client, Delete(c) PROVE FileInv'
<1>1. /\ UNCHANGED <<now, bodies, view>> /\ file \in FileRecord /\ job \in [Client -> JobRecord]
      /\ file' = [file EXCEPT !.exists = FALSE, !.body = 0]
      /\ job' = [d \in Client |-> IF d = c \/ job[d].op = "fill" THEN NoJob ELSE job[d]]
      /\ 0 \in 0..MaxBody
  BY FileAssumption DEF Delete, FileInv, FileType, FileRecord, JobRecord
<1>2. file' \in FileRecord
  BY <1>1, Zenon DEF FileRecord
<1>3. file'.body = 0 /\ file'.modTs = file.modTs
  BY <1>1 DEF FileRecord
<1>4. job' \in [Client -> JobRecord] /\ \A d \in Client : job'[d].op = "open" => job'[d] = job[d]
  BY <1>1, NoJobRecord
<1>5. FileType'
  BY <1>1, <1>2, <1>4 DEF FileInv, FileType, FileRecord, JobRecord
<1>6. ViewsInOrder'
  BY <1>1, <1>4 DEF FileInv, ViewsInOrder
<1> QED
  BY <1>1, <1>3, <1>5, <1>6 DEF FileInv, BodiesCounted, StampOfBody

LEMMA TickSteps == ASSUME FileInv, Tick PROVE FileInv'
<1>1. now < MaxNow /\ now' = now + 1 /\ UNCHANGED <<file, bodies, job, view>> /\ now \in 0..MaxNow
      /\ now' \in 0..MaxNow /\ file \in FileRecord
  BY FileAssumption DEF Tick, FileInv, FileType, FileRecord
<1>2. FileType'
  BY <1>1 DEF FileInv, FileType
<1>3. BodiesCounted'
  BY <1>1 DEF FileInv, BodiesCounted
<1>4. StampOfBody'
  BY <1>1 DEF FileInv, StampOfBody, FileRecord
<1> QED
  BY <1>1, <1>2, <1>3, <1>4 DEF FileInv, ViewsInOrder

\* The server ends, with the operations it was at.
LEMMA DropJobsSteps == ASSUME FileInv, DropJobs PROVE FileInv'
<1>1. job' = [c \in Client |-> NoJob] /\ UNCHANGED <<now, file, bodies, view>>
  BY DEF DropJobs
<1>2. FileType'
  BY <1>1, NoJobRecord DEF FileInv, FileType, JobRecord
<1>3. ViewsInOrder'
  BY <1>1, NoJobRecord DEF FileInv, ViewsInOrder
<1> QED
  BY <1>1, <1>2, <1>3 DEF FileInv, BodiesCounted, StampOfBody

LEMMA FileSteps == ASSUME FileInv, FileStep PROVE FileInv' /\ (Act \/ Reaction)
<1>1. CASE Tick
  BY <1>1, TickSteps DEF Tick
<1>2. CASE OtherWrites
  BY <1>2, OtherWritesSteps DEF OtherWrites, FileAct
<1>3. ASSUME NEW c \in Client, NEW op \in {"read", "delete", "write"}, NEW overwrite \in BOOLEAN,
             Ask(c, op, overwrite)
      PROVE  FileInv' /\ (Act \/ Reaction)
  BY <1>3, AskSteps DEF Ask, FileAct
<1>4. ASSUME NEW c \in Client,
             ReadBody(c) \/ ReadStat(c) \/ WriteCheck(c) \/ WriteOpen(c) \/ WriteFill(c) \/ Delete(c)
      PROVE  FileInv' /\ (Act \/ Reaction)
  <2>1. FileInv'
    BY <1>4, ReadBodySteps, ReadStatSteps, WriteCheckSteps, WriteOpenSteps, WriteFillSteps, DeleteSteps
  <2> QED
    BY <1>4, <2>1 DEF ReadBody, ReadStat, WriteCheck, WriteOpen, WriteFill, Delete
<1> QED
  BY <1>1, <1>2, <1>3, <1>4 DEF FileStep

LEMMA FileStays == ASSUME FileInv, UNCHANGED fileVars PROVE FileInv'
BY DEF FileInv, FileType, BodiesCounted, StampOfBody, ViewsInOrder, fileVars

-----------------------------------------------------------------------------
(* The statements' part: the window.                                       *)

LEMMA TypesNamed == StatementTypes => StatementType
BY DEF StatementTypes, StatementType, AnyText, ResultState, Wires, Frames, QueryObject, Status

LEMMA QueryNumbers ==
  /\ Detached \in 0..MaxQuery /\ Detached \notin Query
  /\ Query \subseteq 0..MaxQuery /\ 0..MaxQuery = Query \cup {Detached}
  /\ blank \in AnyText /\ EditorText \in AnyText
BY QueryAssumption, SMT DEF Detached, Query, AnyText, Text, blank, EditorText

WithRows(o, r) == [o EXCEPT !.rows = r, !.err = FALSE]

\* What may be done to a Query object.
LEMMA ObjectRecords ==
  ASSUME NEW o \in QueryObject, NEW t \in AnyText, NEW r \in 0..MaxQuery
  PROVE  /\ [o EXCEPT !.text = t] \in QueryObject
         /\ [o EXCEPT !.text = t].text = t /\ [o EXCEPT !.text = t].rows = o.rows
         /\ [o EXCEPT !.err = TRUE] \in QueryObject
         /\ [o EXCEPT !.err = TRUE].text = o.text /\ [o EXCEPT !.err = TRUE].rows = o.rows
         /\ WithRows(o, r) \in QueryObject
         /\ WithRows(o, r).text = o.text /\ WithRows(o, r).rows = r
         /\ Reset(t) \in QueryObject /\ Reset(t).text = t /\ Reset(t).rows = Detached
         /\ Blank \in QueryObject /\ Blank.rows = Detached
<1>1. /\ [o EXCEPT !.text = t] \in QueryObject
      /\ [o EXCEPT !.text = t].text = t /\ [o EXCEPT !.text = t].rows = o.rows
  BY DEF QueryObject, AnyText
<1>2. [o EXCEPT !.err = TRUE] \in QueryObject
  BY Zenon DEF QueryObject
<1>3. [o EXCEPT !.err = TRUE].text = o.text /\ [o EXCEPT !.err = TRUE].rows = o.rows
  BY DEF QueryObject
<1>4. ASSUME NEW e \in BOOLEAN
      PROVE  /\ [o EXCEPT !.rows = r, !.err = e] \in QueryObject
             /\ [o EXCEPT !.rows = r, !.err = e].text = o.text
             /\ [o EXCEPT !.rows = r, !.err = e].rows = r
  BY DEF QueryObject
<1>5. Blank \in QueryObject /\ Blank.rows = Detached
  BY QueryNumbers, Zenon DEF Blank, QueryObject, AnyText
<1>6. Reset(t) \in QueryObject /\ Reset(t).text = t /\ Reset(t).rows = Detached
  <2>1. ASSUME NEW b \in QueryObject
        PROVE  /\ [b EXCEPT !.text = t] \in QueryObject
               /\ [b EXCEPT !.text = t].text = t /\ [b EXCEPT !.text = t].rows = b.rows
    BY DEF QueryObject, AnyText
  <2> QED
    BY <2>1, <1>5 DEF Reset
<1> QED
  BY <1>1, <1>2, <1>3, <1>4, <1>5, <1>6, Zenon DEF WithRows

\* The fields of what a step remembers.
GhostIs(g, m, d, s, u) ==
  g \in GhostRecord /\ g.mixed = m /\ g.draft = d /\ g.spin = s /\ g.unrecorded = u

LEMMA GhostRecords ==
  ASSUME NEW g \in GhostRecord, NEW m \in BOOLEAN, NEW d \in BOOLEAN,
         NEW s \in {"none", "statement", "session", "blank"}, NEW u \in SUBSET Query
  PROVE  /\ GhostIs([g EXCEPT !.mixed = m, !.draft = d, !.spin = s], m, d, s, g.unrecorded)
         /\ GhostIs([g EXCEPT !.mixed = m, !.draft = d], m, d, g.spin, g.unrecorded)
         /\ GhostIs([g EXCEPT !.draft = d, !.spin = s], g.mixed, d, s, g.unrecorded)
         /\ GhostIs([g EXCEPT !.spin = s], g.mixed, g.draft, s, g.unrecorded)
         /\ GhostIs([g EXCEPT !.unrecorded = u], g.mixed, g.draft, g.spin, u)
         /\ GhostIs(g, g.mixed, g.draft, g.spin, g.unrecorded)
<1>1. GhostIs([g EXCEPT !.mixed = m, !.draft = d, !.spin = s], m, d, s, g.unrecorded)
  BY DEF GhostRecord, GhostIs
<1>2. GhostIs([g EXCEPT !.mixed = m, !.draft = d], m, d, g.spin, g.unrecorded)
  BY DEF GhostRecord, GhostIs
<1>3. GhostIs([g EXCEPT !.draft = d, !.spin = s], g.mixed, d, s, g.unrecorded)
  BY DEF GhostRecord, GhostIs
<1>4. GhostIs([g EXCEPT !.spin = s], g.mixed, g.draft, s, g.unrecorded)
  BY DEF GhostRecord, GhostIs
<1>5. GhostIs([g EXCEPT !.unrecorded = u], g.mixed, g.draft, g.spin, u)
  BY DEF GhostRecord, GhostIs
<1> QED
  BY <1>1, <1>2, <1>3, <1>4, <1>5 DEF GhostIs

\* Rows that are shown or cached are those of a query that waits for nothing.
LEMMA RowsRest ==
  ASSUME StatementInv
  PROVE  /\ Shown \in QueryObject
         /\ Shown.rows # Detached => Shown.rows \in Query /\ wire[Shown.rows] = "none"
         /\ \A q \in Query : cache[q].rows # Detached
              => cache[q].rows \in Query /\ wire[cache[q].rows] = "none"
<1>1. /\ object \in [0..MaxQuery -> QueryObject] /\ result \in ResultState
      /\ cache \in [Query -> QueryObject]
  BY DEF StatementTypes, StatementInv
<1>2. Shown \in QueryObject /\ result.ref \in 0..MaxQuery
  BY <1>1 DEF Shown, ResultState
<1>3. Shown.rows \in 0..MaxQuery /\ \A q \in Query : cache[q].rows \in 0..MaxQuery
  BY <1>1, <1>2 DEF QueryObject
<1>4. \A p \in Query : frame[p] = "ended" => wire[p] = "none"
  BY DEF StatementInv, FramesAndWires
<1> QED
  BY <1>2, <1>3, <1>4, QueryNumbers DEF StatementInv, RowsEnded, Shown

LEMMA AcceptSteps ==
  ASSUME StatementInv, NEW q \in Query, Accept(q), UNCHANGED page
  PROVE  StatementInv'
<1>1. /\ wire[q] \in {"posted", "resumed"} /\ wire' = [wire EXCEPT ![q] = "handled"]
      /\ \/ stmt[q] = "unknown" /\ stmt' = [stmt EXCEPT ![q] = "running"]
            /\ ran' = [ran EXCEPT ![q] = sent[q]]
         \/ stmt[q] # "unknown" /\ UNCHANGED <<stmt, ran>>
      /\ UNCHANGED <<object, result, frame, sent, pulls, cache, ghost, session, cancels, records, history>>
  BY DEF Accept, windowVars
<1>2. StatementTypes
  BY DEF StatementInv
<1>3. StatementTypes'
  BY <1>1, <1>2 DEF StatementTypes, Wires, Status
<1>4. wire \in [Query -> Wires] /\ stmt \in [Query -> {"unknown"} \cup Status]
      /\ ran \in [Query -> AnyText]
  BY <1>2 DEF StatementTypes
<1>5. FramesAndWires'
  BY <1>1, <1>4 DEF StatementInv, FramesAndWires, Waiting
<1>6. RowsEnded'
  BY <1>1 DEF StatementInv, RowsEnded
<1>7. Unmixed'
  BY <1>1, <1>4, RowsRest DEF StatementInv, Unmixed, Waiting
<1>8. RowsOfTheirText'
  BY <1>1, <1>4, RowsRest DEF StatementInv, RowsOfTheirText, Shown
<1>9. SpinnerHasItsStatement'
  BY <1>1 DEF StatementInv, SpinnerHasItsStatement, Waiting
<1>10. RunningHeld'
  BY <1>1, <1>4 DEF StatementInv, RunningHeld
<1>11. EndsRecorded'
  BY <1>1, <1>4 DEF StatementInv, EndsRecorded
<1> QED
  BY <1>3, <1>5, <1>6, <1>7, <1>8, <1>9, <1>10, <1>11 DEF StatementInv

LEMMA RefuseSteps ==
  ASSUME StatementInv, NEW q \in Query, Refuse(q), UNCHANGED page
  PROVE  StatementInv'
<1>1. /\ wire[q] \in {"posted", "resumed"} /\ wire' = [wire EXCEPT ![q] = "broken"]
      /\ UNCHANGED <<object, result, frame, sent, pulls, cache, ghost, session, stmt, ran,
                     cancels, records, history>>
  BY DEF Refuse, windowVars, serverVars
<1>2. wire \in [Query -> Wires]
  BY DEF StatementTypes, StatementInv
<1>3. StatementTypes'
  BY <1>1, <1>2 DEF StatementTypes, StatementInv, Wires
<1>4. FramesAndWires'
  BY <1>1, <1>2 DEF StatementInv, FramesAndWires, Waiting
<1>5. Unmixed'
  BY <1>1, <1>2 DEF StatementInv, Unmixed, Waiting
<1>6. RowsEnded' /\ RowsOfTheirText' /\ SpinnerHasItsStatement'
  BY <1>1 DEF StatementInv, RowsEnded, RowsOfTheirText, Shown, SpinnerHasItsStatement, Waiting
<1>7. RunningHeld'
  BY <1>1, <1>2 DEF StatementInv, RunningHeld
<1>8. EndsRecorded'
  BY <1>1, <1>2 DEF StatementInv, EndsRecorded
<1> QED
  BY <1>3, <1>4, <1>5, <1>6, <1>7, <1>8 DEF StatementInv

LEMMA RunSteps ==
  ASSUME StatementInv, NEW q \in Query, NEW status \in Ended \ {"cancelled"}, Run(q, status),
         UNCHANGED page
  PROVE  StatementInv'
<1>1. /\ stmt[q] = "running" /\ stmt' = [stmt EXCEPT ![q] = status] /\ status # "unknown"
      /\ UNCHANGED <<object, result, frame, sent, pulls, cache, ghost, wire, session, ran,
                     cancels, records, history>>
  BY DEF Run, windowVars, Ended
<1>2. stmt \in [Query -> {"unknown"} \cup Status]
  BY DEF StatementTypes, StatementInv
<1>3. StatementTypes'
  BY <1>1, <1>2 DEF StatementTypes, StatementInv, Status
<1>4. FramesAndWires'
  BY <1>1, <1>2 DEF StatementInv, FramesAndWires, Waiting
<1>5. Unmixed'
  BY <1>1, <1>2 DEF StatementInv, Unmixed, Waiting
<1>6. RowsEnded' /\ RowsOfTheirText' /\ SpinnerHasItsStatement' /\ RunningHeld' /\ EndsRecorded'
  BY <1>1 DEF StatementInv, RowsEnded, RowsOfTheirText, Shown, SpinnerHasItsStatement, Waiting,
     RunningHeld, EndsRecorded
<1> QED
  BY <1>3, <1>4, <1>5, <1>6 DEF StatementInv

\* What a record of the history says when the answer is written.
LEMMA CodeOf ==
  ASSUME NEW status \in Status
  PROVE  /\ Code(status) \in {"continue", "rows", "norows", "error"}
         /\ Code(status) = "continue" <=> status = "running"
BY DEF Code, Status, Ended

LEMMA RespondSteps ==
  ASSUME StatementInv, NEW q \in Query, Respond(q), UNCHANGED page
  PROVE  StatementInv'
<1> DEFINE new == [query |-> q, request |-> "sql", status |-> stmt[q]]
<1>1. /\ wire[q] = "handled" /\ wire' = [wire EXCEPT ![q] = Code(stmt[q])]
      /\ records' = records \cup {new}
      /\ UNCHANGED <<object, result, frame, sent, pulls, cache, ghost, session, stmt, ran,
                     cancels, history>>
  BY DEF Respond, windowVars, Record
<1>2. wire \in [Query -> Wires] /\ stmt[q] \in Status /\ records \subseteq HistoryRecord
  BY <1>1 DEF StatementTypes, StatementInv, FramesAndWires
<1>3. Code(stmt[q]) \in {"continue", "rows", "norows", "error"}
      /\ (Code(stmt[q]) = "continue" <=> stmt[q] = "running")
  BY <1>2, CodeOf
<1>4. new \in HistoryRecord /\ new.query = q /\ new.request = "sql" /\ new.status = stmt[q]
  BY <1>2 DEF HistoryRecord
<1> HIDE DEF new
<1>5. wire' \in [Query -> Wires] /\ wire'[q] = Code(stmt[q]) /\ \A p \in Query \ {q} : wire'[p] = wire[p]
  BY <1>1, <1>2, <1>3 DEF Wires
<1>6. StatementTypes'
  BY <1>1, <1>2, <1>4, <1>5 DEF StatementTypes, StatementInv
<1>7. FramesAndWires'
  BY <1>1, <1>3, <1>5 DEF StatementInv, FramesAndWires, Waiting
<1>8. Unmixed'
  BY <1>1, <1>3, <1>5 DEF StatementInv, Unmixed, Waiting
<1>9. RowsEnded' /\ RowsOfTheirText' /\ SpinnerHasItsStatement'
  BY <1>1 DEF StatementInv, RowsEnded, RowsOfTheirText, Shown, SpinnerHasItsStatement, Waiting
<1>10. RunningHeld'
  BY <1>1, <1>2, <1>3, <1>4, <1>5 DEF StatementInv, RunningHeld, HistoryRecord
<1>11. EndsRecorded'
  BY <1>1, <1>2, <1>4, <1>5 DEF StatementInv, EndsRecorded
<1> QED
  BY <1>6, <1>7, <1>8, <1>9, <1>10, <1>11 DEF StatementInv

LEMMA CancelStatementSteps ==
  ASSUME StatementInv, NEW q \in Query, CancelStatement(q), UNCHANGED page
  PROVE  StatementInv'
<1> DEFINE status == IF stmt[q] = "running" THEN "cancelled" ELSE stmt[q]
           new    == [query |-> q, request |-> "cancel", status |-> status]
<1>1. /\ cancels' = cancels \ {q} /\ stmt' = [stmt EXCEPT ![q] = status]
      /\ records' = IF status = "unknown" THEN records ELSE records \cup {new}
      /\ UNCHANGED <<object, result, frame, sent, pulls, cache, ghost, wire, session, ran, history>>
  BY DEF CancelStatement, windowVars, Record
<1>2. stmt \in [Query -> {"unknown"} \cup Status] /\ records \subseteq HistoryRecord
  BY DEF StatementTypes, StatementInv
<1>3. /\ status \in {"unknown"} \cup Ended /\ (status = "unknown" <=> stmt[q] = "unknown")
  BY <1>2 DEF Status, Ended
<1>4. status # "unknown" => new \in HistoryRecord
  BY <1>3 DEF HistoryRecord, Status
<1>5. new.query = q /\ new.status = status
  OBVIOUS
<1> HIDE DEF new, status
<1>6. StatementTypes'
  BY <1>1, <1>2, <1>3, <1>4 DEF StatementTypes, StatementInv, Status
<1>7. FramesAndWires'
  BY <1>1, <1>2, <1>3 DEF StatementInv, FramesAndWires, Waiting
<1>8. Unmixed'
  BY <1>1, <1>2, <1>3 DEF StatementInv, Unmixed, Waiting
<1>9. RowsEnded' /\ RowsOfTheirText' /\ SpinnerHasItsStatement'
  BY <1>1 DEF StatementInv, RowsEnded, RowsOfTheirText, Shown, SpinnerHasItsStatement, Waiting
<1>10. RunningHeld'
  BY <1>1, <1>3, <1>5 DEF StatementInv, RunningHeld, Ended
<1>11. EndsRecorded'
  BY <1>1 DEF StatementInv, EndsRecorded
<1> QED
  BY <1>6, <1>7, <1>8, <1>9, <1>10, <1>11 DEF StatementInv

LEMMA UpsertSteps ==
  ASSUME StatementInv, NEW r \in records, Upsert(r), UNCHANGED page
  PROVE  StatementInv'
<1>1. /\ records' = records \ {r} /\ history' = [history EXCEPT ![r.query] = r.status]
      /\ UNCHANGED <<object, result, frame, sent, pulls, cache, ghost, wire, session, stmt, ran, cancels>>
  BY DEF Upsert, windowVars
<1>2. /\ r.query \in Query /\ r.status \in Status /\ records \subseteq HistoryRecord
      /\ history \in [Query -> {"none"} \cup Status]
  BY DEF StatementTypes, StatementInv, HistoryRecord
<1>3. StatementTypes'
  BY <1>1, <1>2 DEF StatementTypes, StatementInv
<1>4. FramesAndWires' /\ Unmixed' /\ RowsEnded' /\ RowsOfTheirText' /\ SpinnerHasItsStatement'
  BY <1>1 DEF StatementInv, FramesAndWires, Unmixed, RowsEnded, RowsOfTheirText, Shown,
     SpinnerHasItsStatement, Waiting
<1>5. RunningHeld'
  BY <1>1 DEF StatementInv, RunningHeld
<1>6. EndsRecorded'
  <2>1. r.status = "running" => wire[r.query] = "continue"
    BY DEF StatementInv, RunningHeld
  <2>2. frame[r.query] \in {"ended", "failed"} => wire[r.query] = "none"
    BY <1>2 DEF StatementInv, FramesAndWires
  <2>3. history'[r.query] = r.status /\ \A p \in Query \ {r.query} : history'[p] = history[p]
    BY <1>1, <1>2
  <2> QED
    BY <1>1, <1>2, <2>1, <2>2, <2>3 DEF StatementInv, EndsRecorded, Status
<1> QED
  BY <1>3, <1>4, <1>5, <1>6 DEF StatementInv

LEMMA UpsertFailsSteps ==
  ASSUME StatementInv, NEW r \in records, UpsertFails(r), UNCHANGED page
  PROVE  StatementInv'
<1>1. /\ records' = records \ {r}
      /\ ghost' = [ghost EXCEPT !.unrecorded = ghost.unrecorded \cup Lost({r})]
      /\ UNCHANGED <<object, result, frame, sent, pulls, cache, wire, session, stmt, ran, cancels, history>>
  BY DEF UpsertFails
<1>2. r \in HistoryRecord /\ records \subseteq HistoryRecord /\ ghost \in GhostRecord
  BY DEF StatementTypes, StatementInv
<1>3. Lost({r}) = IF r.status \in Ended THEN {r.query} ELSE {}
  BY DEF Lost
<1>4. ghost.unrecorded \cup Lost({r}) \in SUBSET Query
  BY <1>2, <1>3 DEF GhostRecord, HistoryRecord
<1>5. ghost' \in GhostRecord /\ ghost'.mixed = ghost.mixed /\ ghost'.draft = ghost.draft
      /\ ghost'.spin = ghost.spin /\ ghost'.unrecorded = ghost.unrecorded \cup Lost({r})
  <2>1. ASSUME NEW u \in SUBSET Query
        PROVE  GhostIs([ghost EXCEPT !.unrecorded = u], ghost.mixed, ghost.draft, ghost.spin, u)
    BY <1>2, GhostRecords
  <2> QED
    BY <1>1, <1>4, <2>1 DEF GhostIs
<1>6. StatementTypes'
  BY <1>1, <1>5 DEF StatementTypes, StatementInv
<1>7. FramesAndWires' /\ Unmixed' /\ RowsEnded' /\ RowsOfTheirText' /\ SpinnerHasItsStatement'
  BY <1>1, <1>5 DEF StatementInv, FramesAndWires, Unmixed, RowsEnded, RowsOfTheirText, Shown,
     SpinnerHasItsStatement, Waiting
<1>8. RunningHeld'
  BY <1>1 DEF StatementInv, RunningHeld
<1>9. EndsRecorded'
  <2>1. r.query \in Query /\ r.status \in Status
    BY <1>2 DEF HistoryRecord
  <2>2. r.status = "running" => wire[r.query] = "continue" /\ frame[r.query] \notin {"ended", "failed"}
    BY <2>1 DEF StatementInv, RunningHeld, FramesAndWires
  <2> QED
    BY <1>1, <1>3, <1>5, <2>1, <2>2 DEF StatementInv, EndsRecorded, Status
<1> QED
  BY <1>6, <1>7, <1>8, <1>9 DEF StatementInv

LEMMA DropStatementsSteps ==
  ASSUME StatementInv, DropStatements, UNCHANGED page
  PROVE  StatementInv'
<1>1. PICK kept \in SUBSET {q \in Query : wire[q] = "rows"} :
        wire' = [q \in Query |-> IF q \in kept \/ wire[q] = "none" THEN wire[q] ELSE "broken"]
  BY DEF DropStatements
<1>2. /\ stmt' = [q \in Query |-> "unknown"] /\ records' = {} /\ cancels' = {}
      /\ UNCHANGED <<object, result, frame, sent, pulls, cache, session, ran, history>>
      /\ ghost' = [ghost EXCEPT !.unrecorded = ghost.unrecorded \cup Lost(records)]
  BY DEF DropStatements
<1>3. wire \in [Query -> Wires] /\ records \subseteq HistoryRecord /\ ghost \in GhostRecord
  BY DEF StatementTypes, StatementInv
<1>4. ghost.unrecorded \cup Lost(records) \in SUBSET Query
  BY <1>3 DEF GhostRecord, HistoryRecord, Lost
<1>5. ghost' \in GhostRecord /\ ghost'.mixed = ghost.mixed /\ ghost'.draft = ghost.draft
      /\ ghost'.spin = ghost.spin /\ ghost'.unrecorded = ghost.unrecorded \cup Lost(records)
  <2>1. ASSUME NEW u \in SUBSET Query
        PROVE  GhostIs([ghost EXCEPT !.unrecorded = u], ghost.mixed, ghost.draft, ghost.spin, u)
    BY <1>3, GhostRecords
  <2> QED
    BY <1>2, <1>4, <2>1 DEF GhostIs
<1>6. \A q \in Query : \/ wire'[q] = wire[q] /\ wire[q] \in {"none", "rows"}
                       \/ wire'[q] = "broken" /\ wire[q] # "none"
  <2>1. \A q \in kept : wire[q] = "rows"
    OBVIOUS
  <2> QED
    BY <1>1, <2>1
<1>7. StatementTypes'
  <2>1. wire' \in [Query -> Wires]
    BY <1>1, <1>3 DEF Wires
  <2> QED
    BY <1>2, <1>5, <2>1 DEF StatementTypes, StatementInv
<1>8. FramesAndWires'
  BY <1>2, <1>6 DEF StatementInv, FramesAndWires, Waiting
<1>9. Unmixed'
  BY <1>2, <1>5, <1>6 DEF StatementInv, Unmixed, Waiting
<1>10. RowsEnded' /\ RowsOfTheirText' /\ SpinnerHasItsStatement'
  BY <1>2, <1>5 DEF StatementInv, RowsEnded, RowsOfTheirText, Shown, SpinnerHasItsStatement, Waiting
<1>11. RunningHeld' /\ EndsRecorded'
  <2>1. ASSUME NEW q \in Query, wire[q] \in {"rows", "norows", "error"} \/ frame[q] \in {"ended", "failed"},
               NEW r \in records, r.query = q
        PROVE  q \in Lost(records)
    <3>1. r.status # "running"
      BY <2>1 DEF StatementInv, RunningHeld, FramesAndWires
    <3>2. r.status \in Ended
      BY <1>3, <3>1 DEF HistoryRecord, Status
    <3> QED
      BY <2>1, <3>2 DEF Lost
  <2> QED
    BY <1>2, <1>5, <1>6, <2>1 DEF StatementInv, RunningHeld, EndsRecorded
<1> QED
  BY <1>7, <1>8, <1>9, <1>10, <1>11 DEF StatementInv

\* What a step of the window that leaves the requests alone has to show.
LEMMA WindowRest ==
  ASSUME StatementInv, UNCHANGED <<frame, sent, cache, wire, stmt, ran, records, history>>,
         session' \in SessionRecord, pulls' \subseteq Query, cancels' \subseteq Query,
         object' \in [0..MaxQuery -> QueryObject], result' \in ResultState,
         ghost' \in GhostRecord, ghost'.unrecorded = ghost.unrecorded,
         Waiting # {} => page' = "app"
  PROVE  StatementTypes' /\ FramesAndWires' /\ RunningHeld' /\ EndsRecorded'
<1>1. StatementTypes'
  BY DEF StatementInv, StatementTypes
<1>2. FramesAndWires'
  BY DEF StatementInv, FramesAndWires, Waiting
<1>3. RunningHeld' /\ EndsRecorded'
  BY DEF StatementInv, RunningHeld, EndsRecorded
<1> QED
  BY <1>1, <1>2, <1>3

\* Only the session, the look-ups or the cancellations change.
LEMMA AsideSteps ==
  ASSUME StatementInv,
         UNCHANGED <<object, result, frame, sent, cache, ghost, wire, stmt, ran, records, history, page>>,
         session' \in SessionRecord, pulls' \subseteq Query, cancels' \subseteq Query
  PROVE  StatementInv'
<1>1. StatementTypes' /\ FramesAndWires' /\ RunningHeld' /\ EndsRecorded'
  BY WindowRest DEF StatementInv, StatementTypes, FramesAndWires
<1>2. RowsEnded' /\ Unmixed'
  BY DEF StatementInv, RowsEnded, Unmixed, Waiting
<1>3. RowsOfTheirText' /\ SpinnerHasItsStatement'
  BY DEF StatementInv, RowsOfTheirText, SpinnerHasItsStatement, Waiting, Shown
<1> QED
  BY <1>1, <1>2, <1>3 DEF StatementInv

LEMMA Saved ==
  ASSUME session \in SessionRecord, NEW r \in ResultState, NEW o \in QueryObject, Save(r, o)
  PROVE  session' \in SessionRecord
<1>1. Payload(r, o) \in SessionRecord
  BY DEF Payload, ResultState, QueryObject, SessionRecord
<1> QED
  BY <1>1 DEF Save

LEMMA SaveSessionSteps == ASSUME StatementInv, SaveSession, UNCHANGED page PROVE StatementInv'
<1>1. Save(result, Shown) /\ result \in ResultState /\ session \in SessionRecord
      /\ pulls' \subseteq Query /\ cancels' \subseteq Query
      /\ UNCHANGED <<object, result, frame, sent, cache, ghost, wire, stmt, ran, records, history>>
  BY DEF SaveSession, StatementInv, StatementTypes, windowVars, serverVars
<1>2. session' \in SessionRecord
  BY <1>1, RowsRest, Saved
<1> QED
  BY <1>1, <1>2, AsideSteps

LEMMA CancelSQLSteps == ASSUME StatementInv, CancelSQL, UNCHANGED page PROVE StatementInv'
<1>1. result.id # Detached /\ cancels' = cancels \cup {result.id}
      /\ UNCHANGED <<object, result, frame, sent, pulls, cache, ghost, wire, session, stmt, ran, records, history>>
  BY DEF CancelSQL, windowVars
<1>2. result.id \in Query /\ cancels \subseteq Query /\ pulls \subseteq Query /\ session \in SessionRecord
  BY <1>1, QueryNumbers DEF StatementInv, StatementTypes, ResultState
<1> QED
  BY <1>1, <1>2, AsideSteps

LEMMA ShowTableSteps == ASSUME StatementInv, ShowTable, UNCHANGED page PROVE StatementInv'
<1>1. result.id # Detached /\ pulls' = pulls \cup {result.id}
      /\ UNCHANGED <<object, result, frame, sent, cache, ghost, wire, session, stmt, ran, cancels, records, history>>
  BY DEF ShowTable, serverVars
<1>2. result.id \in Query /\ cancels \subseteq Query /\ pulls \subseteq Query /\ session \in SessionRecord
  BY <1>1, QueryNumbers DEF StatementInv, StatementTypes, ResultState
<1> QED
  BY <1>1, <1>2, AsideSteps

\* The session's result has no rows.
LEMMA RestoredTo ==
  ASSUME StatementInv, Restored
  PROVE  /\ object' \in [0..MaxQuery -> QueryObject] /\ result' \in ResultState
         /\ object'[Detached].rows = Detached /\ \A q \in Query : object'[q] = object[q]
         /\ result'.ref = Detached /\ result'.loading = session.loading
<1> DEFINE o == [text |-> session.text, rows |-> Detached, err |-> session.err]
           r == [ref |-> Detached, id |-> session.id, loading |-> session.loading, from_cache |-> FALSE]
<1>1. session \in SessionRecord /\ object \in [0..MaxQuery -> QueryObject]
  BY DEF StatementInv, StatementTypes
<1>2. o \in QueryObject /\ o.rows = Detached
  BY <1>1, QueryNumbers DEF SessionRecord, QueryObject
<1>3. r \in ResultState
  <2>1. session.id \in 0..MaxQuery /\ session.loading \in BOOLEAN
    BY <1>1 DEF SessionRecord
  <2> QED
    BY <2>1, QueryNumbers, Zenon DEF ResultState
<1>4. object' = [object EXCEPT ![Detached] = o] /\ result' = r
  BY DEF Restored
<1>5. r.ref = Detached /\ r.loading = session.loading
  OBVIOUS
<1> HIDE DEF o, r
<1> QED
  BY <1>1, <1>2, <1>3, <1>4, <1>5, QueryNumbers

\* A session is loaded over the result, with or without submissions that wait.
LEMMA RestoredSteps ==
  ASSUME StatementInv, Restored,
         UNCHANGED <<frame, sent, cache, wire, session, stmt, ran, cancels, records, history>>,
         pulls' \subseteq Query, Waiting # {} => page' = "app",
         NEW m \in BOOLEAN, ~m => Waiting = {} /\ ~ghost.mixed,
         GhostIs(ghost', m, FALSE, IF session.loading THEN "session" ELSE "none", ghost.unrecorded)
  PROVE  StatementInv'
<1>1. ghost' \in GhostRecord /\ ghost'.mixed = m /\ ghost'.unrecorded = ghost.unrecorded
      /\ ghost'.spin # "statement"
  BY DEF GhostIs
<1>2. /\ object' \in [0..MaxQuery -> QueryObject] /\ result' \in ResultState
      /\ object'[Detached].rows = Detached /\ \A q \in Query : object'[q] = object[q]
      /\ result'.ref = Detached
  BY RestoredTo
<1>3. session' \in SessionRecord /\ cancels' \subseteq Query
  BY DEF StatementInv, StatementTypes
<1>4. StatementTypes' /\ FramesAndWires' /\ RunningHeld' /\ EndsRecorded'
  BY <1>1, <1>2, <1>3, WindowRest
<1>5. RowsEnded'
  BY <1>2, QueryNumbers DEF StatementInv, RowsEnded
<1>6. Unmixed'
  BY <1>1 DEF StatementInv, Unmixed, Waiting
<1>7. RowsOfTheirText'
  <2>1. object'[result'.ref].rows = Detached
    BY <1>2
  <2> QED
    BY <2>1 DEF RowsOfTheirText, Shown
<1>8. SpinnerHasItsStatement'
  BY <1>1 DEF SpinnerHasItsStatement
<1> QED
  BY <1>4, <1>5, <1>6, <1>7, <1>8 DEF StatementInv

LEMMA LoadSessionSteps == ASSUME StatementInv, LoadSession, UNCHANGED page PROVE StatementInv'
<1> DEFINE m == ghost.mixed \/ Waiting # {}
           s == IF session.loading THEN "session" ELSE "none"
<1>1. /\ App /\ Restored /\ ghost' = [ghost EXCEPT !.mixed = m, !.draft = FALSE, !.spin = s]
      /\ UNCHANGED <<frame, sent, pulls, cache, wire, session, stmt, ran, cancels, records, history>>
  BY DEF LoadSession, serverVars
<1>2. ghost \in GhostRecord /\ pulls' \subseteq Query
  BY <1>1 DEF StatementInv, StatementTypes
<1>3. GhostIs(ghost', m, FALSE, s, ghost.unrecorded)
  <2>1. ghost.unrecorded \in SUBSET Query
    BY <1>2 DEF GhostRecord
  <2>2. m \in BOOLEAN /\ s \in {"none", "statement", "session", "blank"}
    BY <1>2 DEF GhostRecord
  <2> HIDE DEF m, s
  <2> QED
    BY <1>1, <1>2, <2>1, <2>2, GhostRecords
<1>4. m \in BOOLEAN /\ (~m => Waiting = {} /\ ~ghost.mixed)
  BY <1>2 DEF GhostRecord
<1>5. Waiting # {} => page' = "app"
  BY <1>1 DEF App
<1> HIDE DEF m
<1> QED
  BY <1>1, <1>2, <1>3, <1>4, <1>5, RestoredSteps

LEMMA EnterPageSteps ==
  ASSUME StatementInv, EnterPage, page = "loading", page' = "app"
  PROVE  StatementInv'
<1> DEFINE s == IF session.loading THEN "session" ELSE "none"
<1>1. /\ Restored /\ pulls' = {session.id} \ {Detached}
      /\ ghost' = [ghost EXCEPT !.draft = FALSE, !.spin = s]
      /\ UNCHANGED <<frame, sent, cache, wire, session, stmt, ran, cancels, records, history>>
  BY DEF EnterPage, serverVars
<1>2. ghost \in GhostRecord /\ ghost.mixed \in BOOLEAN /\ session \in SessionRecord
  BY DEF StatementInv, StatementTypes, GhostRecord
<1>3. pulls' \subseteq Query
  BY <1>1, <1>2, QueryNumbers DEF SessionRecord
<1>4. GhostIs(ghost', ghost.mixed, FALSE, s, ghost.unrecorded)
  <2>1. ghost.unrecorded \in SUBSET Query /\ s \in {"none", "statement", "session", "blank"}
    BY <1>2 DEF GhostRecord
  <2> HIDE DEF s
  <2> QED
    BY <1>1, <1>2, <2>1, GhostRecords
<1>5. Waiting = {}
  BY DEF StatementInv, FramesAndWires
<1> QED
  BY <1>1, <1>2, <1>3, <1>4, <1>5, RestoredSteps

LEMMA LeavePageSteps ==
  ASSUME StatementInv, LeavePage, page' # "app"
  PROVE  StatementInv'
<1>1. /\ frame' = [q \in Query |-> IF frame[q] = "waiting" THEN "lost" ELSE frame[q]] /\ pulls' = {}
      /\ UNCHANGED <<object, result, sent, cache, ghost, wire, session, stmt, ran, cancels, records, history>>
  BY DEF LeavePage, Forgotten, serverVars
<1>2. frame \in [Query -> Frames]
  BY DEF StatementInv, StatementTypes
<1>3. \A q \in Query : /\ frame'[q] # "waiting"
                       /\ frame'[q] = "lost" \/ frame'[q] = frame[q]
                       /\ frame[q] = "ended" => frame'[q] = "ended"
  BY <1>1, <1>2
<1>4. StatementTypes'
  BY <1>1, <1>2 DEF StatementInv, StatementTypes, Frames
<1>5. FramesAndWires' /\ EndsRecorded'
  BY <1>1, <1>3 DEF StatementInv, FramesAndWires, EndsRecorded, Waiting
<1>6. RowsEnded'
  BY <1>1, <1>3, QueryNumbers DEF StatementInv, StatementTypes, RowsEnded, QueryObject
<1>7. Unmixed'
  BY <1>1, <1>3 DEF StatementInv, Unmixed, Waiting
<1>8. RowsOfTheirText' /\ SpinnerHasItsStatement' /\ RunningHeld'
  BY <1>1 DEF StatementInv, RowsOfTheirText, Shown, SpinnerHasItsStatement, RunningHeld
<1> QED
  BY <1>4, <1>5, <1>6, <1>7, <1>8 DEF StatementInv

LEMMA EditSteps ==
  ASSUME StatementInv, NEW t \in Text, Edit(t), UNCHANGED page
  PROVE  StatementInv'
<1> DEFINE m == ghost.mixed \/ Waiting # {}
<1>1. /\ App /\ object' = [object EXCEPT ![result.ref].text = t]
      /\ ghost' = [ghost EXCEPT !.mixed = m, !.draft = TRUE]
      /\ UNCHANGED <<result, frame, sent, pulls, cache, wire, session, stmt, ran, cancels, records, history>>
  BY DEF Edit, serverVars
<1>2. /\ ghost \in GhostRecord /\ object \in [0..MaxQuery -> QueryObject] /\ result \in ResultState
      /\ result.ref \in 0..MaxQuery /\ pulls' \subseteq Query /\ cancels' \subseteq Query
      /\ session' \in SessionRecord /\ result' \in ResultState
  BY <1>1 DEF StatementInv, StatementTypes, ResultState
<1>3. ghost' \in GhostRecord /\ ghost'.mixed = m /\ ghost'.draft = TRUE /\ ghost'.spin = ghost.spin
      /\ ghost'.unrecorded = ghost.unrecorded
  <2>1. ghost.unrecorded \in SUBSET Query /\ m \in BOOLEAN
        /\ ghost.spin \in {"none", "statement", "session", "blank"}
    BY <1>2 DEF GhostRecord
  <2> HIDE DEF m
  <2>2. GhostIs([ghost EXCEPT !.mixed = m, !.draft = TRUE], m, TRUE, ghost.spin, ghost.unrecorded)
    BY <1>2, <2>1, GhostRecords
  <2> QED
    BY <1>1, <2>2 DEF GhostIs
<1>4. object' \in [0..MaxQuery -> QueryObject] /\ \A o \in 0..MaxQuery : object'[o].rows = object[o].rows
  <2> DEFINE new == [object[result.ref] EXCEPT !.text = t]
  <2>1. new \in QueryObject /\ new.rows = object[result.ref].rows
    BY <1>2, QueryNumbers, ObjectRecords DEF AnyText
  <2>2. object' = [object EXCEPT ![result.ref] = new]
    BY <1>1, <1>2
  <2> HIDE DEF new
  <2> QED
    BY <1>2, <2>1, <2>2
<1>5. StatementTypes' /\ FramesAndWires' /\ RunningHeld' /\ EndsRecorded'
  BY <1>1, <1>2, <1>3, <1>4, WindowRest DEF App
<1>6. RowsEnded'
  BY <1>1, <1>4 DEF StatementInv, RowsEnded
<1>7. Unmixed'
  BY <1>1, <1>3 DEF StatementInv, Unmixed, Waiting
<1>8. RowsOfTheirText'
  BY <1>3 DEF RowsOfTheirText
<1>9. SpinnerHasItsStatement'
  BY <1>1, <1>3 DEF StatementInv, SpinnerHasItsStatement, Waiting
<1> QED
  BY <1>5, <1>6, <1>7, <1>8, <1>9 DEF StatementInv

LEMMA FetchRowsSteps == ASSUME StatementInv, FetchRows, UNCHANGED page PROVE StatementInv'
<1>1. PICK loading \in BOOLEAN :
        /\ result' = [result EXCEPT !.loading = loading]
        /\ ghost' = [ghost EXCEPT !.spin = IF loading THEN "blank" ELSE "none"]
  BY DEF FetchRows
<1>2. App /\ UNCHANGED <<object, frame, sent, pulls, cache, wire, session, stmt, ran, cancels, records, history>>
  BY DEF FetchRows, serverVars
<1>3. ghost \in GhostRecord /\ result \in ResultState /\ pulls' \subseteq Query
      /\ cancels' \subseteq Query /\ session' \in SessionRecord /\ object' \in [0..MaxQuery -> QueryObject]
  BY <1>2 DEF StatementInv, StatementTypes
<1>4. result' \in ResultState /\ result'.ref = result.ref
  BY <1>1, <1>3 DEF ResultState
<1>5. /\ ghost' \in GhostRecord /\ ghost'.mixed = ghost.mixed /\ ghost'.draft = ghost.draft
      /\ ghost'.spin # "statement" /\ ghost'.unrecorded = ghost.unrecorded
  <2> DEFINE s == IF loading THEN "blank" ELSE "none"
  <2>1. s \in {"none", "statement", "session", "blank"} /\ s # "statement"
    OBVIOUS
  <2>2. ghost.mixed \in BOOLEAN /\ ghost.draft \in BOOLEAN /\ ghost.unrecorded \in SUBSET Query
    BY <1>3 DEF GhostRecord
  <2>3. ghost' = [ghost EXCEPT !.spin = s]
    BY <1>1
  <2> HIDE DEF s
  <2>4. GhostIs([ghost EXCEPT !.spin = s], ghost.mixed, ghost.draft, s, ghost.unrecorded)
    BY <1>3, <2>1, <2>2, GhostRecords
  <2> QED
    BY <2>1, <2>3, <2>4 DEF GhostIs
<1>6. StatementTypes' /\ FramesAndWires' /\ RunningHeld' /\ EndsRecorded'
  BY <1>2, <1>3, <1>4, <1>5, WindowRest DEF App
<1>7. RowsEnded' /\ Unmixed'
  BY <1>2, <1>4, <1>5 DEF StatementInv, RowsEnded, Unmixed, Waiting
<1>8. RowsOfTheirText'
  BY <1>2, <1>4, <1>5 DEF StatementInv, RowsOfTheirText, Shown
<1>9. SpinnerHasItsStatement'
  BY <1>5 DEF SpinnerHasItsStatement
<1> QED
  BY <1>6, <1>7, <1>8, <1>9 DEF StatementInv

LEMMA PullResultSteps ==
  ASSUME StatementInv, NEW p \in Query, PullResult(p), UNCHANGED page
  PROVE  StatementInv'
<1>1. pulls' = pulls \ {p}
      /\ UNCHANGED <<frame, sent, cache, wire, session, stmt, ran, cancels, records, history>>
  BY DEF PullResult, serverVars
<1>2. /\ ghost \in GhostRecord /\ object \in [0..MaxQuery -> QueryObject]
      /\ pulls' \subseteq Query /\ cancels' \subseteq Query /\ session' \in SessionRecord
      /\ cache[p] \in QueryObject
  BY <1>1 DEF StatementInv, StatementTypes
<1>3. CASE UNCHANGED <<object, result, ghost>>
  BY <1>1, <1>2, <1>3, AsideSteps
<1>4. CASE cache[p].rows # Detached /\ ~ UNCHANGED <<object, result, ghost>>
  <2> DEFINE m == ghost.mixed \/ Waiting # {}
             r == [ref |-> Detached, id |-> p, loading |-> FALSE, from_cache |-> TRUE]
  <2>1. /\ object' = [object EXCEPT ![Detached] = cache[p]] /\ result' = r
        /\ ghost' = [ghost EXCEPT !.mixed = m, !.draft = FALSE, !.spin = "none"]
    BY <1>4 DEF PullResult, Pulled
  <2>2. r \in ResultState /\ r.ref = Detached
    BY QueryNumbers, Zenon DEF ResultState
  <2>3. /\ ghost' \in GhostRecord /\ ghost'.mixed = m /\ ghost'.spin = "none"
        /\ ghost'.unrecorded = ghost.unrecorded
    <3>1. ghost.unrecorded \in SUBSET Query /\ m \in BOOLEAN
      BY <1>2 DEF GhostRecord
    <3> HIDE DEF m
    <3>2. GhostIs([ghost EXCEPT !.mixed = m, !.draft = FALSE, !.spin = "none"],
                  m, FALSE, "none", ghost.unrecorded)
      BY <1>2, <3>1, GhostRecords
    <3> QED
      BY <2>1, <3>2 DEF GhostIs
  <2>4. object' \in [0..MaxQuery -> QueryObject] /\ object'[Detached] = cache[p]
        /\ \A q \in Query : object'[q] = object[q]
    BY <1>2, <2>1, QueryNumbers
  <2> HIDE DEF r
  <2>5. StatementTypes' /\ FramesAndWires' /\ RunningHeld' /\ EndsRecorded'
    BY <1>1, <1>2, <2>1, <2>2, <2>3, <2>4, WindowRest DEF StatementInv, FramesAndWires
  <2>6. RowsEnded'
    BY <1>1, <2>4, QueryNumbers DEF StatementInv, RowsEnded
  <2>7. Unmixed'
    BY <1>1, <2>3 DEF StatementInv, Unmixed, Waiting
  <2>8. RowsOfTheirText'
    <3>1. Shown' = cache[p]
      BY <2>1, <2>2, <2>4 DEF Shown
    <3>2. ~ghost'.mixed => Shown'.text = ran[Shown'.rows]
      BY <1>4, <2>3, <3>1 DEF StatementInv, Unmixed
    <3> QED
      BY <1>1, <3>2 DEF RowsOfTheirText
  <2>9. SpinnerHasItsStatement'
    BY <2>3 DEF SpinnerHasItsStatement
  <2> QED
    BY <2>5, <2>6, <2>7, <2>8, <2>9 DEF StatementInv
<1> QED
  BY <1>3, <1>4 DEF PullResult

LEMMA ToSubmitText ==
  ASSUME StatementInv
  PROVE  ToSubmit \in AnyText
BY RowsRest, QueryNumbers DEF ToSubmit, QueryObject

LEMMA SubmitSteps ==
  ASSUME StatementInv, NEW q \in Query, Submit(q), UNCHANGED page
  PROVE  StatementInv'
<1> DEFINE m == ghost.mixed \/ Waiting # {}
           new == Reset(ToSubmit)
           r == [result EXCEPT !.ref = q, !.id = q, !.loading = TRUE]
<1>1. /\ App /\ frame[q] = "unused"
      /\ object' = [object EXCEPT ![result.ref] = new, ![q] = new] /\ result' = r
      /\ frame' = [frame EXCEPT ![q] = "waiting"] /\ wire' = [wire EXCEPT ![q] = "posted"]
      /\ sent' = [sent EXCEPT ![q] = ToSubmit]
      /\ ghost' = [ghost EXCEPT !.mixed = m, !.draft = FALSE, !.spin = "statement"]
      /\ UNCHANGED <<pulls, cache, session, stmt, ran, cancels, records, history>>
  BY DEF Submit, serverVars
<1>2. /\ ghost \in GhostRecord /\ object \in [0..MaxQuery -> QueryObject] /\ result \in ResultState
      /\ frame \in [Query -> Frames] /\ wire \in [Query -> Wires] /\ sent \in [Query -> AnyText]
      /\ result.ref \in 0..MaxQuery
  BY DEF StatementInv, StatementTypes, ResultState
<1>3. /\ ghost' \in GhostRecord /\ ghost'.mixed = m /\ ghost'.unrecorded = ghost.unrecorded
  <2>1. ghost.unrecorded \in SUBSET Query /\ m \in BOOLEAN
    BY <1>2 DEF GhostRecord
  <2> HIDE DEF m
  <2>2. GhostIs([ghost EXCEPT !.mixed = m, !.draft = FALSE, !.spin = "statement"],
                m, FALSE, "statement", ghost.unrecorded)
    BY <1>2, <2>1, GhostRecords
  <2> QED
    BY <1>1, <2>2 DEF GhostIs
<1>4. new \in QueryObject /\ new.text = ToSubmit /\ new.rows = Detached /\ ToSubmit \in AnyText
  BY <1>2, ToSubmitText, ObjectRecords, QueryNumbers
<1>5. r \in ResultState /\ r.ref = q
  <2>1. ASSUME NEW l \in BOOLEAN
        PROVE  [result EXCEPT !.ref = q, !.id = q, !.loading = l] \in ResultState
               /\ [result EXCEPT !.ref = q, !.id = q, !.loading = l].ref = q
    BY <1>2, QueryNumbers DEF ResultState
  <2> QED
    BY <2>1
<1> HIDE DEF new, r
<1>6. /\ object' \in [0..MaxQuery -> QueryObject] /\ object'[q] = new
      /\ \A o \in 0..MaxQuery : object'[o] = new \/ object'[o] = object[o]
  BY <1>1, <1>2, <1>4, QueryNumbers
<1>7. /\ frame' \in [Query -> Frames] /\ wire' \in [Query -> Wires] /\ sent' \in [Query -> AnyText]
      /\ frame'[q] = "waiting" /\ wire'[q] = "posted" /\ sent'[q] = ToSubmit
      /\ \A p \in Query \ {q} : frame'[p] = frame[p] /\ wire'[p] = wire[p] /\ sent'[p] = sent[p]
  BY <1>1, <1>2, <1>4 DEF Frames, Wires
<1>8. StatementTypes'
  BY <1>1, <1>3, <1>5, <1>6, <1>7 DEF StatementInv, StatementTypes
<1>9. FramesAndWires'
  BY <1>1, <1>7 DEF StatementInv, FramesAndWires, Waiting, App
<1>10. RowsEnded'
  <2>1. \A p \in Query : frame[p] = "ended" => frame'[p] = "ended"
    BY <1>1, <1>7
  <2>2. object'[result'.ref].rows = Detached
    BY <1>1, <1>4, <1>5, <1>6
  <2>3. ASSUME NEW o \in 0..MaxQuery, object'[o].rows # Detached
        PROVE  frame'[object'[o].rows] = "ended"
    <3>1. object'[o] = object[o] /\ object[o].rows \in 0..MaxQuery
      BY <1>2, <1>4, <1>6, <2>3 DEF QueryObject
    <3> QED
      BY <2>1, <2>3, <3>1, QueryNumbers DEF StatementInv, RowsEnded
  <2>4. ASSUME NEW p \in Query, cache[p].rows # Detached
        PROVE  frame'[cache[p].rows] = "ended"
    BY <2>1, <2>4, RowsRest DEF StatementInv, RowsEnded
  <2> QED
    BY <1>1, <2>3, <2>4 DEF RowsEnded
<1>11. Unmixed'
  <2>1. stmt[q] = "unknown"
    BY <1>1 DEF StatementInv, FramesAndWires
  <2>2. ~m => /\ \A p \in Query : frame[p] # "waiting"
              /\ \A p \in Query : cache[p].rows # Detached => cache[p].text = ran[cache[p].rows]
    BY DEF StatementInv, Unmixed, Waiting
  <2> HIDE DEF m
  <2>3. ~m => \A p \in Query : frame'[p] = "waiting" => p = q
    BY <1>7, <2>2
  <2> QED
    BY <1>1, <1>3, <1>4, <1>5, <1>6, <1>7, <2>1, <2>2, <2>3 DEF Unmixed, Waiting
<1>12. RowsOfTheirText'
  <2>1. object'[result'.ref].rows = Detached
    BY <1>1, <1>4, <1>5, <1>6
  <2> QED
    BY <2>1 DEF RowsOfTheirText, Shown
<1>13. SpinnerHasItsStatement'
  BY <1>7 DEF SpinnerHasItsStatement, Waiting
<1>14. RunningHeld'
  <2>1. wire[q] = "none"
    BY <1>1 DEF StatementInv, FramesAndWires
  <2> QED
    BY <1>1, <1>7, <2>1 DEF StatementInv, StatementTypes, RunningHeld, HistoryRecord
<1>15. EndsRecorded'
  BY <1>1, <1>3, <1>7 DEF StatementInv, EndsRecorded
<1> QED
  BY <1>8, <1>9, <1>10, <1>11, <1>12, <1>13, <1>14, <1>15 DEF StatementInv

\* An answer of a submission that waits: it is on the wire, not held back.
LEMMA ArrivedHere ==
  ASSUME StatementInv, NEW q \in Query, NEW what, Arrived(q, what)
  PROVE  /\ frame[q] = "waiting" /\ wire[q] = what /\ q \in Waiting
         /\ ~ghost.mixed => result.ref = q /\ object[q].text = sent[q]
         /\ (~ghost.mixed /\ what \in {"continue", "rows", "norows", "error"}) => ran[q] = sent[q]
BY DEF Arrived, StatementInv, Unmixed, Waiting

\* A text that is put into two objects, or into one.
WithText(f, p, q, t) == [f EXCEPT ![p].text = t, ![q].text = t]

TextIsPut(f, g, p, q, t) ==
  /\ g \in [0..MaxQuery -> QueryObject]
  /\ \A o \in 0..MaxQuery : /\ g[o].rows = f[o].rows
                            /\ g[o].text = IF o = p \/ o = q THEN t ELSE f[o].text

LEMMA TextPut ==
  ASSUME NEW f \in [0..MaxQuery -> QueryObject], NEW t \in AnyText,
         NEW p \in 0..MaxQuery, NEW q \in 0..MaxQuery
  PROVE  TextIsPut(f, WithText(f, p, q, t), p, q, t)
<1> DEFINE h == [f EXCEPT ![p] = [f[p] EXCEPT !.text = t]]
<1>1. \A o \in 0..MaxQuery : /\ [f[o] EXCEPT !.text = t] \in QueryObject
                             /\ [f[o] EXCEPT !.text = t].text = t
                             /\ [f[o] EXCEPT !.text = t].rows = f[o].rows
  BY DEF QueryObject, AnyText
<1>2. /\ h \in [0..MaxQuery -> QueryObject]
      /\ \A o \in 0..MaxQuery : /\ h[o].rows = f[o].rows
                                /\ h[o].text = IF o = p THEN t ELSE f[o].text
  BY <1>1
<1>3. WithText(f, p, q, t) = [h EXCEPT ![q] = [h[q] EXCEPT !.text = t]]
  BY DEF WithText
<1> HIDE DEF h
<1>4. /\ [h[q] EXCEPT !.text = t] \in QueryObject /\ [h[q] EXCEPT !.text = t].text = t
      /\ [h[q] EXCEPT !.text = t].rows = h[q].rows
  BY <1>2 DEF QueryObject, AnyText
<1> QED
  BY <1>2, <1>3, <1>4 DEF TextIsPut

LEMMA ContinueSteps ==
  ASSUME StatementInv, NEW q \in Query, Continue(q), UNCHANGED page
  PROVE  StatementInv'
<1>1. PICK t \in Continued(q) : /\ object' = [object EXCEPT ![q].text = t, ![result.ref].text = t]
                                /\ sent' = [sent EXCEPT ![q] = t]
  BY DEF Continue
<1>2. /\ App /\ Arrived(q, "continue") /\ wire' = [wire EXCEPT ![q] = "resumed"]
      /\ UNCHANGED <<result, frame, pulls, cache, ghost, session, stmt, ran, cancels, records, history>>
  BY DEF Continue, serverVars
<1>3. /\ object \in [0..MaxQuery -> QueryObject] /\ result.ref \in 0..MaxQuery /\ q \in 0..MaxQuery
      /\ wire \in [Query -> Wires] /\ sent \in [Query -> AnyText] /\ ran[q] \in AnyText
      /\ object[q] \in QueryObject
  BY QueryNumbers DEF StatementInv, StatementTypes, ResultState
<1>4. t \in AnyText /\ (t = object[q].text \/ t = ran[q])
  BY <1>1, <1>3 DEF Continued, QueryObject
<1>5. /\ object' \in [0..MaxQuery -> QueryObject]
      /\ \A o \in 0..MaxQuery : /\ object'[o].rows = object[o].rows
                                /\ object'[o].text = IF o = q \/ o = result.ref THEN t ELSE object[o].text
  <2>1. object' = WithText(object, q, result.ref, t)
    BY <1>1 DEF WithText
  <2>2. TextIsPut(object, WithText(object, q, result.ref, t), q, result.ref, t)
    BY <1>3, <1>4, TextPut
  <2> QED
    BY <2>1, <2>2 DEF TextIsPut
<1>6. /\ frame[q] = "waiting" /\ wire[q] = "continue"
      /\ ~ghost.mixed => result.ref = q /\ object[q].text = sent[q] /\ ran[q] = sent[q]
  BY <1>2, ArrivedHere
<1>7. /\ wire' \in [Query -> Wires] /\ sent' \in [Query -> AnyText]
      /\ wire'[q] = "resumed" /\ sent'[q] = t
      /\ \A p \in Query \ {q} : wire'[p] = wire[p] /\ sent'[p] = sent[p]
  BY <1>1, <1>2, <1>3, <1>4 DEF Wires
<1>8. StatementTypes'
  BY <1>2, <1>5, <1>7 DEF StatementInv, StatementTypes
<1>9. FramesAndWires'
  BY <1>2, <1>6, <1>7 DEF StatementInv, FramesAndWires, Waiting
<1>10. RowsEnded'
  BY <1>2, <1>5 DEF StatementInv, RowsEnded
<1>11. ~ghost.mixed => \A o \in 0..MaxQuery : object'[o].text = object[o].text
  BY <1>4, <1>5, <1>6
<1>12. Unmixed'
  <2>1. ~ghost.mixed => t = sent[q]
    BY <1>4, <1>6
  <2> QED
    BY <1>2, <1>6, <1>7, <1>11, <2>1, QueryNumbers DEF StatementInv, Unmixed, Waiting
<1>13. RowsOfTheirText'
  BY <1>2, <1>3, <1>5, <1>11 DEF StatementInv, RowsOfTheirText, Shown
<1>14. SpinnerHasItsStatement'
  BY <1>2 DEF StatementInv, SpinnerHasItsStatement, Waiting
<1>15. RunningHeld'
  <2>1. \A r \in records : ~(r.query = q /\ r.request = "sql")
    BY <1>2, <1>6 DEF Arrived, Held
  <2> QED
    BY <1>2, <1>7, <2>1 DEF StatementInv, StatementTypes, RunningHeld, HistoryRecord
<1>16. EndsRecorded'
  BY <1>2, <1>6, <1>7 DEF StatementInv, EndsRecorded
<1> QED
  BY <1>8, <1>9, <1>10, <1>12, <1>13, <1>14, <1>15, <1>16 DEF StatementInv

LEMMA SucceedSteps ==
  ASSUME StatementInv, NEW q \in Query, Succeed(q), UNCHANGED page
  PROVE  StatementInv'
<1> DEFINE rows  == IF wire[q] = "rows" THEN q ELSE Detached
           new   == [object[q] EXCEPT !.rows = rows, !.err = FALSE]
           shown == [result EXCEPT !.ref = q, !.id = q, !.loading = FALSE]
<1>1. /\ App /\ (Arrived(q, "rows") \/ Arrived(q, "norows"))
      /\ object' = [object EXCEPT ![q] = new] /\ result' = shown
      /\ cache' = [cache EXCEPT ![q] = new] /\ frame' = [frame EXCEPT ![q] = "ended"]
      /\ wire' = [wire EXCEPT ![q] = "none"] /\ Save(shown, new)
      /\ ghost' = [ghost EXCEPT !.spin = "none"]
      /\ UNCHANGED <<sent, pulls, stmt, ran, cancels, records, history>>
  BY DEF Succeed, serverVars
<1>2. /\ object \in [0..MaxQuery -> QueryObject] /\ object[q] \in QueryObject /\ q \in 0..MaxQuery
      /\ result \in ResultState /\ cache \in [Query -> QueryObject] /\ session \in SessionRecord
      /\ wire \in [Query -> Wires] /\ frame \in [Query -> Frames] /\ ghost \in GhostRecord
  BY QueryNumbers DEF StatementInv, StatementTypes
<1>3. /\ frame[q] = "waiting" /\ wire[q] \in {"rows", "norows"}
      /\ ~ghost.mixed => result.ref = q /\ object[q].text = ran[q]
  BY <1>1, ArrivedHere
<1>4. rows \in {q, Detached}
  OBVIOUS
<1> HIDE DEF rows
<1>5. new \in QueryObject /\ new.text = object[q].text /\ new.rows = rows
  <2>1. rows \in 0..MaxQuery /\ blank \in AnyText
    BY <1>2, <1>4, QueryNumbers
  <2> QED
    <3>1. new = WithRows(object[q], rows)
      BY DEF WithRows
    <3> HIDE DEF new
    <3> QED
      BY <1>2, <2>1, <3>1, ObjectRecords
<1>6. shown \in ResultState /\ shown.ref = q /\ ~shown.loading
  <2>1. ASSUME NEW l \in BOOLEAN
        PROVE  /\ [result EXCEPT !.ref = q, !.id = q, !.loading = l] \in ResultState
               /\ [result EXCEPT !.ref = q, !.id = q, !.loading = l].ref = q
               /\ [result EXCEPT !.ref = q, !.id = q, !.loading = l].loading = l
    BY <1>2 DEF ResultState
  <2> QED
    BY <2>1
<1>7. /\ ghost' \in GhostRecord /\ ghost'.mixed = ghost.mixed /\ ghost'.spin = "none"
      /\ ghost'.unrecorded = ghost.unrecorded
  <2>1. ghost.unrecorded \in SUBSET Query /\ ghost.mixed \in BOOLEAN /\ ghost.draft \in BOOLEAN
    BY <1>2 DEF GhostRecord
  <2>2. GhostIs([ghost EXCEPT !.spin = "none"], ghost.mixed, ghost.draft, "none", ghost.unrecorded)
    BY <1>2, <2>1, GhostRecords
  <2> QED
    BY <1>1, <2>2 DEF GhostIs
<1> HIDE DEF new, shown
<1>8. session' \in SessionRecord
  BY <1>1, <1>2, <1>5, <1>6, Saved
<1>9. /\ object' \in [0..MaxQuery -> QueryObject] /\ object'[q] = new
      /\ \A o \in (0..MaxQuery) \ {q} : object'[o] = object[o]
  BY <1>1, <1>2, <1>5
<1>10. /\ cache' \in [Query -> QueryObject] /\ cache'[q] = new
       /\ \A p \in Query \ {q} : cache'[p] = cache[p]
  BY <1>1, <1>2, <1>5
<1>11. /\ frame' \in [Query -> Frames] /\ wire' \in [Query -> Wires]
       /\ frame'[q] = "ended" /\ wire'[q] = "none"
       /\ \A p \in Query \ {q} : frame'[p] = frame[p] /\ wire'[p] = wire[p]
  BY <1>1, <1>2 DEF Frames, Wires
<1>12. StatementTypes'
  BY <1>1, <1>6, <1>7, <1>8, <1>9, <1>10, <1>11 DEF StatementInv, StatementTypes
<1>13. FramesAndWires'
  BY <1>1, <1>3, <1>11 DEF StatementInv, FramesAndWires, Waiting, App
<1>14. RowsEnded'
  <2>1. \A p \in Query : p = q \/ frame[p] = "ended" => frame'[p] = "ended"
    BY <1>11
  <2>2. ASSUME NEW o \in 0..MaxQuery, object'[o].rows # Detached
        PROVE  frame'[object'[o].rows] = "ended"
    <3>1. CASE o = q
      BY <1>4, <1>5, <1>9, <1>11, <2>2, <3>1
    <3>2. CASE o # q
      <4>1. object'[o] = object[o] /\ object[o].rows \in 0..MaxQuery
        BY <1>2, <1>9, <3>2 DEF QueryObject
      <4> QED
        BY <2>1, <2>2, <4>1, QueryNumbers DEF StatementInv, RowsEnded
    <3> QED
      BY <3>1, <3>2
  <2>3. ASSUME NEW p \in Query, cache'[p].rows # Detached
        PROVE  frame'[cache'[p].rows] = "ended"
    BY <1>4, <1>5, <1>10, <1>11, <2>1, <2>3, RowsRest DEF StatementInv, RowsEnded
  <2> QED
    BY <2>2, <2>3 DEF RowsEnded
<1>15. Unmixed'
  <2>1. ~ghost.mixed => \A p \in Query : frame[p] = "waiting" => p = q
    BY <1>3 DEF StatementInv, Unmixed, Waiting
  <2>2. ~ghost.mixed => \A p \in Query : cache'[p].rows # Detached => cache'[p].text = ran[cache'[p].rows]
    BY <1>3, <1>4, <1>5, <1>10 DEF StatementInv, Unmixed
  <2> QED
    BY <1>1, <1>7, <1>11, <2>1, <2>2 DEF Unmixed, Waiting
<1>16. RowsOfTheirText'
  <2>1. object'[result'.ref] = new
    BY <1>1, <1>6, <1>9
  <2>2. ~ghost.mixed /\ new.rows # Detached => new.text = ran[new.rows]
    BY <1>3, <1>4, <1>5
  <2> QED
    BY <1>1, <1>7, <2>1, <2>2 DEF RowsOfTheirText, Shown
<1>17. SpinnerHasItsStatement'
  BY <1>7 DEF SpinnerHasItsStatement
<1>18. RunningHeld'
  BY <1>1, <1>3, <1>11 DEF StatementInv, StatementTypes, RunningHeld, HistoryRecord
<1>19. EndsRecorded'
  BY <1>1, <1>3, <1>7, <1>11 DEF StatementInv, EndsRecorded
<1> QED
  BY <1>12, <1>13, <1>14, <1>15, <1>16, <1>17, <1>18, <1>19 DEF StatementInv

LEMMA FailSteps ==
  ASSUME StatementInv, NEW q \in Query, Fail(q), UNCHANGED page
  PROVE  StatementInv'
<1> DEFINE new   == [object[q] EXCEPT !.err = TRUE]
           shown == [result EXCEPT !.loading = FALSE]
<1>1. /\ App
      /\ \/ Arrived(q, "error") /\ frame' = [frame EXCEPT ![q] = "failed"]
         \/ Arrived(q, "broken") /\ frame' = [frame EXCEPT ![q] = "broken"]
      /\ object' = [object EXCEPT ![q] = new] /\ result' = shown
      /\ wire' = [wire EXCEPT ![q] = "none"] /\ Save(result', object'[result.ref])
      /\ ghost' = [ghost EXCEPT !.spin = IF result'.loading THEN ghost.spin ELSE "none"]
      /\ UNCHANGED <<sent, pulls, cache, stmt, ran, cancels, records, history>>
  <2>1. object' = [object EXCEPT ![q].err = TRUE] => object' = [object EXCEPT ![q] = new]
    BY QueryNumbers DEF StatementInv, StatementTypes
  <2> QED
    BY <2>1 DEF Fail, serverVars, Stopped
<1>2. /\ object \in [0..MaxQuery -> QueryObject] /\ object[q] \in QueryObject /\ q \in 0..MaxQuery
      /\ result \in ResultState /\ result.ref \in 0..MaxQuery /\ session \in SessionRecord
      /\ wire \in [Query -> Wires] /\ frame \in [Query -> Frames] /\ ghost \in GhostRecord
  BY QueryNumbers DEF StatementInv, StatementTypes, ResultState
<1>3. /\ frame[q] = "waiting" /\ wire[q] \in {"error", "broken"}
  BY <1>1, ArrivedHere
<1>4. new \in QueryObject /\ new.text = object[q].text /\ new.rows = object[q].rows
  BY <1>2, ObjectRecords, QueryNumbers
<1>5. shown \in ResultState /\ shown.ref = result.ref /\ ~shown.loading
  <2>1. ASSUME NEW l \in BOOLEAN
        PROVE  /\ [result EXCEPT !.loading = l] \in ResultState
               /\ [result EXCEPT !.loading = l].ref = result.ref
               /\ [result EXCEPT !.loading = l].loading = l
    BY <1>2 DEF ResultState
  <2> QED
    BY <2>1
<1> HIDE DEF new, shown
<1>6. /\ ghost' \in GhostRecord /\ ghost'.mixed = ghost.mixed /\ ghost'.spin = "none"
      /\ ghost'.draft = ghost.draft /\ ghost'.unrecorded = ghost.unrecorded
  <2>1. ghost.unrecorded \in SUBSET Query /\ ghost.mixed \in BOOLEAN /\ ghost.draft \in BOOLEAN
    BY <1>2 DEF GhostRecord
  <2>2. GhostIs([ghost EXCEPT !.spin = "none"], ghost.mixed, ghost.draft, "none", ghost.unrecorded)
    BY <1>2, <2>1, GhostRecords
  <2> QED
    BY <1>1, <1>5, <2>2 DEF GhostIs
<1>7. /\ object' \in [0..MaxQuery -> QueryObject]
      /\ \A o \in 0..MaxQuery : object'[o].text = object[o].text /\ object'[o].rows = object[o].rows
  BY <1>1, <1>2, <1>4
<1>8. session' \in SessionRecord
  BY <1>1, <1>2, <1>5, <1>7, Saved
<1>9. /\ frame' \in [Query -> Frames] /\ wire' \in [Query -> Wires]
      /\ frame'[q] \in {"failed", "broken"} /\ wire'[q] = "none"
      /\ frame'[q] = "failed" => wire[q] = "error"
      /\ \A p \in Query \ {q} : frame'[p] = frame[p] /\ wire'[p] = wire[p]
  BY <1>1, <1>2 DEF Frames, Wires, Arrived
<1>10. StatementTypes'
  BY <1>1, <1>5, <1>6, <1>7, <1>8, <1>9 DEF StatementInv, StatementTypes
<1>11. FramesAndWires'
  BY <1>1, <1>3, <1>9 DEF StatementInv, FramesAndWires, Waiting, App
<1>12. RowsEnded'
  <2>1. \A p \in Query : frame[p] = "ended" => frame'[p] = "ended"
    BY <1>3, <1>9
  <2>2. \A o \in 0..MaxQuery : object[o].rows \in Query \cup {Detached}
    BY <1>2, QueryNumbers DEF QueryObject
  <2> QED
    BY <1>1, <1>7, <2>1, <2>2, RowsRest DEF StatementInv, RowsEnded
<1>13. Unmixed'
  BY <1>1, <1>2, <1>5, <1>6, <1>7, <1>9, QueryNumbers DEF StatementInv, Unmixed, Waiting
<1>14. RowsOfTheirText'
  BY <1>1, <1>2, <1>5, <1>6, <1>7 DEF StatementInv, RowsOfTheirText, Shown
<1>15. SpinnerHasItsStatement'
  BY <1>6 DEF SpinnerHasItsStatement
<1>16. RunningHeld'
  BY <1>1, <1>3, <1>9 DEF StatementInv, StatementTypes, RunningHeld, HistoryRecord
<1>17. EndsRecorded'
  BY <1>1, <1>6, <1>9 DEF StatementInv, EndsRecorded
<1> QED
  BY <1>10, <1>11, <1>12, <1>13, <1>14, <1>15, <1>16, <1>17 DEF StatementInv

LEMMA StatementStarts == StatementInit /\ page = "loading" => StatementInv
<1> SUFFICES ASSUME StatementInit, page = "loading" PROVE StatementInv
  OBVIOUS
<1>1. /\ object = [q \in 0..MaxQuery |-> Blank]
      /\ result = [ref |-> Detached, id |-> Detached, loading |-> FALSE, from_cache |-> FALSE]
      /\ frame = [q \in Query |-> "unused"] /\ wire = [q \in Query |-> "none"]
      /\ sent = [q \in Query |-> blank] /\ pulls = {} /\ cache = [q \in Query |-> Blank]
      /\ session = [id |-> Detached, text |-> blank, err |-> FALSE, loading |-> FALSE]
      /\ stmt = [q \in Query |-> "unknown"] /\ ran = [q \in Query |-> blank]
      /\ cancels = {} /\ records = {} /\ history = [q \in Query |-> "none"]
      /\ ghost = [mixed |-> FALSE, draft |-> FALSE, spin |-> "none", unrecorded |-> {}]
  BY DEF StatementInit
<1>2. Blank \in QueryObject /\ Blank.rows = Detached
  <2>1. Blank \in QueryObject
    BY QueryNumbers, Zenon DEF Blank, QueryObject
  <2> QED
    BY <2>1, QueryNumbers, ObjectRecords
<1>3. result \in ResultState /\ session \in SessionRecord
  BY <1>1, QueryNumbers, Zenon DEF ResultState, SessionRecord
<1>4. ghost \in GhostRecord
  BY <1>1, Zenon DEF GhostRecord
<1>5. StatementTypes
  BY <1>1, <1>2, <1>3, <1>4, QueryNumbers DEF StatementTypes, Frames, Wires
<1>6. FramesAndWires /\ RunningHeld /\ EndsRecorded
  BY <1>1 DEF FramesAndWires, RunningHeld, EndsRecorded, Waiting
<1>7. result.ref = Detached
  BY <1>1
<1>8. RowsEnded /\ Unmixed /\ RowsOfTheirText
  BY <1>1, <1>2, <1>7, QueryNumbers DEF RowsEnded, Unmixed, RowsOfTheirText, Shown, Waiting
<1> QED
  BY <1>5, <1>6, <1>8 DEF StatementInv, SpinnerHasItsStatement

\* The page does not change, or it comes or goes by steps of its own.
LEMMA StatementStays ==
  ASSUME StatementInv, UNCHANGED statementVars,
         page' = page \/ (page # "app" /\ page' # "app")
  PROVE  StatementInv'
<1>1. UNCHANGED <<object, result, frame, sent, pulls, cache, ghost, wire, session, stmt, ran,
                  cancels, records, history>>
  BY DEF statementVars, windowVars, serverVars
<1>2. StatementTypes'
  BY <1>1 DEF StatementInv, StatementTypes
<1>3. FramesAndWires' /\ RowsEnded' /\ Unmixed'
  BY <1>1 DEF StatementInv, FramesAndWires, RowsEnded, Unmixed, Waiting
<1>4. RowsOfTheirText' /\ SpinnerHasItsStatement'
  BY <1>1 DEF StatementInv, RowsOfTheirText, Shown, SpinnerHasItsStatement, Waiting
<1>5. RunningHeld' /\ EndsRecorded'
  BY <1>1 DEF StatementInv, RunningHeld, EndsRecorded
<1> QED
  BY <1>2, <1>3, <1>4, <1>5 DEF StatementInv

LEMMA WindowSteps ==
  ASSUME StatementInv, WindowStep, UNCHANGED page
  PROVE  StatementInv' /\ (Act \/ Reaction)
<1>1. ASSUME SaveSession \/ LoadSession \/ FetchRows \/ CancelSQL \/ ShowTable
      PROVE  StatementInv' /\ (Act \/ Reaction)
  <2>1. StatementInv'
    BY <1>1, SaveSessionSteps, LoadSessionSteps, FetchRowsSteps, CancelSQLSteps, ShowTableSteps
  <2> QED
    BY <1>1, <2>1 DEF SaveSession, LoadSession, FetchRows, CancelSQL, ShowTable
<1>2. ASSUME NEW t \in Text, Edit(t) PROVE StatementInv' /\ (Act \/ Reaction)
  BY <1>2, EditSteps DEF Edit
<1>3. ASSUME NEW q \in Query, Submit(q) \/ PullResult(q) \/ Continue(q) \/ Succeed(q) \/ Fail(q)
      PROVE  StatementInv' /\ (Act \/ Reaction)
  <2>1. StatementInv'
    BY <1>3, SubmitSteps, PullResultSteps, ContinueSteps, SucceedSteps, FailSteps
  <2> QED
    BY <1>3, <2>1 DEF Submit, PullResult, Continue, Succeed, Fail
<1> QED
  BY <1>1, <1>2, <1>3 DEF WindowStep

LEMMA ServerStatementSteps ==
  ASSUME StatementInv, ServerStep, UNCHANGED page
  PROVE  StatementInv' /\ (Act \/ Reaction)
<1>1. ASSUME NEW q \in Query, Accept(q) \/ Refuse(q) \/ Respond(q) \/ CancelStatement(q)
      PROVE  StatementInv' /\ (Act \/ Reaction)
  <2>1. StatementInv'
    BY <1>1, AcceptSteps, RefuseSteps, RespondSteps, CancelStatementSteps
  <2> QED
    BY <1>1, <2>1 DEF Accept, Refuse, Respond, CancelStatement
<1>2. ASSUME NEW q \in Query, NEW status \in Ended \ {"cancelled"}, Run(q, status)
      PROVE  StatementInv' /\ (Act \/ Reaction)
  BY <1>2, RunSteps DEF Run
<1>3. ASSUME NEW r \in records, Upsert(r) \/ UpsertFails(r)
      PROVE  StatementInv' /\ (Act \/ Reaction)
  BY <1>3, UpsertSteps, UpsertFailsSteps DEF Upsert, UpsertFails
<1> QED
  BY <1>1, <1>2, <1>3 DEF ServerStep

-----------------------------------------------------------------------------
(* The whole.                                                              *)

LEMMA Starts == Init => IInv
BY ShellStarts, StatementStarts, FileStarts DEF Init, IInv, ShellInit

LEMMA GoneSteps == ASSUME IInv, Gone PROVE ShellInv' /\ StatementInv' /\ FileInv'
<1>1. PICK s \in Server : Ends(s)
  BY DEF Gone, ServerEnds
<1>2. ShellInv' /\ page' = page
  BY <1>1, ServerSteps DEF IInv
<1>3. CASE DropStatements /\ DropJobs
  BY <1>2, <1>3, DropStatementsSteps, DropJobsSteps DEF IInv
<1>4. CASE UNCHANGED <<statementVars, fileVars>>
  BY <1>2, <1>4, StatementStays, FileStays DEF IInv
<1> QED
  BY <1>2, <1>3, <1>4 DEF Gone

LEMMA PageEntersSteps == ASSUME IInv, PageEnters PROVE ShellInv' /\ StatementInv' /\ FileInv'
<1>1. ShellInv' /\ FileInv'
  BY PageSteps, FileStays DEF IInv, PageEnters
<1>2. page = "loading" /\ page' = IF Up THEN "app" ELSE "blank"
  BY DEF PageEnters, LoadPage
<1>3. CASE Up
  <2>1. page = "loading" /\ page' = "app" /\ EnterPage
    BY <1>2, <1>3 DEF PageEnters
  <2> QED
    BY <1>1, <2>1, EnterPageSteps DEF IInv
<1>4. CASE ~Up
  <2>1. page = "loading" /\ page' = "blank" /\ UNCHANGED statementVars
    BY <1>2, <1>4 DEF PageEnters
  <2> QED
    BY <1>1, <2>1, StatementStays DEF IInv
<1> QED
  BY <1>1, <1>3, <1>4

LEMMA PageLeavesSteps == ASSUME IInv, PageLeaves PROVE ShellInv' /\ StatementInv' /\ FileInv'
<1>1. ShellInv' /\ FileInv'
  BY PageSteps, FileStays DEF IInv, PageLeaves
<1>2. page' # "app"
  BY DEF PageLeaves, Reload, CloseWindow, Quit, WillQuit
<1> QED
  BY <1>1, <1>2, LeavePageSteps DEF IInv, PageLeaves

LEMMA AloneSteps == ASSUME IInv, Alone PROVE ShellInv' /\ StatementInv' /\ FileInv'
<1>1. PICK s \in Server : Activate(s) \/ Listen(s) \/ Signal(s)
  BY DEF Alone
<1>2. ShellInv' /\ (page' = page \/ (page # "app" /\ page' # "app"))
  BY <1>1, ServerSteps, ActivateSteps DEF IInv
<1> QED
  BY <1>2, StatementStays, FileStays DEF IInv, Alone

LEMMA Steps == IInv /\ [Next]_vars => IInv'
<1> SUFFICES ASSUME IInv, [Next]_vars PROVE IInv'
  OBVIOUS
<1>1. CASE Next
  <2>1. UNCHANGED traffic
    BY <1>1 DEF Next
  <2>2. ShellInv' /\ StatementInv' /\ FileInv'
    <3>1. CASE (WindowStep \/ ServerStep) /\ UNCHANGED <<shellVars, fileVars>>
      <4>1. StatementInv' /\ (Act \/ Reaction)
        BY <3>1, WindowSteps, ServerStatementSteps DEF IInv, shellVars
      <4> QED
        BY <3>1, <4>1, ShellStays, FileStays DEF IInv
    <3>2. CASE FileStep /\ UNCHANGED <<shellVars, statementVars>>
      <4>1. FileInv' /\ (Act \/ Reaction)
        BY <3>2, FileSteps DEF IInv
      <4> QED
        BY <3>2, <4>1, ShellStays, StatementStays DEF IInv, shellVars
    <3> QED
      BY <1>1, <3>1, <3>2, GoneSteps, PageEntersSteps, PageLeavesSteps, AloneSteps DEF Next
  <2> QED
    BY <2>1, <2>2 DEF IInv
<1>2. CASE UNCHANGED vars
  <2>1. ShellInv'
    BY <1>2 DEF vars, shellVars, IInv, ShellInv, ShellType, SpawnedInOrder, OneWithoutDarwin,
       QuitTells, Alive
  <2>2. StatementInv' /\ FileInv'
    BY <1>2, StatementStays, FileStays DEF IInv, vars, shellVars
  <2> QED
    BY <1>2, <2>1, <2>2 DEF vars, IInv
<1> QED
  BY <1>1, <1>2

\* The invariant that the properties follow from.
THEOREM DesktopInvariant == Spec => []IInv
BY Starts, Steps, PTL DEF Spec

\* Every variable of the shell, of the statements and of the file keeps its type.
THEOREM TypeCorrect == Spec => []TypeOK
<1>1. IInv => TypeOK
  BY TypesNamed DEF IInv, ShellInv, StatementInv, FileInv, TypeOK
<1> QED
  BY <1>1, DesktopInvariant, PTL

\* After the shell has quit, a server that goes on untold was forgotten by an
\* earlier activate on macOS: will-quit tells the last one (electron.js).
THEOREM ServersForgotten == Spec => []OnlyForgottenServersStay
<1>1. IInv => OnlyForgottenServersStay
  <2> SUFFICES ASSUME IInv, NEW s \in Server, quit, Alive(s), ~server[s].told
               PROVE  darwin /\ s < proc
    BY DEF OnlyForgottenServersStay
  <2>1. SpawnedInOrder /\ OneWithoutDarwin /\ QuitTells /\ proc \in Server
    BY DEF IInv, ShellInv, ShellType
  <2>2. s # proc /\ ~(s > proc)
    BY <2>1 DEF SpawnedInOrder, QuitTells, Alive
  <2>3. s < proc /\ proc # 1
    BY <2>1, <2>2, ShellAssumption, SMT DEF Server
  <2> QED
    BY <2>1, <2>3 DEF OneWithoutDarwin
<1> QED
  BY <1>1, DesktopInvariant, PTL

\* The text above the rows of a result is the one the server ran for them.
THEOREM RowsKeepTheirText == Spec => []RowsOfTheirText
<1>1. IInv => RowsOfTheirText
  BY DEF IInv, StatementInv
<1> QED
  BY <1>1, DesktopInvariant, PTL

\* A spinner that a statement has started turns only while a submission waits.
THEOREM SpinnersHaveStatements == Spec => []SpinnerHasItsStatement
<1>1. IInv => SpinnerHasItsStatement
  BY DEF IInv, StatementInv
<1> QED
  BY <1>1, DesktopInvariant, PTL

\* Once its upserts have landed, the history tells the end of a statement that
\* the window has got the end of.
THEOREM HistoryTells == Spec => []HistoryTellsTheEnd
<1>1. IInv => HistoryTellsTheEnd
  BY DEF IInv, StatementInv, EndsRecorded, HistoryTellsTheEnd
<1> QED
  BY <1>1, DesktopInvariant, PTL

\* A write without Overwrite truncates no body its client has not seen, but for
\* those within the second of its Read or since its check (files.go).
THEOREM WritesLoseNothing == Spec => NoLostUpdate
<1> DEFINE Lossless ==
      \A c \in Client :
        (/\ job[c].op = "open" /\ job'[c].op = "fill" /\ ~job[c].overwrite
         /\ file.body \notin {0, view[c].body} /\ bodies[file.body].by # c)
          => bodies[file.body].at <= view[c].at \/ file.body # job[c].met
<1>1. IInv => Lossless
  BY DEF IInv, FileInv, ViewsInOrder
<1> HIDE DEF Lossless
<1>2. Spec => [][Lossless]_vars
  BY <1>1, DesktopInvariant, PTL
<1> QED
  BY <1>2 DEF NoLostUpdate, Lossless

=============================================================================
