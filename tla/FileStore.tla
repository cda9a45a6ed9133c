----------------------------- MODULE FileStore ------------------------------
(***************************************************************************)
(* The file operations of the server (files.go) on one file, by clients    *)
(* that overlap and beside another program that writes it too.             *)
(*                                                                         *)
(* A body is the number of the write it came from, 0 the empty body of a   *)
(* file that is truncated; bodies have one length, so that two writers     *)
(* leave the body of one.  Time stamps are whole seconds, as ModTs is.     *)
(* List only reports what Stat says and is left out.                       *)
(***************************************************************************)
EXTENDS Shell, FiniteSets

CONSTANTS Client, MaxFileActs, MaxBody, MaxNow   \* clients; bounds of acts, bodies, seconds

ASSUME FileAssumption == MaxFileActs \in Nat /\ MaxBody \in Nat \ {0} /\ MaxNow \in Nat

VARIABLES
  now,       \* the clock
  file,      \* [exists, body, modTs]
  bodies,    \* body -> who wrote it and when
  job,       \* client -> the operation it has asked for
  view       \* client -> [body, modTs, at] of its last Read

fileVars == <<now, file, bodies, job, view>>

NoJob   == [op |-> "none", overwrite |-> FALSE, met |-> 0, body |-> 0]
NoView  == [body |-> 0, modTs |-> 0, at |-> 0]
NewBody == Cardinality(DOMAIN bodies) + 1
Written(b, c) == [x \in DOMAIN bodies \cup {b} |->
                    IF x \in DOMAIN bodies THEN bodies[x] ELSE [by |-> c, at |-> now]]

FileType ==
  /\ now \in 0..MaxNow
  /\ file \in [exists : BOOLEAN, body : 0..MaxBody, modTs : 0..MaxNow]
  /\ DOMAIN bodies \subseteq 1..MaxBody
  /\ job \in [Client -> [op : {"none", "read", "stat", "write", "open", "fill", "delete"},
                         overwrite : BOOLEAN, met : 0..MaxBody, body : 0..MaxBody]]
  /\ view \in [Client -> [body : 0..MaxBody, modTs : 0..MaxNow, at : 0..MaxNow]]

\* A file another program has written.
FileInit ==
  /\ now = 0
  /\ file = [exists |-> TRUE, body |-> 1, modTs |-> 0]
  /\ bodies = [b \in {1} |-> [by |-> "other", at |-> 0]]
  /\ job = [c \in Client |-> NoJob]
  /\ view = [c \in Client |-> NoView]

Tick == Reaction /\ now < MaxNow /\ now' = now + 1 /\ UNCHANGED <<file, bodies, job, view>>

FileAct == Act /\ acts < MaxFileActs

\* Another program writes the file.
OtherWrites ==
  /\ FileAct /\ NewBody <= MaxBody
  /\ bodies' = Written(NewBody, "other")
  /\ file' = [exists |-> TRUE, body |-> NewBody, modTs |-> now]
  /\ UNCHANGED <<now, job, view>>

-----------------------------------------------------------------------------
\* PostFileOperation, of a client that has no other request.
Ask(c, op, overwrite) ==
  /\ FileAct /\ Up /\ job[c] = NoJob
  /\ job' = [job EXCEPT ![c] = [NoJob EXCEPT !.op = op, !.overwrite = overwrite]]
  /\ UNCHANGED <<now, file, bodies, view>>

Answered(c) == job' = [job EXCEPT ![c] = NoJob]

\* Read: the body ...
ReadBody(c) ==
  /\ Reaction /\ job[c].op = "read"
  /\ IF file.exists THEN job' = [job EXCEPT ![c].op = "stat", ![c].body = file.body]
                    ELSE Answered(c)
  /\ UNCHANGED <<now, file, bodies, view>>

\* ... and then the time stamp; a file deleted in between is a panic.
ReadStat(c) ==
  /\ Reaction /\ job[c].op = "stat"
  /\ Answered(c)
  /\ view' = IF file.exists
             THEN [view EXCEPT ![c] = [body |-> job[c].body, modTs |-> file.modTs, at |-> now]]
             ELSE view
  /\ UNCHANGED <<now, file, bodies>>

\* The file is not younger than the one the client has read.
UnchangedBug(modTs) == modTs >= file.modTs - 1
Unchanged(modTs)    == modTs >= file.modTs

\* Write: the check ...
WriteCheck(c) ==
  /\ Reaction /\ job[c].op = "write"
  /\ IF ~file.exists \/ Unchanged(view[c].modTs) \/ job[c].overwrite
     THEN job' = [job EXCEPT ![c].op = "open", ![c].met = IF file.exists THEN file.body ELSE 0]
     ELSE Answered(c)
  /\ UNCHANGED <<now, file, bodies, view>>

\* ... and WriteFile, which truncates the file, creating it, and then fills it.
WriteOpen(c) ==
  /\ Reaction /\ job[c].op = "open"
  /\ file' = [exists |-> TRUE, body |-> 0, modTs |-> now]
  /\ job' = [job EXCEPT ![c].op = "fill"]
  /\ UNCHANGED <<now, bodies, view>>

WriteFill(c) ==
  /\ Reaction /\ job[c].op = "fill" /\ NewBody <= MaxBody
  /\ bodies' = Written(NewBody, c)
  /\ file' = [file EXCEPT !.body = NewBody, !.modTs = now]
  /\ Answered(c)
  /\ UNCHANGED <<now, view>>

\* A file that is being filled loses its name, and what is written is gone.
Delete(c) ==
  /\ Reaction /\ job[c].op = "delete"
  /\ file' = [file EXCEPT !.exists = FALSE, !.body = 0]
  /\ job' = [d \in Client |-> IF d = c \/ job[d].op = "fill" THEN NoJob ELSE job[d]]
  /\ UNCHANGED <<now, bodies, view>>

\* The server is gone: what it was doing stops where it is.
DropJobs ==
  /\ job' = [c \in Client |-> NoJob]
  /\ UNCHANGED <<now, file, bodies, view>>

FileStep ==
  \/ Tick \/ OtherWrites
  \/ \E c \in Client :
       \/ \E op \in {"read", "delete"} : Ask(c, op, FALSE)
       \/ \E overwrite \in BOOLEAN : Ask(c, "write", overwrite)
       \/ ReadBody(c) \/ ReadStat(c) \/ WriteCheck(c) \/ WriteOpen(c) \/ WriteFill(c) \/ Delete(c)
=============================================================================
