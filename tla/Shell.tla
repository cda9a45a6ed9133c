------------------------------- MODULE Shell --------------------------------
(***************************************************************************)
(* The processes of the desktop application: Electron's shell and the      *)
(* servers it spawns (electron.js), and how a server ends (dbnet.go,       *)
(* dbnet_cli.go, server.go).                                               *)
(*                                                                         *)
(* Every server listens on the same port, so there is at most one that     *)
(* does.  A signal reaches two Go routines of a server, main's select and  *)
(* the one Start begins, and each ends the process in its own way.         *)
(***************************************************************************)
EXTENDS Naturals

CONSTANTS
  MaxActs,     \* what the user and other programs do in a behaviour (a bound)
  MaxServer    \* servers spawned in a behaviour (a bound)

ASSUME ShellAssumption == MaxActs \in Nat /\ MaxServer \in Nat \ {0}

Server == 1..MaxServer

VARIABLES
  acts,      \* acts so far
  darwin,    \* the shell runs on macOS
  server,    \* server -> [stage, told]: how far it is, a signal not acted on yet
  proc,      \* the last server spawned, the one the shell remembers
  page,      \* what the window shows: none (no window), loading, blank or app
  quit       \* the shell has quit

shellVars == <<darwin, server, proc, page, quit>>

Act == acts < MaxActs /\ acts' = acts + 1
Reaction == acts' = acts

NotSpawned == [stage |-> "none", told |-> FALSE]
Spawned    == [NotSpawned EXCEPT !.stage = "starting"]

Alive(s) == server[s].stage \in {"starting", "listening"}
Up       == \E s \in Server : server[s].stage = "listening"

ShellType ==
  /\ acts \in 0..MaxActs /\ darwin \in BOOLEAN /\ quit \in BOOLEAN
  /\ proc \in Server
  /\ page \in {"none", "loading", "blank", "app"}
  /\ server \in [Server -> [stage : {"none", "starting", "listening", "exited"},
                            told : BOOLEAN]]

-----------------------------------------------------------------------------
\* createWindow: spawns a server whether or not one runs, and loads the page
\* from the port at once.
Start(s) == [server EXCEPT ![s] = Spawned]

RememberBug(s) == IF proc = 0 THEN s ELSE proc   \* keeps the first process only
Remember(s) == s

CreateWindow(s) ==
  /\ server' = Start(s)
  /\ proc' = Remember(s)
  /\ page' = "loading"

\* The application has started: whenReady has created the window.
ShellInit ==
  /\ acts = 0 /\ quit = FALSE
  /\ darwin \in BOOLEAN
  /\ server = [s \in Server |-> IF s = 1 THEN Spawned ELSE NotSpawned]
  /\ proc = 1
  /\ page = "loading"

Told(s) == [server EXCEPT ![s].told = TRUE]

\* will-quit: proc.kill() sends SIGTERM, to a process that may be gone.
WillQuit ==
  /\ quit' = TRUE
  /\ page' = "none"
  /\ server' = IF Alive(proc) THEN Told(proc) ELSE server
  /\ UNCHANGED <<darwin, proc>>

\* The last window is closed: the application ends, but not on macOS.
CloseWindow ==
  /\ Act /\ page # "none"
  /\ IF darwin
     THEN page' = "none" /\ UNCHANGED <<darwin, server, proc, quit>>
     ELSE WillQuit

\* Cmd + Q, with or without a window.
Quit == Act /\ ~quit /\ WillQuit

\* activate, when no window is left.
Activate(s) ==
  /\ Act /\ darwin /\ ~quit /\ page = "none"
  /\ server[s].stage = "none" /\ \A r \in Server : r < s => server[r].stage # "none"
  /\ CreateWindow(s)
  /\ UNCHANGED <<darwin, quit>>

\* The page is answered by the server or refused by the port; nothing retries.
LoadPage ==
  /\ Reaction /\ page = "loading"
  /\ page' = IF Up THEN "app" ELSE "blank"
  /\ UNCHANGED <<darwin, server, proc, quit>>

Reload ==
  /\ Act /\ page \in {"blank", "app"}
  /\ page' = "loading"
  /\ UNCHANGED <<darwin, server, proc, quit>>

-----------------------------------------------------------------------------
\* The exit codes, 1, 11 or 111 by who ends the process, are left out.
Exit(s) ==
  /\ Reaction
  /\ server' = [server EXCEPT ![s] = [NotSpawned EXCEPT !.stage = "exited"]]
  /\ UNCHANGED <<darwin, proc, page, quit>>

\* Start: registers for the signals, then takes the port or ends with LogFatal.
\* serve may have ended with an error before: no connection is defined.
Listen(s) ==
  /\ Reaction /\ server[s].stage = "starting" /\ ~Up
  /\ server' = [server EXCEPT ![s].stage = "listening"]
  /\ UNCHANGED <<darwin, proc, page, quit>>

CannotStart(s) == server[s].stage = "starting" /\ Exit(s)

\* SIGINT or SIGTERM, from the system or a terminal.
Signal(s) ==
  /\ Act /\ Alive(s) /\ ~server[s].told
  /\ server' = Told(s)
  /\ UNCHANGED <<darwin, proc, page, quit>>

\* main: a kill ends the process at once; an interrupt cancels the context
\* first and waits for serve, in vain until 5 seconds are over, for serve looks
\* at the context only after Start, which serves for ever.
MainExits(s) == Alive(s) /\ server[s].told /\ Exit(s)

\* Start's own Go routine closes the connections of the databases, and exits.
HandExits(s) == server[s].stage = "listening" /\ server[s].told /\ Exit(s)

\* A server without its shell writes to a closed pipe when it logs.
BrokenPipe(s) == quit /\ Alive(s) /\ Exit(s)

Ends(s) ==
  CannotStart(s) \/ MainExits(s) \/ HandExits(s) \/ BrokenPipe(s)
=============================================================================
