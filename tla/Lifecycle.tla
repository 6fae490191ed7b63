----------------------------- MODULE Lifecycle -----------------------------
(***************************************************************************)
(* From the first request to the end of the server process: the goroutine  *)
(* of runServerStart (internal/cli/server.go), the one that runs           *)
(* Server.Start (internal/server/server.go), the handlers that net/http    *)
(* starts, and SIGINT or SIGTERM.  The two goroutines share s.server       *)
(* without synchronisation: a read sees the pointer or, before the write,  *)
(* nil.                                                                    *)
(***************************************************************************)
CONSTANT
  Client   \* workloads, each with one request at a time

VARIABLES
  main,      \* where runServerStart is
  serve,     \* where the goroutine of Server.Start is
  server,    \* s.server is set
  stopping,  \* http.Server.Shutdown has been called on it
  listening, \* the listener is open
  errCh,     \* the channel holds the error of Start
  signalled, \* the context of signal.NotifyContext is done
  store,     \* the entry store is open
  exit,      \* what the process reports: "none" yet, "ok" or "error"
  request    \* the latest request of each client

vars == <<main, serve, server, stopping, listening, errCh, signalled, store, exit, request>>
process == <<server, stopping, listening, store>>

\* Requests whose handler runs, or waits for a platform that never answers.
Active == {"received", "matched", "hung"}
Alive == main # "exited"

Init ==
  /\ main = "select" /\ serve = "start"
  /\ server = FALSE /\ stopping = FALSE /\ listening = FALSE
  /\ errCh = FALSE /\ signalled = FALSE
  /\ store = TRUE /\ exit = "none"
  /\ request = [c \in Client |-> "none"]

-----------------------------------------------------------------------------
(* The goroutine of Server.Start                                           *)

\* Mutant: the http.Server is a local variable.
StartForgets ==
  /\ Alive /\ serve = "start"
  /\ serve' = "listen"
  /\ UNCHANGED <<main, process, errCh, signalled, exit, request>>

Start ==
  /\ Alive /\ serve = "start"
  /\ server' = TRUE /\ serve' = "listen"
  /\ UNCHANGED <<main, stopping, listening, store, errCh, signalled, exit, request>>

\* Mutant: a Shutdown before ListenAndServe is forgotten.
ListenAnyway ==
  /\ Alive /\ serve = "listen"
  /\ \/ listening' = TRUE /\ serve' = "accept"
     \/ serve' = "report" /\ UNCHANGED listening
  /\ UNCHANGED <<main, server, stopping, store, errCh, signalled, exit, request>>

\* ListenAndServe: refused after Shutdown; the address may be taken, a TLS file bad.
Listen ==
  /\ Alive /\ serve = "listen"
  /\ \/ /\ ~stopping
        /\ listening' = TRUE /\ serve' = "accept"
     \/ serve' = "report" /\ UNCHANGED listening
  /\ UNCHANGED <<main, server, stopping, store, errCh, signalled, exit, request>>

\* Accept returns an error: after Shutdown, or because the listener broke.
AcceptFails ==
  /\ Alive /\ serve = "accept"
  /\ serve' = "report" /\ listening' = FALSE
  /\ UNCHANGED <<main, server, stopping, store, errCh, signalled, exit, request>>

\* Mutant: the error is logged and not passed on.
ReportLogs ==
  /\ Alive /\ serve = "report"
  /\ serve' = "done"
  /\ UNCHANGED <<main, process, errCh, signalled, exit, request>>

\* errCh has room for one error, so the goroutine never waits.
Report ==
  /\ Alive /\ serve = "report"
  /\ errCh' = TRUE /\ serve' = "done"
  /\ UNCHANGED <<main, process, signalled, exit, request>>

-----------------------------------------------------------------------------
(* runServerStart, from the select on                                      *)

\* The first signal ends the context; later ones are caught and do nothing.
Signal ==
  /\ Alive /\ ~signalled
  /\ signalled' = TRUE
  /\ UNCHANGED <<main, serve, process, errCh, exit, request>>

SelectSignal ==
  /\ main = "select" /\ signalled
  /\ main' = "shutdown"
  /\ UNCHANGED <<serve, process, errCh, signalled, exit, request>>

\* Mutant: a server that could not listen is reported as a normal end.
SelectErrorDropped ==
  /\ main = "select" /\ errCh
  /\ errCh' = FALSE
  /\ main' = "return" /\ exit' = "ok"
  /\ UNCHANGED <<serve, process, signalled, request>>

SelectError ==
  /\ main = "select" /\ errCh
  /\ errCh' = FALSE
  /\ main' = "return" /\ exit' = "error"
  /\ UNCHANGED <<serve, process, signalled, request>>

\* Mutant: http.Server.Close in the place of Shutdown.
ShutdownAtOnce ==
  /\ main = "shutdown"
  /\ stopping' = server /\ listening' = FALSE
  /\ main' = "return" /\ exit' = "ok"
  /\ UNCHANGED <<serve, server, store, errCh, signalled, request>>

\* Mutant: the listener stays open.
ShutdownListens ==
  /\ main = "shutdown"
  /\ main' = (IF server THEN "drain" ELSE "return")
  /\ exit' = (IF server THEN exit ELSE "ok")
  /\ UNCHANGED <<serve, process, errCh, signalled, request>>

\* Server.Shutdown: nothing to stop before Start has run; otherwise the listener is
\* closed and the handlers under way are waited for, with no deadline.
Shutdown ==
  /\ main = "shutdown"
  /\ \/ /\ server
        /\ stopping' = TRUE /\ listening' = FALSE
        /\ main' = "drain" /\ UNCHANGED exit
     \/ /\ ~server
        /\ main' = "return" /\ exit' = "ok"
        /\ UNCHANGED <<stopping, listening>>
  /\ UNCHANGED <<serve, server, store, errCh, signalled, request>>

\* An error of closing the listener is what Shutdown returns in the end.
Drained ==
  /\ main = "drain"
  /\ \A c \in Client : request[c] \notin Active
  /\ main' = "return" /\ exit' \in {"ok", "error"}
  /\ UNCHANGED <<serve, process, errCh, signalled, request>>

\* The deferred calls: stop(), store.Close().
Return ==
  /\ main = "return"
  /\ store' = FALSE
  /\ main' = "closed"
  /\ UNCHANGED <<serve, server, stopping, listening, errCh, signalled, exit, request>>

\* main returns: what still runs is cut off.
Exit ==
  /\ main = "closed"
  /\ main' = "exited" /\ listening' = FALSE
  /\ request' = [c \in Client |-> IF request[c] \in Active THEN "cut" ELSE request[c]]
  /\ UNCHANGED <<serve, server, stopping, store, errCh, signalled, exit>>

-----------------------------------------------------------------------------
(* Handlers                                                                *)

Becomes(c, r) ==
  /\ request' = [request EXCEPT ![c] = r]
  /\ UNCHANGED <<main, serve, process, errCh, signalled, exit>>

\* A client whose last request was answered, or given up, sends another.
Connect(c) == listening /\ request[c] \in {"none", "answered", "left"} /\ Becomes(c, "received")

\* handleAttest up to store.Match: a store that is closed matches no entry.
Match(c) == request[c] = "received" /\ Becomes(c, IF store THEN "matched" ELSE "denied")

Answer(c) == request[c] = "matched" /\ Alive /\ Becomes(c, "answered")

\* The attestor waits for a platform's endpoint, with no timeout, until the client leaves.
Hang(c) == request[c] = "received" /\ Becomes(c, "hung")
Leave(c) == request[c] = "hung" /\ Becomes(c, "left")

Handle(c) == Match(c) \/ Answer(c)

-----------------------------------------------------------------------------
MainStep == SelectSignal \/ SelectError \/ Shutdown \/ Drained \/ Return \/ Exit
ServeStep == Start \/ Listen \/ AcceptFails \/ Report

Next ==
  \/ MainStep \/ ServeStep \/ Signal
  \/ \E c \in Client : Connect(c) \/ Handle(c) \/ Hang(c) \/ Leave(c)

Spec == Init /\ [][Next]_vars

\* Goroutines are scheduled; nobody guarantees that a platform answers, that a client
\* leaves or that a signal comes.  Accept fails for sure only once Shutdown has closed
\* the listener.
Fairness ==
  /\ WF_vars(MainStep)
  /\ WF_vars(Start \/ Listen \/ Report \/ (stopping /\ AcceptFails))
  /\ \A c \in Client : WF_vars(Handle(c))

FairSpec == Spec /\ Fairness

-----------------------------------------------------------------------------
(* Properties                                                              *)

\* Types; a server that listens is one that Shutdown finds, and a process on its way
\* out has a result to report.
TypeOK ==
  /\ main \in {"select", "shutdown", "drain", "return", "closed", "exited"}
  /\ serve \in {"start", "listen", "accept", "report", "done"}
  /\ server \in BOOLEAN /\ stopping \in BOOLEAN /\ listening \in BOOLEAN
  /\ errCh \in BOOLEAN /\ signalled \in BOOLEAN /\ store \in BOOLEAN
  /\ listening => server
  /\ exit \in {"none", "ok", "error"}
  /\ main \in {"return", "closed", "exited"} => exit # "none"
  /\ request \in [Client -> {"none", "answered", "denied", "left", "cut"} \cup Active]

\* A signal that finds s.server set ends the process gracefully: every request that a
\* handler had taken is answered, none is cut off or denied on a closed store.
GracefulStop ==
  stopping => \A c \in Client : request[c] \notin {"cut", "denied"}

\* A process that ends without an error was told to: a server that could not listen,
\* or whose listener broke, is never reported as a normal end.
QuietExitWasAsked == exit = "ok" => signalled

\* Once Shutdown has acted the handlers under way only get fewer, wherever it found the
\* other goroutine, between storing s.server and listening included: what it waits for
\* is a set that new requests cannot extend.
NoWorkAfterShutdown ==
  [][stopping => \A c \in Client : request'[c] \in Active => request[c] \in Active]_vars

\* A signal ends the process whatever the goroutines were doing and however many
\* requests keep coming, unless a handler waits for a platform that never answers, or for
\* the rest of a request body that its client does not send (there is no ReadTimeout).
SignalStops == signalled ~> main = "exited" \/ \E c \in Client : request[c] = "hung"

\* A server that cannot listen does not stay around without serving.
FailureEnds == serve = "report" ~> main = "exited" \/ \E c \in Client : request[c] = "hung"
=============================================================================
