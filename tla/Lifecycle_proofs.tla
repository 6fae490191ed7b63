-------------------------- MODULE Lifecycle_proofs --------------------------
(***************************************************************************)
(* Proofs about Lifecycle, for any number of clients.  IInv adds to the    *)
(* types what the place of runServerStart says about the rest: when the    *)
(* store is open, what Shutdown leaves behind, who was told to stop.       *)
(***************************************************************************)
EXTENDS Lifecycle, TLAPS

\* Requests end badly only when the deferred calls have run; until then the store is
\* open, and no result is reported before the process is on its way out.
Orderly ==
  /\ main \notin {"closed", "exited"} =>
       store /\ \A c \in Client : request[c] \notin {"cut", "denied"}
  /\ main \in {"select", "shutdown", "drain"} => exit = "none"

\* After http.Server.Shutdown nothing is listened to, and nothing runs past the drain.
Drains ==
  stopping =>
    /\ ~listening
    /\ main \notin {"select", "shutdown"}
    /\ main # "drain" => \A c \in Client : request[c] \notin Active

\* Shutdown is the consequence of a signal.
Asked == main \in {"shutdown", "drain"} => signalled

\* A listener belongs to a goroutine that accepts, on the server it has stored.
Listens == (listening => serve = "accept") /\ (serve # "start" => server)

IInv == TypeOK /\ Orderly /\ Drains /\ Asked /\ Listens /\ GracefulStop /\ QuietExitWasAsked

\* A process that has just started has no requests.
LEMMA IInvInit == Init => IInv
BY DEF Init, IInv, TypeOK, Orderly, Drains, Asked, Listens, GracefulStop, QuietExitWasAsked, Active

\* Every step of the two goroutines, of a handler or of the outside keeps the invariant.
LEMMA IInvStep == IInv /\ [Next]_vars => IInv'
<1> USE DEF IInv, TypeOK, Orderly, Drains, Asked, Listens, GracefulStop, QuietExitWasAsked,
            Active, Alive, process
<1> SUFFICES ASSUME IInv, [Next]_vars PROVE IInv'
  OBVIOUS
<1>0. CASE UNCHANGED vars
  BY <1>0 DEF vars
<1>1. CASE Start
  <2>1. TypeOK'
    BY <1>1, Zenon DEF Start
  <2>2. Orderly' /\ Drains' /\ Asked' /\ Listens' /\ GracefulStop' /\ QuietExitWasAsked'
    BY <1>1 DEF Start
  <2> QED
    BY <2>1, <2>2
<1>2. CASE Report
  <2>1. TypeOK'
    BY <1>2, Zenon DEF Report
  <2>2. Orderly' /\ Drains' /\ Asked' /\ Listens' /\ GracefulStop' /\ QuietExitWasAsked'
    BY <1>2 DEF Report
  <2> QED
    BY <2>1, <2>2
<1>3. CASE Listen
  <2>1. TypeOK'
    BY <1>3, Zenon DEF Listen
  <2>2. Orderly' /\ Asked' /\ Listens' /\ GracefulStop' /\ QuietExitWasAsked'
    BY <1>3 DEF Listen
  <2>3. Drains'
    BY <1>3 DEF Listen
  <2> QED
    BY <2>1, <2>2, <2>3
<1>4. CASE AcceptFails
  BY <1>4 DEF AcceptFails
<1>5. CASE SelectSignal
  BY <1>5 DEF SelectSignal
<1>6. CASE SelectError
  <2>1. TypeOK'
    BY <1>6, Zenon DEF SelectError
  <2>2. Orderly' /\ Drains' /\ Asked' /\ Listens' /\ GracefulStop' /\ QuietExitWasAsked'
    BY <1>6 DEF SelectError
  <2> QED
    BY <2>1, <2>2
<1>7. CASE Shutdown
  <2>1. CASE server
    <3>1. stopping' = TRUE /\ listening' = FALSE /\ main' = "drain"
          /\ UNCHANGED <<exit, serve, server, store, errCh, signalled, request>>
      BY <1>7, <2>1 DEF Shutdown
    <3>2. main = "shutdown"
      BY <1>7 DEF Shutdown
    <3>3. TypeOK'
      BY <3>1, <2>1, Zenon
    <3>4. Orderly' /\ Asked' /\ Listens' /\ QuietExitWasAsked'
      BY <3>1, <3>2
    <3>5. Drains' /\ GracefulStop'
      BY <3>1, <3>2
    <3> QED
      BY <3>3, <3>4, <3>5
  <2>2. CASE ~server
    <3>1. main' = "return" /\ exit' = "ok"
          /\ UNCHANGED <<stopping, listening, serve, server, store, errCh, signalled, request>>
      BY <1>7, <2>2 DEF Shutdown
    <3>2. main = "shutdown" /\ ~stopping
      BY <1>7 DEF Shutdown
    <3> QED
      BY <3>1, <3>2
  <2> QED
    BY <2>1, <2>2
<1>8. CASE Drained
  BY <1>8 DEF Drained
<1>9. CASE Return
  BY <1>9 DEF Return
<1>10. CASE Exit
  BY <1>10 DEF Exit
<1>11. CASE Signal
  BY <1>11 DEF Signal
<1>12. ASSUME NEW c \in Client, Connect(c) PROVE IInv'
  BY <1>12 DEF Connect, Becomes
<1>13. ASSUME NEW c \in Client, Match(c) PROVE IInv'
  BY <1>13 DEF Match, Becomes
<1>14. ASSUME NEW c \in Client, Answer(c) PROVE IInv'
  BY <1>14 DEF Answer, Becomes
<1>15. ASSUME NEW c \in Client, Hang(c) \/ Leave(c) PROVE IInv'
  BY <1>15 DEF Hang, Leave, Becomes
<1> QED
  BY <1>0, <1>1, <1>2, <1>3, <1>4, <1>5, <1>6, <1>7, <1>8, <1>9, <1>10, <1>11, <1>12, <1>13, <1>14, <1>15
  DEF Next, MainStep, ServeStep, Handle

\* The invariant holds of every run of the process.
LEMMA IInvAlways == Spec => []IInv
BY IInvInit, IInvStep, PTL DEF Spec

\* Type correctness: also, Shutdown finds every server that listens.
THEOREM TypeCorrect == Spec => []TypeOK
<1>1. IInv => TypeOK
  BY DEF IInv
<1> QED
  BY <1>1, IInvAlways, PTL

\* Once Shutdown has been called on the http.Server no request is cut off or denied,
\* for any number of clients and requests, in whatever order they came.
THEOREM GracefulStopAlways == Spec => []GracefulStop
<1>1. IInv => GracefulStop
  BY DEF IInv
<1> QED
  BY <1>1, IInvAlways, PTL

\* A process that reports success was signalled.
THEOREM QuietExitWasAskedAlways == Spec => []QuietExitWasAsked
<1>1. IInv => QuietExitWasAsked
  BY DEF IInv
<1> QED
  BY <1>1, IInvAlways, PTL
\* After Shutdown no handler starts: the listener is closed, and the other goroutine,
\* wherever it was, opens none.
LEMMA NoNewWorkStep ==
  IInv /\ [Next]_vars
    => (stopping => \A c \in Client : request'[c] \in Active => request[c] \in Active)
<1> SUFFICES ASSUME IInv, [Next]_vars, stopping
             PROVE  \A c \in Client : request'[c] \in Active => request[c] \in Active
  OBVIOUS
<1>1. ~listening /\ request \in [Client -> {"none", "answered", "denied", "left", "cut"} \cup Active]
  BY DEF IInv, TypeOK, Drains
<1>2. CASE UNCHANGED request
  BY <1>2
<1>3. CASE Exit
  BY <1>1, <1>3 DEF Exit, Active
<1>4. ASSUME NEW q \in Client, Match(q) PROVE \A c \in Client : request'[c] \in Active => request[c] \in Active
  BY <1>1, <1>4 DEF Match, Becomes, Active
<1>5. ASSUME NEW q \in Client, Answer(q) PROVE \A c \in Client : request'[c] \in Active => request[c] \in Active
  BY <1>1, <1>5 DEF Answer, Becomes, Active
<1>6. ASSUME NEW q \in Client, Hang(q) \/ Leave(q)
      PROVE  \A c \in Client : request'[c] \in Active => request[c] \in Active
  BY <1>1, <1>6 DEF Hang, Leave, Becomes, Active
<1>7. ASSUME NEW q \in Client PROVE ~Connect(q)
  BY <1>1 DEF Connect
<1>8. \/ UNCHANGED request \/ Exit
      \/ \E q \in Client : Connect(q) \/ Match(q) \/ Answer(q) \/ Hang(q) \/ Leave(q)
  BY DEF Next, MainStep, ServeStep, Handle, vars, SelectSignal, SelectError, Shutdown, Drained, Return,
         Start, Listen, AcceptFails, Report, Signal
<1> QED
  BY <1>2, <1>3, <1>4, <1>5, <1>6, <1>7, <1>8

\* Once Shutdown has acted the requests it waits for only get fewer, for any number of
\* clients and wherever it found the goroutine of Server.Start.
THEOREM NoWorkAfterShutdownAlways == Spec => NoWorkAfterShutdown
<1>1. IInv /\ [Next]_vars
        => [stopping => \A c \in Client : request'[c] \in Active => request[c] \in Active]_vars
  BY NoNewWorkStep
<1> QED
  BY <1>1, IInvAlways, PTL DEF Spec, NoWorkAfterShutdown
=============================================================================
