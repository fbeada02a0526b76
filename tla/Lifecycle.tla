------------------------------ MODULE Lifecycle ------------------------------
(****************************************************************************)
(* The life of the host process, src/main.cpp: it reads its configuration,  *)
(* runs the HTTP server in a second thread, waits for a signal or for the   *)
(* end of that thread, stops the server, drains it and joins the thread.    *)
(* The main thread, the listening thread, the pool, the clients and whoever *)
(* sends signals interleave.                                                *)
(****************************************************************************)
EXTENDS HttpServer

CONSTANT DrainTimes     \* values of AppConfig::shutdown_drain_ms

ASSUME DrainAssumption == DrainTimes \subseteq Nat

VARIABLES
    main,               \* where the main thread is
    requested,          \* g_shutdown_requested
    drain_ms,           \* config.shutdown_drain_ms
    drained,            \* the drain saw no request in flight
    code                \* the exit status

mainVars == <<main, requested, drain_ms, drained, code>>
vars == <<serverVars, mainVars>>

MainPlaces == {"boot", "install", "spawn", "watch", "decide", "stop", "close",
               "drain", "join", "done"}

NoCode == -1
Killed == 128 + 15      \* what the shell makes of SIGTERM

Init ==
    /\ HttpServerInit
    /\ main = "boot"
    /\ requested = FALSE
    /\ drain_ms \in DrainTimes
    /\ drained = FALSE
    /\ code = NoCode
-----------------------------------------------------------------------------
GoTo(place) == main' = place

Exit(status) == GoTo("done") /\ code' = status

\* The command line: serve; print the version or the configuration, or check
\* the provider, which is ready once initialised; or reject the arguments.
\* HttpServer::Start registers the routes and always succeeds.
Boot ==
    /\ main = "boot"
    /\ \/ GoTo("install") /\ UNCHANGED code
       \/ Exit(0)
       \/ Exit(2)
    /\ UNCHANGED <<serverVars, requested, drain_ms, drained>>

\* From here on OnSignal sets the flag instead of the process being killed.
Install ==
    /\ main = "install"
    /\ GoTo("spawn")
    /\ UNCHANGED <<serverVars, requested, drain_ms, drained, code>>

Spawn ==
    /\ main = "spawn"
    /\ server' = "bind"
    /\ GoTo("watch")
    /\ UNCHANGED <<running, sock, queue, conn, sent, rounds,
                   requested, drain_ms, drained, code>>

\* The last thing the listening thread does is to set server_done.
ServerDone ==
    /\ server = "returned"
    /\ server' = "ended"
    /\ UNCHANGED <<running, sock, queue, conn, sent, rounds, mainVars>>

server_done == server = "ended"

\* Mutant: only a signal ends the watch.
WatchEndsBySignal == requested

WatchEnds == requested \/ server_done

Watch ==
    /\ main = "watch"
    /\ WatchEnds
    /\ GoTo("decide")
    /\ UNCHANGED <<serverVars, requested, drain_ms, drained, code>>

Decide ==
    /\ main = "decide"
    /\ GoTo(IF server_done THEN "drain" ELSE "stop")
    /\ UNCHANGED <<serverVars, requested, drain_ms, drained, code>>

\* Server::stop does nothing to a server that does not run, or not yet.
Stop ==
    /\ main = "stop"
    /\ GoTo(IF running THEN "close" ELSE "drain")
    /\ UNCHANGED <<serverVars, requested, drain_ms, drained, code>>

\* Mutant: the socket is closed but still looks open to the server.
CloseKeepsNumber ==
    /\ main = "close"
    /\ GoTo("drain")
    /\ UNCHANGED <<serverVars, requested, drain_ms, drained, code>>

CloseSocket ==
    /\ main = "close"
    /\ sock' = "invalid"
    /\ GoTo("drain")
    /\ UNCHANGED <<server, running, queue, conn, sent, rounds,
                   requested, drain_ms, drained, code>>

\* The gauge is read every 10 ms until it is 0 or the time is up.
DrainEmpty ==
    /\ main = "drain"
    /\ drain_ms > 0
    /\ InflightRequests = 0
    /\ drained' = TRUE
    /\ GoTo("join")
    /\ UNCHANGED <<serverVars, requested, drain_ms, code>>

DrainOver ==
    /\ main = "drain"
    /\ GoTo("join")
    /\ UNCHANGED <<serverVars, requested, drain_ms, drained, code>>

ExitCode == IF server_done /\ ~ requested THEN 0 ELSE IF drained THEN 0 ELSE 2

\* Mutant: main does not join the listening thread once it has drained.
CanJoinDrained == server_done \/ drained

CanJoin == server_done

Join ==
    /\ main = "join"
    /\ CanJoin
    /\ Exit(ExitCode)
    /\ UNCHANGED <<serverVars, requested, drain_ms, drained>>

\* SIGINT or SIGTERM.
Signal ==
    /\ main # "done"
    /\ IF main \in {"boot", "install"}
         THEN Exit(Killed) /\ UNCHANGED requested
         ELSE requested' = TRUE /\ UNCHANGED <<main, code>>
    /\ UNCHANGED <<serverVars, drain_ms, drained>>
-----------------------------------------------------------------------------
MainStep ==
    \/ Boot \/ Install \/ Spawn \/ Watch \/ Decide \/ Stop \/ CloseSocket
    \/ DrainEmpty \/ DrainOver \/ Join

\* The process has ended, and its threads with it, once main is done.
Next ==
    \/ MainStep
    \/ Signal
    \/ main # "done" /\ (ServerStep \/ PoolStep) /\ UNCHANGED mainVars
    \/ main # "done" /\ ServerDone

Spec == Init /\ [][Next]_vars

\* Every thread that can run does: the main thread, the listening thread unless
\* it sleeps in accept, the threads that the pool always has.
Fairness ==
    /\ WF_vars(MainStep)
    /\ WF_vars((Bind \/ Listen \/ StopAccepting \/ JoinPool) /\ UNCHANGED mainVars)
    /\ WF_vars(ServerDone)
    /\ WF_vars(PickUp /\ Cardinality(Busy) < BaseThreads /\ UNCHANGED mainVars)
    /\ \A c \in Clients : WF_vars(Serve(c) /\ UNCHANGED mainVars)

FairSpec == Spec /\ Fairness
-----------------------------------------------------------------------------
LifecycleTypeOK ==
    /\ HttpServerTypeOK
    /\ main \in MainPlaces
    /\ requested \in BOOLEAN
    /\ drain_ms \in DrainTimes
    /\ drained \in BOOLEAN
    /\ code \in {NoCode, 0, 1, 2, Killed}

Launched == server # "none"

\* ExitAfterWork: a process that launched its server ends only when every
\* connection it accepted has been worked off, however short the drain was.
ExitAfterWork ==
    main = "done" /\ Launched =>
        /\ server_done
        /\ \A c \in Clients : conn[c] \in {"away", "closed"}

\* StopFindsSocket: when main goes on to close the socket of a server it found
\* running, svr_sock_ still holds a number, although accept may have failed in
\* the listening thread in the meantime and the pool may have been joined: what
\* Server::stop asserts (httplib.h:10228).
StopFindsSocket == main = "close" => sock # "invalid"

\* StopsOnceListening: a signal that comes while the server listens ends the
\* process, whatever the connections are doing.
StopsOnceListening ==
    (requested /\ running /\ main = "watch") ~> (main = "done")

\* EndsWithServer: the process does not outlive its server: when the listening
\* thread ends by itself, so does the process.
EndsWithServer == (server = "ended") ~> (main = "done")

\* EveryRequestAnswered: a request on an accepted connection is answered even if
\* all threads of the pool are taken, and even if the server is being stopped,
\* unless the client goes away: only a request that arrives after a thread of the
\* pool has given the connection up is lost.
EveryRequestAnswered ==
    \A c \in Clients :
        (conn[c] \in {"queued", "open"} /\ sent[c]) ~> ~ sent[c]
=============================================================================
