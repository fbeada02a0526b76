----------------------------- MODULE HttpServer -----------------------------
(****************************************************************************)
(* The HTTP server as main uses it: HttpServer of                           *)
(* src/server/http_server.cpp around httplib::Server, with the library's    *)
(* listening thread, its pool of threads and its persistent connections.    *)
(*                                                                          *)
(* A client opens one connection.  A thread of the pool keeps a connection  *)
(* until it is closed and serves its requests one after the other.  What a  *)
(* handler does is the matter of JobService and Admission; here it only     *)
(* takes its time and ends.                                                 *)
(****************************************************************************)
EXTENDS Integers, Sequences, FiniteSets

CONSTANTS
    Clients,            \* each opens at most one connection
    BaseThreads,        \* threads the pool always has
    MaxThreads,         \* threads it may have
    KeepAliveMax        \* keep_alive_max_count_

ASSUME ClientsAssumption == IsFiniteSet(Clients)
ASSUME ThreadsAssumption ==
    BaseThreads \in Nat \ {0} /\ MaxThreads \in Nat /\ BaseThreads <= MaxThreads
ASSUME KeepAliveAssumption == KeepAliveMax \in Nat \ {0}

VARIABLES
    server,             \* where the listening thread is
    running,            \* Server::is_running_
    sock,               \* Server::svr_sock_: "stale" is a number already closed
    queue,              \* ThreadPool::jobs_
    conn,               \* where each client's connection is
    sent,               \* a request of the client can be read and is not answered
    rounds              \* requests the connection may still carry

serverVars == <<server, running, sock, queue, conn, sent, rounds>>

ServerPlaces == {"none", "bind", "listen", "accept", "join", "returned", "ended"}

\* "reading", "handling" and "writing" are parts of process_request; the request
\* is counted as in flight while it is handled.
ConnPlaces == {"away", "queued", "open", "reading", "handling", "writing",
               "leaving", "closed"}

Busy == {c \in Clients : conn[c] \notin {"away", "queued", "closed"}}

HttpServerInit ==
    /\ server = "none"
    /\ running = FALSE
    /\ sock = "invalid"
    /\ queue = <<>>
    /\ conn = [c \in Clients |-> "away"]
    /\ sent = [c \in Clients |-> FALSE]
    /\ rounds = [c \in Clients |-> KeepAliveMax]
-----------------------------------------------------------------------------
(* The listening thread: listen binds the port, accepts connections until   *)
(* the socket is closed, and joins the pool.                                *)

Bind ==
    /\ server = "bind"
    /\ \/ server' = "listen" /\ sock' = "open"
       \/ server' = "returned" /\ UNCHANGED sock
    /\ UNCHANGED <<running, queue, conn, sent, rounds>>

Listen ==
    /\ server = "listen"
    /\ running' = TRUE
    /\ server' = "accept"
    /\ UNCHANGED <<sock, queue, conn, sent, rounds>>

Accept(c) ==
    /\ server = "accept"
    /\ sock = "open"
    /\ conn[c] = "away"
    /\ conn' = [conn EXCEPT ![c] = "queued"]
    /\ queue' = Append(queue, c)
    /\ UNCHANGED <<server, running, sock, sent, rounds>>

\* Mutant: the socket is given up together with its number.
AcceptForgetsSocket ==
    /\ server = "accept"
    /\ sock = "open"
    /\ sock' = "invalid"
    /\ server' = "join"
    /\ UNCHANGED <<running, queue, conn, sent, rounds>>

\* accept reports an error other than those it tries again after: the socket is
\* closed, its number stays.
AcceptFails ==
    /\ server = "accept"
    /\ sock = "open"
    /\ sock' = "stale"
    /\ server' = "join"
    /\ UNCHANGED <<running, queue, conn, sent, rounds>>

StopAccepting ==
    /\ server = "accept"
    /\ sock = "invalid"
    /\ server' = "join"
    /\ UNCHANGED <<running, sock, queue, conn, sent, rounds>>

\* The threads of a pool that shuts down end once the queue is empty.
PoolIdle == queue = <<>> /\ Busy = {}

JoinPool ==
    /\ server = "join"
    /\ PoolIdle
    /\ running' = FALSE
    /\ server' = "returned"
    /\ UNCHANGED <<sock, queue, conn, sent, rounds>>
-----------------------------------------------------------------------------
(* A thread of the pool and its connection.                                 *)

MoveTo(c, place) == conn' = [conn EXCEPT ![c] = place]

PickUp ==
    /\ queue # <<>>
    /\ Cardinality(Busy) < MaxThreads
    /\ MoveTo(Head(queue), "open")
    /\ queue' = Tail(queue)
    /\ UNCHANGED <<server, running, sock, sent, rounds>>

\* keep_alive: a request can be read.  Whether the server is still listening is
\* not asked then.
Begin(c) ==
    /\ conn[c] = "open"
    /\ sent[c]
    /\ MoveTo(c, "reading")
    /\ UNCHANGED <<server, running, sock, queue, sent, rounds>>

\* Mutant: a stopped server reads no more requests.
GivesUpWhenStopped(c) == sock = "invalid"

\* keep_alive: nothing came for too long, or the server was stopped.
GivesUp(c) == ~ sent[c]

HangUp(c) ==
    /\ conn[c] = "open"
    /\ GivesUp(c)
    /\ MoveTo(c, "leaving")
    /\ UNCHANGED <<server, running, sock, queue, sent, rounds>>

Close(c) ==
    /\ conn[c] = "leaving"
    /\ MoveTo(c, "closed")
    /\ UNCHANGED <<server, running, sock, queue, sent, rounds>>

\* OnRequestStart admits the request, or it is answered without being counted.
Enter(c) ==
    /\ conn[c] = "reading"
    /\ \/ MoveTo(c, "handling")
       \/ MoveTo(c, "writing")
    /\ UNCHANGED <<server, running, sock, queue, sent, rounds>>

\* OnRequestEnd, before the response is written.
Leave(c) ==
    /\ conn[c] = "handling"
    /\ MoveTo(c, "writing")
    /\ UNCHANGED <<server, running, sock, queue, sent, rounds>>

\* The client is gone, or its request was cut short.
Break(c) ==
    /\ conn[c] \in {"reading", "writing"}
    /\ MoveTo(c, "closed")
    /\ sent' = [sent EXCEPT ![c] = FALSE]
    /\ UNCHANGED <<server, running, sock, queue, rounds>>

\* Mutant: a connection carries one request too many.
MayStayOpenOnce(c) == rounds[c] > 0

MayStayOpen(c) == rounds[c] > 1

\* The response is written.  The last one a connection may carry closes it, any
\* other one if the request or the response says so.
Finish(c) ==
    /\ conn[c] = "writing"
    /\ sent' = [sent EXCEPT ![c] = FALSE]
    /\ rounds' = [rounds EXCEPT ![c] = rounds[c] - 1]
    /\ \/ MayStayOpen(c) /\ MoveTo(c, "open")
       \/ MoveTo(c, "closed")
    /\ UNCHANGED <<server, running, sock, queue>>

Serve(c) ==
    Begin(c) \/ HangUp(c) \/ Close(c) \/ Enter(c) \/ Leave(c) \/ Break(c) \/ Finish(c)

\* A client sends a request on its connection.
Send(c) ==
    /\ conn[c] \in {"queued", "open", "leaving"}
    /\ ~ sent[c]
    /\ sent' = [sent EXCEPT ![c] = TRUE]
    /\ UNCHANGED <<server, running, sock, queue, conn, rounds>>

ServerStep ==
    Bind \/ Listen \/ AcceptFails \/ StopAccepting \/ JoinPool
        \/ \E c \in Clients : Accept(c)

PoolStep == PickUp \/ \E c \in Clients : Serve(c) \/ Send(c)
-----------------------------------------------------------------------------
\* The gauge, as exact as GaugeExact of Admission says it is.
InflightRequests == Cardinality({c \in Clients : conn[c] = "handling"})

HttpServerTypeOK ==
    /\ server \in ServerPlaces
    /\ running \in BOOLEAN
    /\ sock \in {"invalid", "open", "stale"}
    /\ queue \in Seq(Clients)
    /\ conn \in [Clients -> ConnPlaces]
    /\ sent \in [Clients -> BOOLEAN]
    /\ rounds \in [Clients -> 0 .. KeepAliveMax]
=============================================================================
