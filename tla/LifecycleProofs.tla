--------------------------- MODULE LifecycleProofs ---------------------------
(****************************************************************************)
(* Theorems about Lifecycle, for any set of clients, any size of the pool,  *)
(* any number of requests per connection and any drain time.                *)
(****************************************************************************)
EXTENDS Lifecycle, TLAPS

\* The queue holds the connections that wait for a thread, each one once.
QueueExact ==
    /\ \A k \in DOMAIN queue : conn[queue[k]] = "queued"
    /\ \A k, l \in DOMAIN queue : queue[k] = queue[l] => k = l
    /\ \A c \in Clients : conn[c] = "queued" => \E k \in DOMAIN queue : queue[k] = c

\* A connection is closed with its last request.
RoundsLeft == \A c \in Clients : conn[c] # "closed" => rounds[c] >= 1

\* Before the server listens and after it has stopped, the pool has no work.
PoolJoined == server \notin {"accept", "join"} => PoolIdle

\* The main thread and the listening thread agree on whether there is a server.
Launching ==
    /\ main \in {"boot", "install", "spawn"} => server = "none"
    /\ main \in {"watch", "decide", "stop", "close", "drain", "join"} => server # "none"
    /\ main = "done" /\ Launched => server_done

\* The socket keeps a number from the time the server listens until main has
\* gone through Server::stop.
SocketKept ==
    /\ server \in {"listen", "accept", "join"} /\ main \notin {"drain", "join", "done"} =>
          sock # "invalid"
    /\ running => server \in {"accept", "join"}
    /\ main = "close" => sock # "invalid"

LifeInv ==
    /\ LifecycleTypeOK
    /\ QueueExact
    /\ RoundsLeft
    /\ PoolJoined
    /\ Launching
    /\ SocketKept
-----------------------------------------------------------------------------
(* What the steps do to each part of the state.                             *)

\* A step of the server takes nothing out of its types.
LEMMA ServerTypeStep ==
    ASSUME HttpServerTypeOK, QueueExact, RoundsLeft, ServerStep \/ PoolStep
    PROVE  HttpServerTypeOK' /\ RoundsLeft'
<1> USE ClientsAssumption, KeepAliveAssumption DEF HttpServerTypeOK, RoundsLeft
<1>1. CASE Bind \/ Listen \/ AcceptFails \/ StopAccepting \/ JoinPool
  BY <1>1 DEF Bind, Listen, AcceptFails, StopAccepting, JoinPool, ServerPlaces
<1>2. ASSUME NEW c \in Clients, Accept(c)
      PROVE  HttpServerTypeOK' /\ RoundsLeft'
  <2>1. queue' \in Seq(Clients)
    BY <1>2 DEF Accept
  <2> QED  BY <1>2, <2>1 DEF Accept, ConnPlaces
<1>3. CASE PickUp
  <2>1. Head(queue) \in Clients /\ queue' \in Seq(Clients) /\ 1 \in DOMAIN queue
        /\ Head(queue) = queue[1]
    BY <1>3 DEF PickUp
  <2>2. conn[Head(queue)] = "queued"
    BY <2>1 DEF QueueExact
  <2> QED  BY <1>3, <2>1, <2>2 DEF PickUp, MoveTo, ConnPlaces
<1>4. ASSUME NEW c \in Clients, Serve(c)
      PROVE  HttpServerTypeOK' /\ RoundsLeft'
  <2>1. CASE Begin(c) \/ HangUp(c) \/ Close(c) \/ Enter(c) \/ Leave(c)
    BY <2>1 DEF Begin, HangUp, Close, Enter, Leave, MoveTo, ConnPlaces
  <2>2. CASE Break(c)
    BY <2>2 DEF Break, MoveTo, ConnPlaces
  <2>3. CASE Finish(c)
    <3>1. rounds[c] \in 1 .. KeepAliveMax
      BY <2>3 DEF Finish
    <3> QED  BY <2>3, <3>1 DEF Finish, MayStayOpen, MoveTo, ConnPlaces
  <2> QED  BY <1>4, <2>1, <2>2, <2>3 DEF Serve
<1>5. ASSUME NEW c \in Clients, Send(c)
      PROVE  HttpServerTypeOK' /\ RoundsLeft'
  BY <1>5 DEF Send
<1> QED  BY <1>1, <1>2, <1>3, <1>4, <1>5 DEF ServerStep, PoolStep

\* Connections enter the queue at its end and leave it at its head.
LEMMA QueueStep ==
    ASSUME HttpServerTypeOK, QueueExact, ServerStep \/ PoolStep
    PROVE  QueueExact'
<1> USE DEF HttpServerTypeOK
<1>1. CASE UNCHANGED <<queue, conn>>
  BY <1>1 DEF QueueExact
<1>2. ASSUME NEW c \in Clients, Accept(c)
      PROVE  QueueExact'
  <2>1. /\ DOMAIN queue' = DOMAIN queue \cup {Len(queue) + 1}
        /\ \A k \in DOMAIN queue : queue'[k] = queue[k]
        /\ queue'[Len(queue) + 1] = c
        /\ Len(queue) \in Nat /\ DOMAIN queue = 1 .. Len(queue)
        /\ \A k \in DOMAIN queue : queue[k] \in Clients
    BY <1>2 DEF Accept
  <2>2. \A k \in DOMAIN queue : queue[k] # c
    BY <1>2 DEF Accept, QueueExact
  <2>3. conn' = [conn EXCEPT ![c] = "queued"]
    BY <1>2 DEF Accept
  <2>4. \A k \in DOMAIN queue' : conn'[queue'[k]] = "queued"
    BY <2>1, <2>2, <2>3 DEF QueueExact
  <2>5. \A k, l \in DOMAIN queue' : queue'[k] = queue'[l] => k = l
    BY <2>1, <2>2 DEF QueueExact
  <2>6. \A d \in Clients : conn'[d] = "queued" => \E k \in DOMAIN queue' : queue'[k] = d
    BY <2>1, <2>3 DEF QueueExact
  <2> QED  BY <2>4, <2>5, <2>6 DEF QueueExact
<1>3. CASE PickUp
  <2>1. /\ Len(queue) \in Nat \ {0} /\ DOMAIN queue = 1 .. Len(queue)
        /\ DOMAIN queue' = 1 .. Len(queue) - 1
        /\ \A k \in DOMAIN queue' : queue'[k] = queue[k + 1]
        /\ Head(queue) = queue[1]
        /\ \A k \in DOMAIN queue : queue[k] \in Clients
    <3>1. queue # <<>> /\ queue' = Tail(queue)
      BY <1>3 DEF PickUp
    <3>2. /\ Len(queue) \in Nat /\ DOMAIN queue = 1 .. Len(queue)
          /\ \A k \in DOMAIN queue : queue[k] \in Clients
      OBVIOUS
    <3>3. Len(queue) # 0
      BY <3>1
    <3>4. queue \in Seq(Clients)
      OBVIOUS
    <3>5. /\ DOMAIN queue' = 1 .. Len(queue) - 1
          /\ \A k \in DOMAIN queue' : queue'[k] = queue[k + 1]
          /\ Head(queue) = queue[1]
      BY ONLY <3>1, <3>4
    <3> QED  BY ONLY <3>2, <3>3, <3>5
  <2>2. conn' = [conn EXCEPT ![queue[1]] = "open"]
    BY <1>3, <2>1 DEF PickUp, MoveTo
  <2>3. ASSUME NEW k \in DOMAIN queue'
        PROVE  queue[k + 1] # queue[1]
    <3>1. k \in Nat \ {0} /\ k + 1 \in DOMAIN queue /\ 1 \in DOMAIN queue /\ k + 1 # 1
      BY ONLY <2>1, k \in DOMAIN queue'
    <3>2. queue[k + 1] = queue[1] => k + 1 = 1
      BY <3>1 DEF QueueExact
    <3> QED  BY ONLY <3>1, <3>2
  <2>4. ASSUME NEW k \in DOMAIN queue'
        PROVE  conn'[queue'[k]] = "queued"
    <3>1. k + 1 \in DOMAIN queue /\ queue'[k] = queue[k + 1] /\ queue[k + 1] \in Clients
      BY ONLY <2>1, k \in DOMAIN queue'
    <3>2. conn[queue[k + 1]] = "queued"
      BY <3>1 DEF QueueExact
    <3> QED  BY <2>2, <2>3, <3>1, <3>2
  <2>5. ASSUME NEW k \in DOMAIN queue', NEW l \in DOMAIN queue', queue'[k] = queue'[l]
        PROVE  k = l
    <3>1. /\ k + 1 \in DOMAIN queue /\ l + 1 \in DOMAIN queue
          /\ queue[k + 1] = queue[l + 1] /\ k \in Nat /\ l \in Nat
      BY ONLY <2>1, <2>5, k \in DOMAIN queue', l \in DOMAIN queue'
    <3>2. k + 1 = l + 1
      BY <3>1 DEF QueueExact
    <3> QED  BY <3>1, <3>2
  <2>6. ASSUME NEW d \in Clients, conn'[d] = "queued"
        PROVE  \E k \in DOMAIN queue' : queue'[k] = d
    <3>1. conn[d] = "queued" /\ d # queue[1]
      BY <2>1, <2>2, <2>6
    <3>2. PICK k \in DOMAIN queue : queue[k] = d
      BY <3>1 DEF QueueExact
    <3>3. k \in 2 .. Len(queue)
      BY <2>1, <3>1, <3>2
    <3>4. k - 1 \in DOMAIN queue' /\ (k - 1) + 1 = k
      BY <2>1, <3>3
    <3>5. queue'[k - 1] = d
      BY <2>1, <3>2, <3>4
    <3> QED  BY <3>4, <3>5
  <2> QED  BY <2>4, <2>5, <2>6 DEF QueueExact
<1>4. ASSUME NEW c \in Clients, Serve(c)
      PROVE  QueueExact'
  <2>1. /\ queue' = queue /\ conn[c] # "queued"
        /\ \E place \in ConnPlaces \ {"queued"} : conn' = [conn EXCEPT ![c] = place]
    BY <1>4 DEF Serve, Begin, HangUp, Close, Enter, Leave, Break, Finish, MoveTo, ConnPlaces
  <2> QED  BY <2>1 DEF QueueExact
<1> QED  BY <1>1, <1>2, <1>3, <1>4 DEF ServerStep, PoolStep, Bind, Listen, AcceptFails,
            StopAccepting, JoinPool, Send

\* A pool without work stays without work until the server accepts.
LEMMA JoinedStep ==
    ASSUME HttpServerTypeOK, PoolJoined, ServerStep \/ PoolStep
    PROVE  /\ PoolJoined'
           /\ server = "none" <=> server' = "none"
           /\ server = "ended" <=> server' = "ended"
<1> USE DEF HttpServerTypeOK, PoolJoined, PoolIdle
<1>1. CASE Bind \/ Listen \/ AcceptFails \/ StopAccepting
  BY <1>1 DEF Bind, Listen, AcceptFails, StopAccepting, Busy
<1>2. CASE JoinPool
  BY <1>2 DEF JoinPool, Busy
<1>3. ASSUME NEW c \in Clients, Accept(c)
      PROVE  PoolJoined' /\ server' = server
  BY <1>3 DEF Accept
<1>4. CASE PickUp
  BY <1>4 DEF PickUp
<1>5. ASSUME NEW c \in Clients, Serve(c)
      PROVE  PoolJoined' /\ server' = server
  <2>1. server' = server /\ c \in Busy
    BY <1>5 DEF Serve, Begin, HangUp, Close, Enter, Leave, Break, Finish, Busy
  <2> QED  BY <2>1
<1>6. ASSUME NEW c \in Clients, Send(c)
      PROVE  PoolJoined' /\ server' = server
  BY <1>6 DEF Send, Busy
<1> QED  BY <1>1, <1>2, <1>3, <1>4, <1>5, <1>6 DEF ServerStep, PoolStep, Accept

\* No step of the server takes the socket's number away.
LEMMA SocketStep ==
    ASSUME HttpServerTypeOK, SocketKept, ServerStep \/ PoolStep, main' = main
    PROVE  SocketKept'
<1> USE DEF SocketKept
<1>1. CASE Bind \/ Listen \/ AcceptFails \/ StopAccepting \/ JoinPool
  BY <1>1 DEF Bind, Listen, AcceptFails, StopAccepting, JoinPool
<1>2. CASE PoolStep \/ \E c \in Clients : Accept(c)
  <2>1. UNCHANGED <<server, running, sock>>
    BY <1>2 DEF PoolStep, Accept, PickUp, Send, Serve, Begin, HangUp, Close, Enter, Leave,
       Break, Finish
  <2> QED  BY <2>1
<1> QED  BY <1>1, <1>2 DEF ServerStep

\* The invariant holds at the start.
LEMMA InitInv == Init => LifeInv
<1> SUFFICES ASSUME Init PROVE LifeInv
  OBVIOUS
<1>1. LifecycleTypeOK
  <2>1. KeepAliveMax \in 0 .. KeepAliveMax /\ << >> \in Seq(Clients)
    BY KeepAliveAssumption
  <2>2. HttpServerTypeOK
    BY <2>1 DEF Init, HttpServerInit, HttpServerTypeOK, ServerPlaces, ConnPlaces
  <2> QED  BY <2>2 DEF Init, LifecycleTypeOK, MainPlaces
<1>2. QueueExact /\ RoundsLeft /\ PoolJoined
  BY KeepAliveAssumption DEF Init, HttpServerInit, QueueExact, RoundsLeft, PoolJoined,
     PoolIdle, Busy
<1>3. Launching /\ SocketKept
  BY DEF Init, HttpServerInit, Launching, Launched, SocketKept
<1> QED  BY <1>1, <1>2, <1>3 DEF LifeInv

\* Every step of the server, of the main thread and of the signals preserves
\* the invariant.
LEMMA InvStep == LifeInv /\ [Next]_vars => LifeInv'
<1> SUFFICES ASSUME LifeInv, [Next]_vars PROVE LifeInv'
  OBVIOUS
<1>0. LifecycleTypeOK /\ HttpServerTypeOK /\ QueueExact /\ RoundsLeft /\ PoolJoined
      /\ Launching /\ SocketKept
  BY DEF LifeInv, LifecycleTypeOK
<1>1. CASE main # "done" /\ (ServerStep \/ PoolStep) /\ UNCHANGED mainVars
  <2>1. HttpServerTypeOK' /\ RoundsLeft' /\ QueueExact'
    BY <1>0, <1>1, ServerTypeStep, QueueStep
  <2>2. /\ PoolJoined'
        /\ server = "none" <=> server' = "none"
        /\ server = "ended" <=> server' = "ended"
    BY <1>0, <1>1, JoinedStep
  <2>3. LifecycleTypeOK'
    BY <1>0, <1>1, <2>1 DEF LifecycleTypeOK, mainVars
  <2>4. Launching'
    BY <1>0, <1>1, <2>2 DEF Launching, Launched, server_done, mainVars
  <2>5. SocketKept'
    BY <1>0, <1>1, SocketStep DEF mainVars
  <2> QED  BY <2>1, <2>2, <2>3, <2>4, <2>5 DEF LifeInv
<1>2. CASE main # "done" /\ ServerDone
  <2>1. LifecycleTypeOK'
    BY <1>0, <1>2 DEF ServerDone, LifecycleTypeOK, HttpServerTypeOK, ServerPlaces, mainVars
  <2>2. QueueExact' /\ RoundsLeft' /\ PoolJoined'
    BY <1>0, <1>2 DEF ServerDone, QueueExact, RoundsLeft, PoolJoined, PoolIdle, Busy
  <2>3. Launching' /\ SocketKept'
    BY <1>0, <1>2 DEF ServerDone, Launching, SocketKept, mainVars
  <2> QED  BY <2>1, <2>2, <2>3 DEF LifeInv
<1>3. CASE MainStep \/ Signal
  <2>1. UNCHANGED <<running, queue, conn, sent, rounds>>
    BY <1>3 DEF MainStep, Signal, Boot, Install, Spawn, Watch, Decide, Stop, CloseSocket,
       DrainEmpty, DrainOver, Join, serverVars
  <2>2. \/ UNCHANGED <<server, sock>>
        \/ main = "close" /\ server' = server /\ sock' = "invalid"
        \/ main = "spawn" /\ server' = "bind" /\ sock' = sock
    BY <1>3 DEF MainStep, Signal, Boot, Install, Spawn, Watch, Decide, Stop, CloseSocket,
       DrainEmpty, DrainOver, Join, serverVars
  <2>3. HttpServerTypeOK'
    BY <1>0, <2>1, <2>2 DEF HttpServerTypeOK, ServerPlaces
  <2>4. QueueExact' /\ RoundsLeft'
    BY <1>0, <2>1 DEF QueueExact, RoundsLeft
  <2>5. PoolJoined'
    <3>1. PoolIdle' <=> PoolIdle
      BY <2>1 DEF PoolIdle, Busy
    <3> QED  BY <1>0, <2>2, <3>1 DEF PoolJoined, Launching
  <2>6. LifecycleTypeOK'
    <3>1. main' \in MainPlaces /\ requested' \in BOOLEAN /\ drained' \in BOOLEAN
          /\ drain_ms' = drain_ms
      BY <1>0, <1>3 DEF LifecycleTypeOK, MainStep, Signal, Boot, Install, Spawn, Watch,
         Decide, Stop, CloseSocket, DrainEmpty, DrainOver, Join, GoTo, Exit, MainPlaces
    <3>2. code' \in {code, 0, 2, Killed}
      BY <1>3 DEF MainStep, Signal, Boot, Install, Spawn, Watch, Decide, Stop, CloseSocket,
         DrainEmpty, DrainOver, Join, Exit, ExitCode
    <3> QED  BY <1>0, <2>3, <3>1, <3>2 DEF LifecycleTypeOK
  <2>7. CASE Signal
    BY <1>0, <2>3, <2>4, <2>5, <2>6, <2>7 DEF LifeInv, Signal, Exit, GoTo, Launching,
       Launched, SocketKept, serverVars
  <2>8. CASE Join
    <3>1. Launching'
      BY <1>0, <2>8 DEF Join, CanJoin, Exit, GoTo, Launching, Launched, server_done,
         serverVars
    <3>2. SocketKept'
      BY <1>0, <2>8 DEF Join, Exit, GoTo, SocketKept, serverVars
    <3> QED  BY <2>3, <2>4, <2>5, <2>6, <3>1, <3>2 DEF LifeInv
  <2>9. CASE Boot \/ Install \/ Spawn
    BY <1>0, <2>3, <2>4, <2>5, <2>6, <2>9 DEF LifeInv, Boot, Install, Spawn, Exit, GoTo,
       Launching, Launched, SocketKept, serverVars
  <2>10. CASE Watch \/ Decide \/ Stop \/ CloseSocket \/ DrainEmpty \/ DrainOver
    BY <1>0, <2>3, <2>4, <2>5, <2>6, <2>10 DEF LifeInv, Watch, Decide, Stop, CloseSocket,
       DrainEmpty, DrainOver, GoTo, Launching, Launched, server_done, SocketKept,
       serverVars
  <2> QED  BY <1>3, <2>7, <2>8, <2>9, <2>10 DEF MainStep
<1>4. CASE UNCHANGED vars
  BY <1>0, <1>4 DEF vars, serverVars, mainVars, LifeInv, LifecycleTypeOK, HttpServerTypeOK,
     QueueExact, RoundsLeft, PoolJoined, PoolIdle, Busy, Launching, Launched, server_done,
     SocketKept
<1> QED  BY <1>1, <1>2, <1>3, <1>4 DEF Next

\* The invariant holds in every state of every execution.
THEOREM LifeInvariance == Spec => []LifeInv
BY InitInv, InvStep, PTL DEF Spec

\* LifecycleTypeOK: every variable keeps its type; no connection carries more
\* requests than the library allows.
THEOREM LifecycleTypeCorrect == Spec => []LifecycleTypeOK
<1>1. LifeInv => LifecycleTypeOK
  BY DEF LifeInv
<1> QED  BY <1>1, LifeInvariance, PTL

\* ExitAfterWork: main joins the listening thread, which joins the pool, so no
\* accepted connection is cut off by the end of the process (main.cpp:232).
THEOREM ExitAfterWorkHolds == Spec => []ExitAfterWork
<1>1. LifeInv => ExitAfterWork
  <2> SUFFICES ASSUME LifeInv, main = "done", Launched
               PROVE  /\ server_done
                      /\ \A c \in Clients : conn[c] \in {"away", "closed"}
    BY DEF ExitAfterWork
  <2>1. server_done
    BY DEF LifeInv, Launching
  <2>2. queue = <<>> /\ Busy = {}
    BY <2>1 DEF LifeInv, PoolJoined, PoolIdle, server_done
  <2>3. \A c \in Clients : conn[c] # "queued"
    BY <2>2 DEF LifeInv, QueueExact
  <2>4. \A c \in Clients : conn[c] \in {"away", "queued", "closed"}
    BY <2>2 DEF Busy
  <2> QED  BY <2>1, <2>3, <2>4
<1> QED  BY <1>1, LifeInvariance, PTL

\* StopFindsSocket: whatever the listening thread does between the test of
\* is_running_ and the assertion of Server::stop (httplib.h:10227-10228), the
\* assertion holds.
THEOREM StopFindsSocketHolds == Spec => []StopFindsSocket
<1>1. LifeInv => StopFindsSocket
  BY DEF LifeInv, SocketKept, StopFindsSocket
<1> QED  BY <1>1, LifeInvariance, PTL
=============================================================================
