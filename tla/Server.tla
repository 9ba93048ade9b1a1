-------------------------------- MODULE Server --------------------------------
(***************************************************************************)
(* The accept loops of src/server.rs and the orchestration of src/main.rs:  *)
(* listeners that check the ban list, take a permit of one global           *)
(* semaphore and spawn a task per connection; the tasks themselves up to    *)
(* the HTTP service; and the graceful shutdown that runs through all of     *)
(* them.  The ban list is a set that handlers enlarge and time shrinks      *)
(* (module Ban shows what a check of it means).                             *)
(***************************************************************************)
EXTENDS Naturals, Sequences, FiniteSets

CONSTANTS
  HttpAddrs, HttpsAddrs,  \* network.http_addrs and network.https_addrs
  Conns,                  \* TCP connections, reused once they are closed
  IPs,
  Remote,                 \* the peer address of a connection
  MaxConnections          \* network.max_connections

Listeners == HttpAddrs \cup HttpsAddrs

ASSUME ServerAssumption ==
  /\ IsFiniteSet(Listeners)
  /\ IsFiniteSet(Conns)
  /\ Remote \in [Conns -> IPs]
  /\ MaxConnections \in Nat

VARIABLES
  main,      \* main: serving, joining the listeners, stopped; or the process aborted
  token,     \* has cancel_token been cancelled
  pc,        \* where each accept loop is
  cur,       \* the connection an accept loop has in its hands
  conn,      \* state of each connection
  at,        \* the listener a connection came in at
  permits,   \* permits available in the semaphore
  waiters,   \* accept loops queued for a permit, first come first served
  banned     \* addresses whose ban is running

vars == <<main, token, pc, cur, conn, at, permits, waiters, banned>>
semaphore == <<permits, waiters>>

(* A connection task runs in one of these states; it holds a permit. *)
Running == {"tls", "idle", "busy", "last"}

TypeOK ==
  /\ main \in {"serve", "join", "stopped", "aborted"}
  /\ token \in BOOLEAN
  /\ pc \in [Listeners -> {"bind", "select", "check", "permit", "wait", "spawn",
                           "drain", "done"}]
  /\ cur \in [Listeners -> Conns]
  /\ conn \in [Conns -> Running \cup {"none", "queued", "held", "ended"}]
  /\ at \in [Conns -> Listeners]
  /\ permits \in Nat
  /\ waiters \in Seq(Listeners)
  /\ banned \subseteq IPs

Init ==
  /\ main = "serve"
  /\ token = FALSE
  /\ pc = [l \in Listeners |-> "bind"]
  /\ cur \in [Listeners -> Conns]
  /\ conn = [c \in Conns |-> "none"]
  /\ at \in [Conns -> Listeners]
  /\ permits = MaxConnections
  /\ waiters = <<>>
  /\ banned = {}

-----------------------------------------------------------------------------
(* conn_set of a listener: the tasks it has spawned and not yet joined. *)
conn_set(l) == {c \in Conns : at[c] = l /\ conn[c] \in Running \cup {"ended"}}

(***************************************************************************)
(* A panic ends the process (Cargo.toml: panic = "abort" in the release     *)
(* profile): nothing runs any more, and the state stays as it was left.     *)
(***************************************************************************)
Alive == main # "aborted"

Goto(l, here, there) == Alive /\ pc[l] = here /\ pc' = [pc EXCEPT ![l] = there]
Become(c, state) == Alive /\ conn' = [conn EXCEPT ![c] = state]

(* Dropping a permit: it goes to the first waiter, or back to the pool. *)
Release ==
  \/ /\ waiters = <<>>
     /\ permits' = permits + 1
     /\ UNCHANGED <<pc, waiters>>
  \/ /\ waiters # <<>>
     /\ waiters' = Tail(waiters)
     /\ pc' = [pc EXCEPT ![Head(waiters)] = "spawn"]
     /\ UNCHANGED permits

(* TcpListener::bind succeeds, or its expect() panics and takes all with it. *)
Bind(l) ==
  /\ \/ Goto(l, "bind", "select") /\ UNCHANGED main
     \/ Alive /\ pc[l] = "bind" /\ main' = "aborted" /\ UNCHANGED pc
  /\ UNCHANGED <<token, cur, conn, at, semaphore, banned>>

(* A client connects: the kernel queues the connection while the socket is open. *)
Connect(c, l) ==
  /\ conn[c] = "none"
  /\ pc[l] \notin {"bind", "done"}
  /\ Become(c, "queued")
  /\ at' = [at EXCEPT ![c] = l]
  /\ UNCHANGED <<main, token, pc, cur, semaphore, banned>>

(***************************************************************************)
(* The select! of the accept loop picks any of its ready branches: cancel,  *)
(* accept or join_next.  An accept error changes nothing (continue).        *)
(***************************************************************************)
SeeCancel(l) ==
  /\ token
  /\ Goto(l, "select", "drain")
  /\ UNCHANGED <<main, token, cur, conn, at, semaphore, banned>>

Accept(l, c) ==
  /\ Goto(l, "select", "check")
  /\ conn[c] = "queued" /\ at[c] = l
  /\ Become(c, "held")
  /\ cur' = [cur EXCEPT ![l] = c]
  /\ UNCHANGED <<main, token, at, semaphore, banned>>

(* join_next, in the loop and in the drain after it. *)
Join(l, c) ==
  /\ pc[l] \in {"select", "drain"}
  /\ c \in conn_set(l) /\ conn[c] = "ended"
  /\ Become(c, "none")
  /\ UNCHANGED <<main, token, pc, cur, at, semaphore, banned>>

(* The ban check; a banned peer's stream is dropped. *)
CheckBan(l) ==
  /\ \/ /\ Remote[cur[l]] \in banned
        /\ Goto(l, "check", "select")
        /\ Become(cur[l], "none")
     \/ /\ Remote[cur[l]] \notin banned
        /\ Goto(l, "check", "permit")
        /\ UNCHANGED conn
  /\ UNCHANGED <<main, token, cur, at, semaphore, banned>>

(* Mutant: nobody looks whether there is a permit. *)
AcquireUnchecked(l) ==
  /\ Goto(l, "permit", "spawn")
  /\ permits' = permits - 1
  /\ UNCHANGED <<main, token, cur, conn, at, waiters, banned>>

(* acquire_owned: a permit at once, or a place in the queue. *)
Acquire(l) ==
  /\ \/ /\ permits > 0
        /\ Goto(l, "permit", "spawn")
        /\ permits' = permits - 1
        /\ UNCHANGED waiters
     \/ /\ permits = 0
        /\ Goto(l, "permit", "wait")
        /\ waiters' = Append(waiters, l)
        /\ UNCHANGED permits
  /\ UNCHANGED <<main, token, cur, conn, at, banned>>

(* conn_set.spawn: the permit moves into the task. *)
Spawn(l) ==
  /\ Goto(l, "spawn", "select")
  /\ Become(cur[l], IF l \in HttpsAddrs THEN "tls" ELSE "idle")
  /\ UNCHANGED <<main, token, cur, at, semaphore, banned>>

(* Mutant: the loop is left without waiting for the tasks. *)
FinishAtOnce(l) ==
  /\ Goto(l, "drain", "done")
  /\ conn' = [c \in Conns |->
                IF at[c] = l /\ conn[c] = "queued" THEN "none" ELSE conn[c]]
  /\ UNCHANGED <<main, token, cur, at, semaphore, banned>>

(***************************************************************************)
(* All tasks joined: the server function returns and drops its listener,    *)
(* and the kernel resets what nobody accepted.                              *)
(***************************************************************************)
Finish(l) ==
  /\ Goto(l, "drain", "done")
  /\ conn_set(l) = {}
  /\ conn' = [c \in Conns |->
                IF at[c] = l /\ conn[c] = "queued" THEN "none" ELSE conn[c]]
  /\ UNCHANGED <<main, token, cur, at, semaphore, banned>>

-----------------------------------------------------------------------------
(* The end of a connection's task: its permit is dropped. *)
End(c) ==
  /\ Become(c, "ended")
  /\ Release

(* The TLS handshake completes. *)
TlsReady(c) ==
  /\ conn[c] = "tls"
  /\ Become(c, "idle")
  /\ UNCHANGED <<main, token, pc, cur, at, semaphore, banned>>

(* Mutant: the error path of the handshake keeps the permit. *)
TlsFailsLeaking(c) ==
  /\ conn[c] = "tls"
  /\ Become(c, "ended")
  /\ UNCHANGED <<main, token, pc, cur, at, semaphore, banned>>

(* The TLS handshake fails, or takes longer than c_tls_handshake. *)
TlsFails(c) ==
  /\ conn[c] = "tls"
  /\ End(c)
  /\ UNCHANGED <<main, token, cur, at, banned>>

(* The connection delivers a request to the service ... *)
Request(c) ==
  /\ conn[c] = "idle"
  /\ Become(c, "busy")
  /\ UNCHANGED <<main, token, pc, cur, at, semaphore, banned>>

(* ... whose handler may ban an address (the real IP, not always the peer's) *)
Violate(c, i) ==
  /\ Alive /\ conn[c] \in {"busy", "last"}
  /\ banned' = banned \cup {i}
  /\ UNCHANGED <<main, token, pc, cur, conn, at, semaphore>>

(* ... and the response goes out: the connection is kept alive. *)
Respond(c) ==
  /\ conn[c] = "busy"
  /\ Become(c, "idle")
  /\ UNCHANGED <<main, token, pc, cur, at, semaphore, banned>>

(* The connection future ends by itself: closed, failed or timed out. *)
Close(c) ==
  /\ conn[c] \in {"idle", "busy"}
  /\ End(c)
  /\ UNCHANGED <<main, token, cur, at, banned>>

(* Mutant: the task ignores the token while a request is in flight. *)
GracefulIdleOnly(c) ==
  /\ token
  /\ conn[c] = "idle" /\ End(c)
  /\ UNCHANGED <<main, token, cur, at, banned>>

(***************************************************************************)
(* The task sees the cancelled token: graceful_shutdown ends an idle        *)
(* connection, and one with a request in flight after its response.         *)
(***************************************************************************)
Graceful(c) ==
  /\ token
  /\ \/ conn[c] = "idle" /\ End(c)
     \/ conn[c] = "busy" /\ Become(c, "last") /\ UNCHANGED <<pc, semaphore>>
  /\ UNCHANGED <<main, token, cur, at, banned>>

(* The last response of a connection that is shutting down. *)
LastResponse(c) ==
  /\ conn[c] = "last"
  /\ End(c)
  /\ UNCHANGED <<main, token, cur, at, banned>>

BanExpires(i) ==
  /\ Alive /\ i \in banned
  /\ banned' = banned \ {i}
  /\ UNCHANGED <<main, token, pc, cur, conn, at, semaphore>>

-----------------------------------------------------------------------------
(* main: ctrl_c resolves (or fails), the token is cancelled. *)
CtrlC ==
  /\ main = "serve"
  /\ main' = "join"
  /\ token' = TRUE
  /\ UNCHANGED <<pc, cur, conn, at, semaphore, banned>>

(* main: every listener's task has been joined; the process ends. *)
Stop ==
  /\ main = "join"
  /\ \A l \in Listeners : pc[l] = "done"
  /\ main' = "stopped"
  /\ UNCHANGED <<token, pc, cur, conn, at, semaphore, banned>>

ListenerStep(l) ==
  \/ Bind(l) \/ SeeCancel(l) \/ CheckBan(l) \/ Acquire(l) \/ Spawn(l) \/ Finish(l)
  \/ \E c \in Conns : Accept(l, c) \/ Join(l, c)

ConnStep(c) ==
  \/ TlsReady(c) \/ TlsFails(c) \/ Request(c) \/ Respond(c) \/ Close(c)
  \/ Graceful(c) \/ LastResponse(c)
  \/ \E i \in IPs : Violate(c, i)

Next ==
  \/ \E l \in Listeners : ListenerStep(l)
  \/ \E c \in Conns, l \in Listeners : Connect(c, l)
  \/ \E c \in Conns : ConnStep(c)
  \/ \E i \in IPs : BanExpires(i)
  \/ CtrlC
  \/ Stop

Spec == Init /\ [][Next]_vars

(***************************************************************************)
(* Fairness.  tokio runs every task that is ready; select! picks among the  *)
(* ready branches at random, so a branch ready again and again is taken in  *)
(* the end (strong fairness of SeeCancel and of Join); the handshake has a  *)
(* timeout.  A request in flight need not end: the collection of its body,  *)
(* and the streaming of its response, are under no timeout.                 *)
(***************************************************************************)
Fairness ==
  /\ \A l \in Listeners :
       /\ WF_vars(Bind(l)) /\ WF_vars(CheckBan(l)) /\ WF_vars(Acquire(l))
       /\ WF_vars(Spawn(l)) /\ WF_vars(Finish(l))
       /\ SF_vars(SeeCancel(l)) /\ SF_vars(\E c \in Conns : Join(l, c))
  /\ \A c \in Conns :
       /\ WF_vars(TlsReady(c) \/ TlsFails(c))
       /\ WF_vars(Graceful(c))
  /\ WF_vars(Stop)

FairSpec == Spec /\ Fairness

-----------------------------------------------------------------------------
(* Who has a permit: accept loops about to spawn, and running tasks. *)
Granted == {l \in Listeners : pc[l] = "spawn"}
Served == {c \in Conns : conn[c] \in Running}

(***************************************************************************)
(* The semaphore accounts for every connection: on no path (handshake       *)
(* error, timeout, shutdown, hand-over to a waiting listener) is a permit   *)
(* lost or given out twice, so at most max_connections connections are      *)
(* served at a time, however many listeners accept them (server.rs).        *)
(***************************************************************************)
PermitsAccounted ==
  permits + Cardinality(Granted) + Cardinality(Served) = MaxConnections

(***************************************************************************)
(* Graceful shutdown cuts nobody off: a listener that has returned has left *)
(* no connection behind in any state, and when main returns (main.rs, step  *)
(* 12) no connection task is left to be killed with the process.  (The task *)
(* of an upgraded WebSocket is in nobody's JoinSet and not counted here,    *)
(* and a panic cuts off whoever is there.)                                  *)
(***************************************************************************)
NobodyCutOff ==
  /\ \A c \in Conns : conn[c] # "none" => pc[at[c]] \notin {"done", "bind"}
  /\ main = "stopped" => \A c \in Conns : conn[c] = "none"

(***************************************************************************)
(* What shutdown may have to wait for: requests in flight, and behind them  *)
(* the accept loops whose permits these hold.                               *)
(***************************************************************************)
OnlyRequestsLeft ==
  /\ Served # {} /\ \A c \in Served : conn[c] = "last"
  /\ \A l \in Listeners : pc[l] \in {"wait", "drain", "done"}

(***************************************************************************)
(* Only requests in flight hold a shutdown up: after Ctrl+C main returns,   *)
(* or gets to where nothing but unanswered requests is left, although       *)
(* accept loops waiting for a permit, and tasks in a handshake, do not look *)
(* at the token, and although new connections keep coming in until the      *)
(* loops do (server.rs: the accept loops and the connection tasks).         *)
(***************************************************************************)
ShutdownCompletes ==
  MaxConnections > 0 => (main = "join" ~> main # "join" \/ OnlyRequestsLeft)
=============================================================================
