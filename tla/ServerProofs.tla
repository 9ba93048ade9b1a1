----------------------------- MODULE ServerProofs -----------------------------
(***************************************************************************)
(* The semaphore and shutdown theorems of Server, for any number of         *)
(* listeners, connections and permits.                                      *)
(*                                                                          *)
(* PermitsAccounted is not inductive: Spawn turns the grant of a listener   *)
(* into a served connection, which keeps the account only if cur[l] was not *)
(* being served already (Custody), and a release hands its permit to the    *)
(* head of the queue, which keeps it only if that listener waits and is     *)
(* queued once (Queue).                                                     *)
(***************************************************************************)
EXTENDS Server, FiniteSetTheorems, TLAPS

(* Accept loops past their accept. *)
InHand == {"check", "permit", "wait", "spawn"}

Custody ==
  /\ \A l \in Listeners : pc[l] \in InHand => conn[cur[l]] = "held" /\ at[cur[l]] = l
  /\ \A c \in Conns : conn[c] = "held" => pc[at[c]] \in InHand /\ cur[at[c]] = c

Queue ==
  /\ \A i, j \in 1..Len(waiters) : i # j => waiters[i] # waiters[j]
  /\ \A l \in Listeners : pc[l] = "wait" <=> \E i \in 1..Len(waiters) : waiters[i] = l
  /\ waiters # <<>> => permits = 0

Open ==
  /\ \A c \in Conns : conn[c] # "none" => pc[at[c]] \notin {"done", "bind"}
  /\ main = "stopped" => \A l \in Listeners : pc[l] = "done"

Inv == TypeOK /\ Custody /\ Queue /\ Open /\ PermitsAccounted

-----------------------------------------------------------------------------
(* Granted and Served are finite, so their cardinalities are numbers. *)
LEMMA FiniteHolders ==
  /\ IsFiniteSet(Granted) /\ Cardinality(Granted) \in Nat
  /\ IsFiniteSet(Served) /\ Cardinality(Served) \in Nat
BY ServerAssumption, FS_Subset, FS_CardinalityType DEF Granted, Served

(* The account does not change when neither group of permit holders does. *)
LEMMA SameHolders ==
  ASSUME PermitsAccounted, Granted' = Granted, Served' = Served, permits' = permits
  PROVE  PermitsAccounted'
BY DEF PermitsAccounted

(* What a release does to the queue: it loses its head, or stays empty. *)
LEMMA QueueTail ==
  ASSUME TypeOK, Queue, waiters # <<>>
  PROVE  /\ Head(waiters) \in Listeners
         /\ pc[Head(waiters)] = "wait"
         /\ Tail(waiters) \in Seq(Listeners)
         /\ Len(Tail(waiters)) = Len(waiters) - 1
         /\ \A i \in 1..Len(Tail(waiters)) : Tail(waiters)[i] = waiters[i + 1]
         /\ Len(waiters) \in Nat \ {0}
         /\ Head(waiters) = waiters[1]
BY DEF TypeOK, Queue

-----------------------------------------------------------------------------
(* The end of a connection's task keeps the invariant, whoever gets its permit. *)
LEMMA EndKeeps ==
  ASSUME Inv, NEW c \in Conns, conn[c] \in Running, End(c),
         UNCHANGED <<main, token, cur, at, banned>>
  PROVE  Inv'
<1> USE DEF Running
<1>1. conn' = [conn EXCEPT ![c] = "ended"]
  BY DEF End, Become
<1>2. Served' = Served \ {c} /\ c \in Served
  BY <1>1 DEF Inv, TypeOK, Served
<1>3. Cardinality(Served') = Cardinality(Served) - 1
  BY <1>2, FiniteHolders, FS_RemoveElement
<1>4. CASE waiters = <<>> /\ permits' = permits + 1 /\ UNCHANGED <<pc, waiters>>
  <2>1. TypeOK'
    BY <1>1, <1>4 DEF Inv, TypeOK
  <2>2. Custody' /\ Open'
    BY <1>1, <1>4 DEF Inv, TypeOK, Custody, Open, InHand
  <2>3. Queue'
    BY <1>4 DEF Inv, Queue
  <2>4. Granted' = Granted
    BY <1>4 DEF Granted
  <2>5. PermitsAccounted'
    BY <1>3, <1>4, <2>4, FiniteHolders DEF Inv, TypeOK, PermitsAccounted
  <2> QED
    BY <2>1, <2>2, <2>3, <2>5 DEF Inv
<1>5. CASE /\ waiters # <<>>
           /\ waiters' = Tail(waiters)
           /\ pc' = [pc EXCEPT ![Head(waiters)] = "spawn"]
           /\ UNCHANGED permits
  <2> DEFINE h == Head(waiters)
  <2>1. /\ h \in Listeners /\ pc[h] = "wait"
        /\ Tail(waiters) \in Seq(Listeners)
        /\ Len(Tail(waiters)) = Len(waiters) - 1
        /\ \A i \in 1..Len(Tail(waiters)) : Tail(waiters)[i] = waiters[i + 1]
        /\ Len(waiters) \in Nat \ {0}
        /\ h = waiters[1]
    BY <1>5, QueueTail DEF Inv
  <2>2. pc' = [pc EXCEPT ![h] = "spawn"]
    BY <1>5
  <2> HIDE DEF h
  <2>3. TypeOK'
    BY <1>1, <1>5, <2>1, <2>2 DEF Inv, TypeOK
  <2>4. Custody' /\ Open'
    BY <1>1, <2>1, <2>2 DEF Inv, TypeOK, Custody, Open, InHand
  <2>5. Queue'
    <3>1. \A i, j \in 1..Len(waiters') : i # j => waiters'[i] # waiters'[j]
      BY <1>5, <2>1 DEF Inv, Queue
    <3>2. ASSUME NEW l \in Listeners
          PROVE  pc'[l] = "wait" <=> \E i \in 1..Len(waiters') : waiters'[i] = l
      <4>1. CASE l = h
        <5>1. pc'[l] # "wait"
          BY <4>1, <2>1, <2>2 DEF Inv, TypeOK
        <5>2. \A i \in 1..Len(waiters') : waiters'[i] # l
          BY <4>1, <1>5, <2>1 DEF Inv, Queue
        <5> QED
          BY <5>1, <5>2
      <4>2. CASE l # h
        <5>1. pc'[l] = pc[l]
          BY <4>2, <2>1, <2>2 DEF Inv, TypeOK
        <5>2. ASSUME NEW i \in 1..Len(waiters), waiters[i] = l
              PROVE  \E j \in 1..Len(waiters') : waiters'[j] = l
          <6>1. i # 1
            BY <5>2, <4>2, <2>1
          <6>2. i - 1 \in 1..Len(waiters') /\ waiters'[i - 1] = l
            BY <6>1, <5>2, <1>5, <2>1
          <6> QED
            BY <6>2
        <5>3. ASSUME NEW j \in 1..Len(waiters'), waiters'[j] = l
              PROVE  \E i \in 1..Len(waiters) : waiters[i] = l
          <6>1. j + 1 \in 1..Len(waiters) /\ waiters[j + 1] = l
            BY <5>3, <1>5, <2>1
          <6> QED
            BY <6>1
        <5> QED
          BY <5>1, <5>2, <5>3 DEF Inv, Queue
      <4> QED
        BY <4>1, <4>2
    <3> QED
      BY <3>1, <3>2, <1>5 DEF Inv, Queue
  <2>6. Granted' = Granted \cup {h} /\ h \notin Granted
    BY <2>1, <2>2 DEF Inv, TypeOK, Granted
  <2>7. Cardinality(Granted') = Cardinality(Granted) + 1
    BY <2>6, FiniteHolders, FS_AddElement
  <2>8. PermitsAccounted'
    BY <1>3, <1>5, <2>7, FiniteHolders DEF Inv, TypeOK, PermitsAccounted
  <2> QED
    BY <2>3, <2>4, <2>5, <2>8 DEF Inv
<1> QED
  BY <1>4, <1>5 DEF End, Release

(* A task that only goes from one running state to another keeps it, too. *)
LEMMA MoveKeeps ==
  ASSUME Inv, NEW c \in Conns, NEW s \in Running, conn[c] \in Running, Become(c, s),
         UNCHANGED <<main, token, pc, cur, at, semaphore, banned>>
  PROVE  Inv'
<1> USE DEF Running, semaphore
<1>1. TypeOK' /\ Custody' /\ Queue' /\ Open'
  BY DEF Inv, TypeOK, Custody, Queue, Open, InHand, Become
<1>2. Granted' = Granted /\ Served' = Served
  BY DEF Inv, TypeOK, Granted, Served, Become
<1>3. PermitsAccounted'
  BY <1>2, SameHolders DEF Inv
<1> QED
  BY <1>1, <1>3 DEF Inv

-----------------------------------------------------------------------------
(* Init establishes the invariant. *)
LEMMA InitInv == Init => Inv
<1> SUFFICES ASSUME Init PROVE Inv
  OBVIOUS
<1>1a. token \in BOOLEAN
  BY Zenon DEF Init
<1>1b. TypeOK
  BY <1>1a, ServerAssumption DEF Init, TypeOK, Running
<1>1. TypeOK /\ Custody /\ Queue /\ Open
  BY <1>1b DEF Init, Custody, Queue, Open, InHand
<1>2. Granted = {} /\ Served = {}
  BY DEF Init, Granted, Served, Running
<1>3. PermitsAccounted
  BY <1>2, FS_EmptySet, ServerAssumption DEF Init, PermitsAccounted
<1> QED
  BY <1>1, <1>3 DEF Inv

(* The steps of an accept loop keep it. *)
LEMMA ListenerKeeps ==
  ASSUME Inv, NEW l \in Listeners, ListenerStep(l)
  PROVE  Inv'
<1> USE DEF semaphore, Goto, Become
<1>1. CASE Bind(l) \/ SeeCancel(l)
  <2>a. /\ pc[l] \in {"bind", "select"}
        /\ \/ pc' = pc /\ main' = "aborted"
           \/ main' = main /\ \E p \in {"select", "drain"} : pc' = [pc EXCEPT ![l] = p]
        /\ UNCHANGED <<token, cur, conn, at, permits, waiters, banned>>
    BY <1>1 DEF Inv, TypeOK, Bind, SeeCancel
  <2>1. CASE pc' = pc /\ main' = "aborted"
    <3>1. TypeOK'
      BY <2>a, <2>1 DEF Inv, TypeOK
    <3>2. Custody' /\ Queue' /\ Open'
      BY <2>a, <2>1 DEF Inv, TypeOK, Custody, Queue, Open, InHand
    <3>3. Granted' = Granted /\ Served' = Served
      BY <2>a, <2>1 DEF Granted, Served
    <3> QED
      BY <2>a, <3>1, <3>2, <3>3, SameHolders DEF Inv
  <2>2. CASE main' = main /\ \E p \in {"select", "drain"} : pc' = [pc EXCEPT ![l] = p]
    <3>1. TypeOK'
      BY <2>a, <2>2 DEF Inv, TypeOK
    <3>2. Custody' /\ Queue' /\ Open'
      BY <2>a, <2>2 DEF Inv, TypeOK, Custody, Queue, Open, InHand
    <3>3. Granted' = Granted /\ Served' = Served
      BY <2>a, <2>2 DEF Inv, TypeOK, Granted, Served
    <3> QED
      BY <2>a, <3>1, <3>2, <3>3, SameHolders DEF Inv
  <2> QED
    BY <2>a, <2>1, <2>2
<1>2. CASE CheckBan(l)
  <2>1. conn[cur[l]] = "held" /\ at[cur[l]] = l /\ cur[l] \in Conns
    BY <1>2 DEF CheckBan, Inv, TypeOK, Custody, InHand
  <2>2. TypeOK'
    BY <1>2, <2>1 DEF Inv, TypeOK, CheckBan
  <2>3. Custody'
    BY <1>2, <2>1 DEF Inv, TypeOK, Custody, InHand, CheckBan
  <2>4. Queue' /\ Open'
    BY <1>2, <2>1 DEF Inv, TypeOK, Queue, Open, CheckBan
  <2>5. Granted' = Granted /\ Served' = Served
    BY <1>2, <2>1 DEF Inv, TypeOK, Granted, Served, Running, CheckBan
  <2> QED
    BY <1>2, <2>2, <2>3, <2>4, <2>5, SameHolders DEF Inv, CheckBan
<1>3. CASE Acquire(l)
  <2>1. Served' = Served
    BY <1>3 DEF Served, Acquire
  <2>2. CASE permits > 0
    <3>1. permits' = permits - 1 /\ waiters' = waiters
          /\ pc[l] = "permit" /\ pc' = [pc EXCEPT ![l] = "spawn"]
      BY <1>3, <2>2 DEF Acquire
    <3>2. waiters = <<>>
      BY <2>2 DEF Inv, Queue
    <3>3. TypeOK' /\ Custody' /\ Queue' /\ Open'
      BY <1>3, <2>2, <3>1, <3>2 DEF Inv, TypeOK, Custody, Queue, Open, InHand, Acquire
    <3>4. Granted' = Granted \cup {l} /\ l \notin Granted
      BY <3>1 DEF Inv, TypeOK, Granted
    <3>5. Cardinality(Granted') = Cardinality(Granted) + 1
      BY <3>4, FiniteHolders, FS_AddElement
    <3>6. PermitsAccounted'
      BY <2>1, <3>1, <3>5, FiniteHolders DEF Inv, TypeOK, PermitsAccounted
    <3> QED
      BY <3>3, <3>6 DEF Inv
  <2>3. CASE permits = 0
    <3>1. permits' = permits /\ waiters' = Append(waiters, l)
          /\ pc[l] = "permit" /\ pc' = [pc EXCEPT ![l] = "wait"]
      BY <1>3, <2>3 DEF Acquire
    <3>2. /\ Len(waiters') = Len(waiters) + 1 /\ Len(waiters) \in Nat
          /\ waiters'[Len(waiters) + 1] = l
          /\ \A i \in 1..Len(waiters) : waiters'[i] = waiters[i]
          /\ waiters' \in Seq(Listeners)
      BY <3>1 DEF Inv, TypeOK
    <3>3. TypeOK'
      BY <1>3, <3>1, <3>2 DEF Inv, TypeOK, Acquire
    <3>4. Custody' /\ Open'
      BY <1>3, <3>1 DEF Inv, TypeOK, Custody, Open, InHand, Acquire
    <3>5. \A i \in 1..Len(waiters) : waiters[i] # l
      BY <3>1 DEF Inv, Queue
    <3>6. Queue'
      <4>1. \A i, j \in 1..Len(waiters') : i # j => waiters'[i] # waiters'[j]
        BY <3>2, <3>5 DEF Inv, Queue
      <4>2. ASSUME NEW k \in Listeners
            PROVE  pc'[k] = "wait" <=> \E i \in 1..Len(waiters') : waiters'[i] = k
        <5>1. CASE k = l
          BY <5>1, <3>1, <3>2 DEF Inv, TypeOK
        <5>2. CASE k # l
          BY <5>2, <3>1, <3>2 DEF Inv, TypeOK, Queue
        <5> QED
          BY <5>1, <5>2
      <4> QED
        BY <4>1, <4>2, <2>3, <3>1 DEF Queue
    <3>7. Granted' = Granted
      BY <3>1 DEF Inv, TypeOK, Granted
    <3> QED
      BY <2>1, <3>1, <3>3, <3>4, <3>6, <3>7, SameHolders DEF Inv
  <2> QED
    BY <1>3, <2>2, <2>3 DEF Acquire
<1>4. CASE Spawn(l)
  <2> DEFINE s == IF l \in HttpsAddrs THEN "tls" ELSE "idle"
  <2>1. /\ pc[l] = "spawn" /\ pc' = [pc EXCEPT ![l] = "select"]
        /\ conn' = [conn EXCEPT ![cur[l]] = s]
        /\ UNCHANGED <<main, token, cur, at, permits, waiters, banned>>
    BY <1>4 DEF Spawn
  <2>2. conn[cur[l]] = "held" /\ at[cur[l]] = l /\ cur[l] \in Conns
    BY <2>1 DEF Inv, TypeOK, Custody, InHand
  <2>3. s \in {"tls", "idle"}
    OBVIOUS
  <2> HIDE DEF s
  <2>4. TypeOK'
    BY <2>1, <2>2, <2>3 DEF Inv, TypeOK, Running
  <2>5. Custody'
    BY <2>1, <2>2, <2>3 DEF Inv, TypeOK, Custody, InHand
  <2>6. Queue' /\ Open'
    BY <2>1, <2>2, <2>3 DEF Inv, TypeOK, Queue, Open
  <2>7. /\ Granted' = Granted \ {l} /\ l \in Granted
        /\ Served' = Served \cup {cur[l]} /\ cur[l] \notin Served
    BY <2>1, <2>2, <2>3 DEF Inv, TypeOK, Granted, Served, Running
  <2>8. /\ Cardinality(Granted') = Cardinality(Granted) - 1
        /\ Cardinality(Served') = Cardinality(Served) + 1
    BY <2>7, FiniteHolders, FS_RemoveElement, FS_AddElement
  <2>9. PermitsAccounted'
    BY <2>1, <2>8, FiniteHolders DEF Inv, TypeOK, PermitsAccounted
  <2> QED
    BY <2>4, <2>5, <2>6, <2>9 DEF Inv
<1>5. CASE Finish(l)
  <2>1. TypeOK'
    BY <1>5 DEF Inv, TypeOK, Finish
  <2>2. Custody'
    BY <1>5 DEF Inv, TypeOK, Custody, InHand, Finish
  <2>3. Queue'
    BY <1>5 DEF Inv, TypeOK, Queue, Finish
  <2>4. Open'
    <3>1. ASSUME NEW c \in Conns, conn'[c] # "none"
          PROVE  pc'[at'[c]] \notin {"done", "bind"}
      <4>1. at[c] # l
        BY <1>5, <3>1 DEF Inv, TypeOK, Custody, InHand, Finish, conn_set, Running
      <4> QED
        BY <1>5, <3>1, <4>1 DEF Inv, TypeOK, Open, Finish
    <3> QED
      BY <1>5, <3>1 DEF Inv, TypeOK, Open, Finish
  <2>5. Granted' = Granted /\ Served' = Served
    BY <1>5 DEF Inv, TypeOK, Granted, Served, Running, Finish
  <2> QED
    BY <1>5, <2>1, <2>2, <2>3, <2>4, <2>5, SameHolders DEF Inv, Finish
<1>6. ASSUME NEW c \in Conns, Accept(l, c)
      PROVE  Inv'
  <2>1. TypeOK'
    BY <1>6 DEF Inv, TypeOK, Accept
  <2>2. Custody'
    BY <1>6 DEF Inv, TypeOK, Custody, InHand, Accept
  <2>3. Queue' /\ Open'
    BY <1>6 DEF Inv, TypeOK, Queue, Open, Accept
  <2>4. Granted' = Granted /\ Served' = Served
    BY <1>6 DEF Inv, TypeOK, Granted, Served, Running, Accept
  <2> QED
    BY <1>6, <2>1, <2>2, <2>3, <2>4, SameHolders DEF Inv, Accept
<1>7. ASSUME NEW c \in Conns, Join(l, c)
      PROVE  Inv'
  <2>1. TypeOK' /\ Custody' /\ Queue' /\ Open'
    BY <1>7 DEF Inv, TypeOK, Custody, Queue, Open, InHand, Join
  <2>2. Granted' = Granted /\ Served' = Served
    BY <1>7 DEF Inv, TypeOK, Granted, Served, Running, Join
  <2> QED
    BY <1>7, <2>1, <2>2, SameHolders DEF Inv, Join
<1> QED
  BY <1>1, <1>2, <1>3, <1>4, <1>5, <1>6, <1>7 DEF ListenerStep

(* The steps of a connection's task keep it. *)
LEMMA ConnKeeps ==
  ASSUME Inv, NEW c \in Conns, ConnStep(c)
  PROVE  Inv'
<1>1. CASE TlsReady(c) \/ Request(c) \/ Respond(c)
  BY <1>1, MoveKeeps DEF TlsReady, Request, Respond, Running
<1>2. CASE TlsFails(c) \/ Close(c) \/ LastResponse(c)
  BY <1>2, EndKeeps DEF TlsFails, Close, LastResponse, Running
<1>3. CASE Graceful(c)
  BY <1>3, EndKeeps, MoveKeeps DEF Graceful, Running
<1>4. ASSUME NEW i \in IPs, Violate(c, i)
      PROVE  Inv'
  <2>1. TypeOK' /\ Custody' /\ Queue' /\ Open'
    BY <1>4 DEF Inv, TypeOK, Custody, Queue, Open, InHand, Violate, semaphore
  <2>2. Granted' = Granted /\ Served' = Served /\ permits' = permits
    BY <1>4 DEF Granted, Served, Violate, semaphore
  <2> QED
    BY <2>1, <2>2, SameHolders DEF Inv
<1> QED
  BY <1>1, <1>2, <1>3, <1>4 DEF ConnStep

(* Clients, expiring bans and main keep it, and so does stuttering. *)
LEMMA OthersKeep ==
  ASSUME Inv,
         \/ \E c \in Conns, l \in Listeners : Connect(c, l)
         \/ \E i \in IPs : BanExpires(i)
         \/ CtrlC \/ Stop \/ UNCHANGED vars
  PROVE  Inv'
<1> USE DEF semaphore
<1>1. ASSUME NEW c \in Conns, NEW l \in Listeners, Connect(c, l)
      PROVE  Inv'
  <2>1. TypeOK' /\ Custody' /\ Queue' /\ Open'
    BY <1>1 DEF Inv, TypeOK, Custody, Queue, Open, InHand, Connect, Become
  <2>2. Granted' = Granted /\ Served' = Served /\ permits' = permits
    BY <1>1 DEF Inv, TypeOK, Granted, Served, Running, Connect, Become
  <2> QED
    BY <2>1, <2>2, SameHolders DEF Inv
<1>2. CASE (\E i \in IPs : BanExpires(i)) \/ CtrlC \/ Stop \/ UNCHANGED vars
  <2>a. token' \in BOOLEAN
    BY <1>2, Zenon DEF Inv, TypeOK, BanExpires, CtrlC, Stop, vars
  <2>b. TypeOK'
    BY <1>2, <2>a DEF Inv, TypeOK, BanExpires, CtrlC, Stop, vars
  <2>1. TypeOK' /\ Custody' /\ Queue' /\ Open'
    BY <1>2, <2>b DEF Inv, Custody, Queue, Open, InHand, BanExpires, CtrlC, Stop, vars
  <2>2. Granted' = Granted /\ Served' = Served /\ permits' = permits
    BY <1>2 DEF Granted, Served, BanExpires, CtrlC, Stop, vars
  <2> QED
    BY <2>1, <2>2, SameHolders DEF Inv
<1> QED
  BY <1>1, <1>2

(* Inv is an inductive invariant of the accept loops and the shutdown. *)
LEMMA Invariance == Spec => []Inv
<1>1. Inv /\ [Next]_vars => Inv'
  BY ListenerKeeps, ConnKeeps, OthersKeep DEF Next
<1> QED
  BY InitInv, <1>1, PTL DEF Spec

-----------------------------------------------------------------------------
(***************************************************************************)
(* Every variable keeps its type: server.rs and main.rs never leave the     *)
(* states the model names.                                                  *)
(***************************************************************************)
THEOREM ServerTypeCorrect == Spec => []TypeOK
BY Invariance, PTL DEF Inv

(***************************************************************************)
(* No permit of the connection semaphore is lost or doubled (server.rs:     *)
(* acquire_owned and the _permit of each connection task).                  *)
(***************************************************************************)
THEOREM PermitAccounting == Spec => []PermitsAccounted
BY Invariance, PTL DEF Inv

(***************************************************************************)
(* max_connections bounds the connections served at a time.                 *)
(***************************************************************************)
THEOREM ConnectionLimit == Spec => [](Cardinality(Served) <= MaxConnections)
<1>1. Inv => Cardinality(Served) <= MaxConnections
  BY FiniteHolders, ServerAssumption DEF Inv, TypeOK, PermitsAccounted
<1> QED
  BY Invariance, <1>1, PTL

(***************************************************************************)
(* Shutdown leaves no connection behind (server.rs: the join_next loops;    *)
(* main.rs: step 12).                                                       *)
(***************************************************************************)
THEOREM ShutdownClean == Spec => []NobodyCutOff
<1>1. Inv => NobodyCutOff
  BY DEF Inv, TypeOK, Open, NobodyCutOff
<1> QED
  BY Invariance, <1>1, PTL
=============================================================================
