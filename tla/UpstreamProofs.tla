---------------------------- MODULE UpstreamProofs ----------------------------
(***************************************************************************)
(* What select_upstream guarantees, for every route, any number of handlers *)
(* and any counter that satisfies CounterAssumption.                        *)
(*                                                                          *)
(* NoneOnlyIfNoneSteady needs to know what a search has ruled out: none of  *)
(* the positions it has passed holds an upstream that was marked healthy    *)
(* all the time (Passed).  The positions of a whole search are all there    *)
(* are (Covers), provided the wrap of the counter does not shift them       *)
(* (Wrapped).                                                               *)
(*                                                                          *)
(* EvenShares needs a count of the calls under way too: what a position has *)
(* answered and the calls heading for it are, together, the rounds the      *)
(* counter has made, and one more at the positions it has already passed in *)
(* this round (Even).                                                       *)
(***************************************************************************)
EXTENDS Upstream, FiniteSetTheorems, NaturalsInduction, TLAPS

-----------------------------------------------------------------------------
(* Division with remainder. *)
LEMMA Euclid ==
  ASSUME NEW a \in Int, NEW n \in Nat \ {0}
  PROVE  a \div n \in Int /\ a % n \in 0..(n - 1) /\ a = n * (a \div n) + (a % n)
OBVIOUS

(* The remainder is the only one. *)
LEMMA RemainderIs ==
  ASSUME NEW n \in Nat \ {0}, NEW b \in Int, NEW c \in 0..(n - 1), NEW a \in Int, a = n * b + c
  PROVE  a % n = c
<1> DEFINE d == a \div n
           r == a % n
<1>1. d \in Int /\ r \in 0..(n - 1) /\ a = n * d + r
  BY Euclid
<1> HIDE DEF d, r
<1>2. n * (d - b) = c - r
  BY <1>1
<1>3. ASSUME NEW x \in Int, x >= 1 PROVE n * x >= n
  BY <1>3
<1>4. ASSUME NEW x \in Int, x <= -1 PROVE n * x <= -n
  BY <1>4
<1>5. d - b = 0
  BY <1>1, <1>2, <1>3, <1>4
<1>6. n * 0 = 0
  OBVIOUS
<1>7. c = r
  BY <1>1, <1>2, <1>5, <1>6
<1> QED
  BY <1>7 DEF r

(* The next position is one further, or the first. *)
LEMMA NextRemainder ==
  ASSUME NEW a \in Nat, NEW n \in Nat \ {0}
  PROVE  (a + 1) % n = IF a % n = n - 1 THEN 0 ELSE (a % n) + 1
<1> DEFINE d == a \div n
           r == a % n
<1>1. d \in Int /\ r \in 0..(n - 1) /\ a = n * d + r
  BY Euclid
<1> HIDE DEF d, r
<1>2. CASE r = n - 1
  <2>1. a + 1 = n * (d + 1) + 0 /\ d + 1 \in Int /\ 0 \in 0..(n - 1)
    BY <1>1, <1>2
  <2>2. (a + 1) % n = 0
    BY <2>1, RemainderIs
  <2> QED
    BY <1>2, <2>2 DEF r
<1>3. CASE r # n - 1
  <2>1. a + 1 = n * d + (r + 1) /\ r + 1 \in 0..(n - 1)
    BY <1>1, <1>3
  <2>2. (a + 1) % n = r + 1
    BY <1>1, <2>1, RemainderIs
  <2> QED
    BY <1>3, <2>2 DEF r
<1> QED
  BY <1>2, <1>3

(* n steps from anywhere lead to every position. *)
LEMMA Covers ==
  ASSUME NEW s \in Nat, NEW n \in Nat \ {0}, NEW c \in 0..(n - 1)
  PROVE  \E j \in 0..(n - 1) : (s + j) % n = c
<1> DEFINE d == s \div n
           r == s % n
<1>1. d \in Int /\ r \in 0..(n - 1) /\ s = n * d + r
  BY Euclid
<1> HIDE DEF d, r
<1>2. CASE c >= r
  <2>1. c - r \in 0..(n - 1) /\ s + (c - r) = n * d + c
    BY <1>1, <1>2
  <2>2. (s + (c - r)) % n = c
    BY <1>1, <2>1, RemainderIs
  <2> QED
    BY <2>1, <2>2
<1>3. CASE c < r
  <2>1. (c - r) + n \in 0..(n - 1) /\ s + ((c - r) + n) = n * (d + 1) + c /\ d + 1 \in Int
    BY <1>1, <1>3
  <2>2. (s + ((c - r) + n)) % n = c
    BY <1>1, <2>1, RemainderIs
  <2> QED
    BY <2>1, <2>2
<1> QED
  BY <1>1, <1>2, <1>3

(* Wrapping around at w does not shift the positions if n divides w. *)
LEMMA Wrapped ==
  ASSUME NEW n \in Nat \ {0}, NEW w \in Nat \ {0}, NEW a \in Nat,
         a < w \/ (w % n = 0 /\ a < w + w)
  PROVE  (a % w) % n = a % n
<1>1. CASE a < w
  <2>1. a = w * 0 + a /\ a \in 0..(w - 1)
    BY <1>1
  <2>2. a % w = a
    BY <2>1, RemainderIs
  <2> QED
    BY <2>2
<1>2. CASE a >= w
  <2>1. a = w * 1 + (a - w) /\ a - w \in 0..(w - 1) /\ w % n = 0
    BY <1>2
  <2>2. a % w = a - w
    BY <2>1, RemainderIs
  <2> DEFINE d == a \div n
             r == a % n
             q == w \div n
  <2>3. d \in Int /\ r \in 0..(n - 1) /\ a = n * d + r
    BY Euclid
  <2>4. q \in Int /\ w = n * q
    BY <2>1, Euclid
  <2> DEFINE b == d - q
             e == a - w
  <2> HIDE DEF d, r, q
  <2>5. e = n * b + r /\ b \in Int /\ e \in Int
    BY <2>3, <2>4
  <2> HIDE DEF b, e
  <2>6. e % n = r
    BY <2>3, <2>5, RemainderIs
  <2> QED
    BY <2>2, <2>6 DEF r, e
<1> QED
  BY <1>1, <1>2

-----------------------------------------------------------------------------
(* The constants. *)
LEMMA Constants ==
  /\ Len(Route) \in Nat \ {0} /\ CounterMod \in Nat \ {0} /\ CounterMod >= Len(Route)
  /\ MaxCalls \in Nat
  /\ \A m \in Slots : Route[m] \in Addrs
  /\ \A a \in Addrs : \E m \in Slots : Route[m] = a
<1>1. Len(Route) \in Nat \ {0} /\ DOMAIN Route = 1..Len(Route)
  BY UpstreamAssumption
<1> QED
  BY <1>1, UpstreamAssumption DEF Addrs, Slots, Range

(* A set of numbers that is not empty has a first. *)
LEMMA Least ==
  ASSUME NEW S \in SUBSET Nat, S # {}
  PROVE  \E m \in S : \A y \in S : m <= y
<1> DEFINE R == {ss \in Nat \X Nat : ss[1] < ss[2]}
<1>1. IsWellFoundedOn(R, Nat)
  BY NatLessThanWellFounded DEF OpToRel
<1>2. PICK m \in S : \A y \in S : <<y, m>> \notin R
  BY <1>1, WFMin
<1>3. ASSUME NEW y \in S, y < m PROVE FALSE
  <2>1. <<y, m>> \in Nat \X Nat /\ <<y, m>>[1] < <<y, m>>[2]
    BY <1>3
  <2> QED
    BY <1>2, <2>1, Zenon
<1> QED
  BY <1>2, <1>3

(* The list the checker works through is a list of upstreams. *)
LEMMA UpstreamsType == Upstreams \in Seq(Addrs)
<1> DEFINE L == Len(Route)
           New(n) == \A j \in 1..(n - 1) : Route[j] # Route[n]
           Step(g, n) == IF n = 0 THEN <<>>
                         ELSE IF New(n) THEN Append(g[n - 1], Route[n])
                         ELSE g[n - 1]
           Partly(m) == \E g \in [0..m -> Seq(Addrs)] : \A n \in 0..m : g[n] = Step(g, n)
<1>1. L \in Nat /\ \A n \in 1..L : Route[n] \in Addrs
  BY Constants DEF Slots
<1>2. Partly(0)
  <2> DEFINE g == [n \in 0..0 |-> <<>>]
  <2>1. <<>> \in Seq(Addrs) /\ \A n \in 0..0 : n = 0
    OBVIOUS
  <2>2. g \in [0..0 -> Seq(Addrs)] /\ \A n \in 0..0 : g[n] = <<>>
    BY <2>1
  <2> QED
    BY <2>1, <2>2
<1>3. ASSUME NEW m \in 1..L, Partly(m - 1)
      PROVE  Partly(m)
  <2>0. m - 1 \in Nat /\ m \in Nat
    BY <1>1
  <2>1. PICK g \in [0..(m - 1) -> Seq(Addrs)] : \A n \in 0..(m - 1) : g[n] = Step(g, n)
    BY <1>3
  <2> DEFINE h == [n \in 0..m |-> IF n = m THEN Step(g, m) ELSE g[n]]
  <2>2. Step(g, m) \in Seq(Addrs)
    <3>1. g[m - 1] \in Seq(Addrs) /\ Route[m] \in Addrs /\ m # 0
      BY <1>1, <2>0
    <3>2. Append(g[m - 1], Route[m]) \in Seq(Addrs)
      BY <3>1
    <3> QED
      BY <3>1, <3>2
  <2>3. h \in [0..m -> Seq(Addrs)]
    BY <2>0, <2>2
  <2>4. \A n \in 0..m : n = m \/ n \in 0..(m - 1)
    BY <2>0
  <2>5. h[m] = Step(g, m) /\ \A n \in 0..(m - 1) : h[n] = g[n]
    BY <2>0
  <2> HIDE DEF New, h
  <2>6. \A n \in 0..m : h[n] = Step(h, n)
    <3> SUFFICES ASSUME NEW n \in 0..m PROVE h[n] = Step(h, n)
      OBVIOUS
    <3>1. n # 0 => h[n - 1] = g[n - 1]
      BY <2>0, <2>5
    <3>2. Step(h, n) = Step(g, n)
      BY <3>1
    <3> QED
      BY <2>1, <2>4, <2>5, <3>2
  <2> QED
    BY <2>3, <2>6
<1> HIDE DEF New, Step, Partly
<1>4. \A m \in 0..L : Partly(m)
  <2> DEFINE Bad == {m \in 0..L : ~Partly(m)}
  <2>0. Bad \in SUBSET Nat /\ Bad \subseteq 0..L
    BY <1>1
  <2>1. CASE Bad # {}
    <3>1. PICK m \in Bad : \A y \in Bad : m <= y
      <4> HIDE DEF Bad
      <4> QED
        BY <2>0, <2>1, Least
    <3>2. m # 0 /\ m \in 1..L
      <4>1. m # 0
        BY <1>2
      <4> QED
        BY <1>1, <2>0, <4>1
    <3>3. m - 1 \in 0..L /\ ~(m <= m - 1)
      BY <1>1, <3>2
    <3>4. Partly(m - 1)
      BY <3>1, <3>3
    <3> QED
      BY <1>3, <3>1, <3>2, <3>4
  <2> QED
    BY <2>1
<1>5. Unique = [n \in 0..L |-> Step(Unique, n)]
  <2>0. Partly(L)
    <3>1. L \in 0..L
      BY <1>1
    <3> QED
      BY <1>4, <3>1
  <2>1. PICK g \in [0..L -> Seq(Addrs)] : \A n \in 0..L : g[n] = Step(g, n)
    BY <2>0 DEF Partly
  <2>2. g = [n \in 0..L |-> Step(g, n)]
    BY <2>1
  <2> QED
    BY <2>2 DEF Unique, Step, New
<1>6. ASSUME NEW n \in 0..L
      PROVE  Unique[n] = Step(Unique, n)
  BY <1>5
<1>7. \A m \in 0..L : Unique[m] \in Seq(Addrs)
  <2> DEFINE Bad == {m \in 0..L : Unique[m] \notin Seq(Addrs)}
  <2>0. Bad \in SUBSET Nat
    BY <1>1
  <2>1. CASE Bad # {}
    <3>1. PICK m \in Bad : \A y \in Bad : m <= y
      <4> HIDE DEF Bad
      <4> QED
        BY <2>0, <2>1, Least
    <3>2. m \in 0..L /\ Unique[m] = Step(Unique, m)
      BY <1>6
    <3>3. m # 0
      <4>1. Step(Unique, 0) = <<>> /\ <<>> \in Seq(Addrs)
        BY DEF Step
      <4> QED
        BY <3>2, <4>1
    <3>4. m - 1 \in 0..L /\ ~(m <= m - 1) /\ Route[m] \in Addrs
      BY <1>1, <3>2, <3>3
    <3>5. Unique[m - 1] \in Seq(Addrs)
      BY <3>1, <3>4
    <3>6. Append(Unique[m - 1], Route[m]) \in Seq(Addrs)
      BY <3>4, <3>5
    <3> QED
      BY <3>1, <3>2, <3>3, <3>5, <3>6 DEF Step
  <2> QED
    BY <2>1
<1> QED
  BY <1>1, <1>7 DEF Upstreams

-----------------------------------------------------------------------------
(* A probe that is over is that of the next upstream in the round. *)
Probing == probed # "none" => todo # <<>>

Typed == TypeOK /\ Probing

(* The upstreams the checker has still to visit. *)
LEMMA HeadTail ==
  ASSUME NEW S, NEW q \in Seq(S), q # <<>>
  PROVE  Head(q) \in S /\ Tail(q) \in Seq(S)
OBVIOUS

(* Where a handler looks: a position of the route, whatever the counter does. *)
LEMMA SlotType ==
  ASSUME TypeOK, NEW t \in Tasks
  PROVE  Slot(t) \in Slots /\ Route[Slot(t)] \in Addrs
<1>1. start[t] \in Nat /\ i[t] \in Nat
  BY Constants DEF TypeOK
<1> DEFINE a == (start[t] + i[t]) % CounterMod
<1>2. a \in Int
  BY <1>1, Constants
<1> HIDE DEF a
<1>3. a % Len(Route) \in 0..(Len(Route) - 1)
  BY <1>2, Constants, Euclid
<1>4. Slot(t) \in Slots
  BY <1>3, Constants DEF Slot, Slots, a
<1> QED
  BY <1>4, Constants

(* The checker's steps keep the types ... *)
LEMMA CheckerTyped ==
  ASSUME Typed, Checker
  PROVE  Typed'
<1>1. CASE RoundStart
  <2>1. /\ todo' = Upstreams
        /\ UNCHANGED <<up, statuses, probed, flawless, counter, pc, start, i, choice,
                       calls, picks, steady>>
    BY <1>1 DEF RoundStart, callVars
  <2>2. probed = "none"
    BY <1>1 DEF RoundStart, Typed, Probing
  <2> QED
    BY <2>1, <2>2, UpstreamsType DEF Typed, TypeOK, Probing
<1>2. CASE Probe
  <2>1. /\ todo # <<>> /\ probed' \in {"ok", "failed"}
        /\ UNCHANGED <<up, statuses, todo, flawless, counter, pc, start, i, choice,
                       calls, picks, steady>>
    BY <1>2 DEF Probe, callVars
  <2> QED
    BY <2>1 DEF Typed, TypeOK, Probing
<1>3. CASE Record
  <2> DEFINE a == Head(todo)
             ok == probed = "ok"
  <2>1. /\ statuses' = [b \in DOMAIN statuses \cup {a} |-> IF b = a THEN ok ELSE statuses[b]]
        /\ steady' = [t \in Tasks |-> IF ok THEN steady[t] ELSE steady[t] \ {a}]
        /\ flawless' = (flawless /\ ok)
        /\ todo' = Tail(todo) /\ probed' = "none" /\ probed # "none"
        /\ UNCHANGED <<up, counter, pc, start, i, choice, calls, picks>>
    BY <1>3 DEF Record, callVars
  <2>2. a \in Addrs /\ Tail(todo) \in Seq(Addrs)
    BY <2>1, HeadTail DEF Typed, TypeOK, Probing
  <2>3. ok \in BOOLEAN /\ flawless' \in BOOLEAN
    BY <2>1
  <2> HIDE DEF a, ok
  <2>4. DOMAIN statuses' \subseteq Addrs /\ statuses' \in [DOMAIN statuses' -> BOOLEAN]
    <3>1. DOMAIN statuses \subseteq Addrs /\ \A b \in DOMAIN statuses : statuses[b] \in BOOLEAN
      BY DEF Typed, TypeOK
    <3>2. DOMAIN statuses' = DOMAIN statuses \cup {a}
      BY <2>1
    <3>3. \A b \in DOMAIN statuses' :
            (IF b = a THEN ok ELSE statuses[b]) \in BOOLEAN
      BY <2>3, <3>1, <3>2
    <3> QED
      BY <2>1, <2>2, <3>1, <3>2, <3>3
  <2>5. steady' \in [Tasks -> SUBSET Addrs]
    BY <2>1 DEF Typed, TypeOK
  <2> QED
    BY <2>1, <2>2, <2>3, <2>4, <2>5 DEF Typed, TypeOK, Probing
<1> QED
  BY <1>1, <1>2, <1>3 DEF Checker

(* ... and so do those of a handler. *)
LEMMA SelectTyped ==
  ASSUME Typed, NEW t \in Tasks, SelectStart(t) \/ SelectLook(t) \/ SelectNone(t)
  PROVE  Typed'
<1>0. UNCHANGED <<up, statuses, todo, probed, flawless>>
  BY DEF SelectStart, SelectLook, SelectNone, checkerVars
<1>1. CASE SelectStart(t)
  <2>1. /\ pc' = [pc EXCEPT ![t] = "scan"]
        /\ start' = [start EXCEPT ![t] = counter]
        /\ counter' = (counter + 1) % CounterMod
        /\ i' = [i EXCEPT ![t] = 0]
        /\ steady' = [steady EXCEPT ![t] = {a \in Addrs : is_healthy(a)}]
        /\ calls' = calls + 1
        /\ UNCHANGED <<choice, picks>>
    BY <1>1 DEF SelectStart
  <2>2. counter' \in 0..(CounterMod - 1)
    <3>1. counter + 1 \in Int
      BY Constants DEF Typed, TypeOK
    <3> QED
      BY <2>1, <3>1, Constants, Euclid
  <2>3. 0 \in 0..Len(Route)
    BY Constants
  <2>4. start' \in [Tasks -> 0..(CounterMod - 1)] /\ i' \in [Tasks -> 0..Len(Route)]
    BY <2>1, <2>3 DEF Typed, TypeOK
  <2>5. pc' \in [Tasks -> {"idle", "scan"}] /\ steady' \in [Tasks -> SUBSET Addrs]
        /\ calls' \in Nat
    BY <2>1 DEF Typed, TypeOK
  <2> QED
    BY <1>0, <2>1, <2>2, <2>4, <2>5 DEF Typed, TypeOK, Probing
<1>2. CASE SelectLook(t)
  <2>0. Slot(t) \in Slots /\ Route[Slot(t)] \in Addrs /\ i[t] < Len(Route)
    BY <1>2, SlotType DEF Typed, SelectLook
  <2>1. /\ UNCHANGED <<counter, start, steady, calls>>
        /\ \/ /\ pc' = [pc EXCEPT ![t] = "idle"]
              /\ choice' = [choice EXCEPT ![t] = Route[Slot(t)]]
              /\ picks' = [picks EXCEPT ![Slot(t)] = @ + 1]
              /\ UNCHANGED i
           \/ i' = [i EXCEPT ![t] = @ + 1] /\ UNCHANGED <<pc, choice, picks>>
    BY <1>2 DEF SelectLook
  <2>2. picks' \in [Slots -> Nat] /\ choice' \in [Tasks -> Addrs \cup {NoUpstream}]
    <3>1. picks \in [Slots -> Nat] /\ choice \in [Tasks -> Addrs \cup {NoUpstream}]
      BY DEF Typed, TypeOK
    <3> DEFINE z == Slot(t)
               u == Route[Slot(t)]
    <3>2. /\ z \in Slots /\ u \in Addrs
          /\ \/ picks' = [picks EXCEPT ![z] = @ + 1] /\ choice' = [choice EXCEPT ![t] = u]
             \/ UNCHANGED <<picks, choice>>
      BY <2>0, <2>1
    <3> HIDE DEF z, u
    <3> QED
      BY <3>1, <3>2
  <2>3. pc' \in [Tasks -> {"idle", "scan"}]
    BY <2>1 DEF Typed, TypeOK
  <2>4. i' \in [Tasks -> 0..Len(Route)]
    <3>1. i[t] + 1 \in 0..Len(Route)
      BY <2>0, Constants DEF Typed, TypeOK
    <3> QED
      BY <2>1, <3>1 DEF Typed, TypeOK
  <2> QED
    BY <1>0, <2>1, <2>2, <2>3, <2>4 DEF Typed, TypeOK, Probing
<1>3. CASE SelectNone(t)
  <2>1. /\ pc' = [pc EXCEPT ![t] = "idle"]
        /\ choice' = [choice EXCEPT ![t] = NoUpstream]
        /\ UNCHANGED <<counter, start, i, steady, calls, picks>>
    BY <1>3 DEF SelectNone
  <2> QED
    BY <1>0, <2>1 DEF Typed, TypeOK, Probing
<1> QED
  BY <1>1, <1>2, <1>3

(* Every step of checker and handlers keeps the types. *)
LEMMA AlwaysTyped == Spec => []Typed
<1>1. Init => Typed
  <2> SUFFICES ASSUME Init PROVE Typed
    OBVIOUS
  <2>1. 0 \in 0..(CounterMod - 1) /\ 0 \in 0..Len(Route) /\ <<>> \in Seq(Addrs)
    BY Constants
  <2> QED
    BY <2>1 DEF Init, Typed, TypeOK, Probing
<1>2. Typed /\ [Next]_vars => Typed'
  <2> SUFFICES ASSUME Typed, [Next]_vars PROVE Typed'
    OBVIOUS
  <2>1. ASSUME NEW a \in Addrs, Flip(a) PROVE Typed'
    <3>1. /\ up' = [up EXCEPT ![a] = ~up[a]]
          /\ UNCHANGED <<statuses, todo, probed, flawless, counter, pc, start, i, choice,
                         calls, picks, steady>>
      BY <2>1 DEF Flip, checkerVars, callVars
    <3> QED
      BY <3>1 DEF Typed, TypeOK, Probing
  <2>2. CASE Checker
    BY <2>2, CheckerTyped
  <2>3. ASSUME NEW t \in Tasks, SelectStart(t) \/ SelectLook(t) \/ SelectNone(t)
        PROVE  Typed'
    BY <2>3, SelectTyped
  <2>4. CASE UNCHANGED vars
    BY <2>4 DEF vars, Typed, TypeOK, Probing
  <2> QED
    BY <2>1, <2>2, <2>3, <2>4 DEF Next
<1> QED
  BY <1>1, <1>2, PTL DEF Spec

(***************************************************************************)
(* The checker and the handlers keep their state well formed: no probe      *)
(* without an upstream, no position outside the route (health.rs,           *)
(* proxy.rs: select_upstream).                                              *)
(***************************************************************************)
THEOREM UpstreamTypeCorrect == Spec => []TypeOK
BY AlwaysTyped, PTL DEF Typed

-----------------------------------------------------------------------------
(* The position j steps on from s. *)
Position(s, j) == ((s + j) % Len(Route)) + 1

(* Steady upstreams are marked healthy now. *)
SteadyHealthy == \A t \in Tasks : \A a \in steady[t] : is_healthy(a)

(* The counter is not ahead of the calls, and a search starts behind it. *)
Counted ==
  /\ counter <= calls /\ calls <= MaxCalls
  /\ \A t \in Tasks : pc[t] = "scan" => start[t] < calls

(* No position a search has passed holds a steady upstream. *)
Passed ==
  \A t \in Tasks : pc[t] = "scan" =>
    \A j \in 0..(i[t] - 1) : Route[Position(start[t], j)] \notin steady[t]

Search == SteadyHealthy /\ Counted /\ Passed

(* Where a handler looks next. *)
LEMMA SlotIs ==
  ASSUME Typed, Counted, NEW t \in Tasks, pc[t] = "scan", i[t] < Len(Route)
  PROVE  Slot(t) = Position(start[t], i[t])
<1> DEFINE a == start[t] + i[t]
<1>1. /\ start[t] \in 0..(CounterMod - 1) /\ i[t] \in 0..Len(Route) /\ calls \in Nat
      /\ start[t] < calls /\ calls <= MaxCalls
  BY DEF Typed, TypeOK, Counted
<1>2. a \in Nat /\ (a < CounterMod \/ (CounterMod % Len(Route) = 0 /\ a < CounterMod + CounterMod))
  BY <1>1, Constants, CounterAssumption
<1> HIDE DEF a
<1>3. (a % CounterMod) % Len(Route) = a % Len(Route)
  BY <1>2, Constants, Wrapped
<1> QED
  BY <1>3 DEF Slot, Position, a

(* Where the counter is after a call. *)
LEMMA CounterIs ==
  ASSUME Typed, Counted, calls < MaxCalls
  PROVE  /\ ((counter + 1) % CounterMod) % Len(Route) = (counter + 1) % Len(Route)
         /\ (counter + 1) % CounterMod <= calls + 1
<1> DEFINE a == counter + 1
<1>1. counter \in 0..(CounterMod - 1) /\ calls \in Nat /\ counter <= calls
  BY DEF Typed, TypeOK, Counted
<1>2. a \in Nat /\ (a < CounterMod \/ (CounterMod % Len(Route) = 0 /\ a < CounterMod + CounterMod))
  BY <1>1, Constants, CounterAssumption
<1>3. a <= CounterMod /\ a <= calls + 1
  BY <1>1, Constants
<1> HIDE DEF a
<1>4. (a % CounterMod) % Len(Route) = a % Len(Route)
  BY <1>2, Constants, Wrapped
<1>5. a % CounterMod <= a
  <2>1. CASE a < CounterMod
    <3>1. a = CounterMod * 0 + a /\ a \in 0..(CounterMod - 1)
      BY <1>2, <2>1, Constants
    <3> QED
      BY <1>2, <3>1, Constants, RemainderIs
  <2>2. CASE a = CounterMod
    <3>1. a = CounterMod * 1 + 0 /\ 0 \in 0..(CounterMod - 1)
      BY <2>2, Constants
    <3>2. a % CounterMod = 0
      BY <1>2, <3>1, Constants, RemainderIs
    <3> QED
      BY <1>2, <3>2
  <2> QED
    BY <1>2, <1>3, <2>1, <2>2, Constants
<1>6. a % CounterMod \in Int
  BY <1>2, Constants
<1> QED
  BY <1>1, <1>2, <1>3, <1>4, <1>5, <1>6 DEF a

(* The checker takes away, it never adds to what was healthy all the time. *)
LEMMA RecordSearch ==
  ASSUME Typed, Search, Record
  PROVE  Search'
<1> DEFINE a == Head(todo)
           ok == probed = "ok"
<1>1. /\ statuses' = [b \in DOMAIN statuses \cup {a} |-> IF b = a THEN ok ELSE statuses[b]]
      /\ steady' = [t \in Tasks |-> IF ok THEN steady[t] ELSE steady[t] \ {a}]
      /\ UNCHANGED <<counter, pc, start, i, calls>>
  BY DEF Record, callVars
<1> HIDE DEF a, ok
<1>2. \A t \in Tasks : steady'[t] \subseteq steady[t] /\ (~ok => a \notin steady'[t])
  BY <1>1
<1>3. SteadyHealthy'
  <2> SUFFICES ASSUME NEW t \in Tasks, NEW b \in steady'[t], b \in DOMAIN statuses'
               PROVE  statuses'[b]
    BY DEF SteadyHealthy, is_healthy
  <2>1. CASE b = a
    <3>1. ok
      BY <1>2, <2>1
    <3>2. statuses'[b] = ok
      BY <1>1, <2>1
    <3> QED
      BY <3>1, <3>2
  <2>2. CASE b # a
    <3>1. b \in DOMAIN statuses /\ statuses'[b] = statuses[b]
      BY <1>1, <2>2
    <3>2. statuses[b]
      BY <1>2, <3>1 DEF Search, SteadyHealthy, is_healthy
    <3> QED
      BY <3>1, <3>2
  <2> QED
    BY <2>1, <2>2
<1>4. Counted'
  BY <1>1 DEF Search, Counted
<1>5. Passed'
  BY <1>1, <1>2 DEF Search, Passed
<1> QED
  BY <1>3, <1>4, <1>5 DEF Search

(* A search rules out one position after the other. *)
LEMMA SelectSearch ==
  ASSUME Typed, Search, NEW t \in Tasks, SelectStart(t) \/ SelectLook(t) \/ SelectNone(t)
  PROVE  Search'
<1>0. UNCHANGED statuses
  BY DEF SelectStart, SelectLook, SelectNone, checkerVars
<1>1. CASE SelectStart(t)
  <2>1. /\ pc' = [pc EXCEPT ![t] = "scan"]
        /\ start' = [start EXCEPT ![t] = counter]
        /\ counter' = (counter + 1) % CounterMod
        /\ i' = [i EXCEPT ![t] = 0]
        /\ steady' = [steady EXCEPT ![t] = {a \in Addrs : is_healthy(a)}]
        /\ calls' = calls + 1 /\ calls < MaxCalls
    BY <1>1 DEF SelectStart
  <2>2. /\ start'[t] = counter /\ i'[t] = 0 /\ steady'[t] = {a \in Addrs : is_healthy(a)}
        /\ \A u \in Tasks : u # t => /\ pc'[u] = pc[u] /\ start'[u] = start[u]
                                     /\ i'[u] = i[u] /\ steady'[u] = steady[u]
    <3>1. t \in DOMAIN pc /\ DOMAIN pc = Tasks /\ DOMAIN start = Tasks
          /\ DOMAIN i = Tasks /\ DOMAIN steady = Tasks
      BY DEF Typed, TypeOK
    <3>2. start'[t] = counter /\ i'[t] = 0 /\ steady'[t] = {a \in Addrs : is_healthy(a)}
      BY ONLY <2>1, <3>1
    <3>3. ASSUME NEW u \in Tasks, u # t
          PROVE  /\ pc'[u] = pc[u] /\ start'[u] = start[u]
                 /\ i'[u] = i[u] /\ steady'[u] = steady[u]
      BY ONLY <2>1, <3>1, <3>3
    <3> QED
      BY <3>2, <3>3
  <2>3. SteadyHealthy'
    BY <1>0, <2>2 DEF Search, SteadyHealthy, is_healthy
  <2>4. Counted'
    <3>1. counter' <= calls + 1 /\ calls + 1 <= MaxCalls /\ counter < calls + 1
      BY <2>1, CounterIs, Constants DEF Search, Counted, Typed, TypeOK
    <3>2. \A u \in Tasks : start[u] \in Nat /\ calls \in Nat
      BY Constants DEF Typed, TypeOK
    <3>3. \A u \in Tasks : pc'[u] = "scan" => start'[u] < calls + 1
      BY <2>2, <3>1, <3>2 DEF Search, Counted
    <3> QED
      BY <2>1, <3>1, <3>3 DEF Counted
  <2>5. Passed'
    <3> SUFFICES ASSUME NEW u \in Tasks, pc'[u] = "scan", NEW j \in 0..(i'[u] - 1)
                 PROVE  Route[Position(start'[u], j)] \notin steady'[u]
      BY DEF Passed
    <3>1. u # t
      BY <2>2
    <3> QED
      BY <2>2, <3>1 DEF Search, Passed
  <2> QED
    BY <2>3, <2>4, <2>5 DEF Search
<1>2. CASE SelectLook(t)
  <2>1. /\ pc[t] = "scan" /\ i[t] < Len(Route)
        /\ UNCHANGED <<counter, start, steady, calls>>
        /\ \/ pc' = [pc EXCEPT ![t] = "idle"] /\ UNCHANGED i
           \/ /\ ~is_healthy(Route[Slot(t)])
              /\ i' = [i EXCEPT ![t] = @ + 1] /\ UNCHANGED pc
    BY <1>2 DEF SelectLook
  <2>2. \A u \in Tasks : pc'[u] = "scan" => pc[u] = "scan"
    BY <2>1 DEF Typed, TypeOK
  <2>3. SteadyHealthy' /\ Counted'
    BY <1>0, <2>1, <2>2 DEF Search, SteadyHealthy, is_healthy, Counted
  <2>4. Passed'
    <3> SUFFICES ASSUME NEW u \in Tasks, pc'[u] = "scan", NEW j \in 0..(i'[u] - 1)
                 PROVE  Route[Position(start[u], j)] \notin steady[u]
      BY <2>1 DEF Passed
    <3>1. CASE i'[u] = i[u]
      BY <2>2, <3>1 DEF Search, Passed
    <3>2. CASE i'[u] # i[u]
      <4>1. u = t /\ i'[t] = i[t] + 1 /\ i[t] \in Nat /\ ~is_healthy(Route[Slot(t)])
        BY <2>1, <3>2, Constants DEF Typed, TypeOK
      <4>2. j \in 0..(i[t] - 1) \/ j = i[t]
        BY <4>1
      <4>3. CASE j = i[t]
        <5>1. Slot(t) = Position(start[t], j)
          BY <2>1, <4>3, SlotIs DEF Search
        <5> QED
          BY <4>1, <5>1 DEF Search, SteadyHealthy
      <4>4. CASE j \in 0..(i[t] - 1)
        BY <2>1, <4>1, <4>4 DEF Search, Passed
      <4> QED
        BY <4>2, <4>3, <4>4
    <3> QED
      BY <3>1, <3>2
  <2> QED
    BY <2>3, <2>4 DEF Search
<1>3. CASE SelectNone(t)
  <2>1. /\ pc' = [pc EXCEPT ![t] = "idle"]
        /\ UNCHANGED <<counter, start, i, steady, calls>>
    BY <1>3 DEF SelectNone
  <2>2. \A u \in Tasks : pc'[u] = "scan" => pc[u] = "scan"
    BY <2>1 DEF Typed, TypeOK
  <2> QED
    BY <1>0, <2>1, <2>2 DEF Search, SteadyHealthy, is_healthy, Counted, Passed
<1> QED
  BY <1>1, <1>2, <1>3

(* Every step keeps what the searches have ruled out. *)
LEMMA AlwaysSearch == Spec => []Search
<1>1. Init => Search
  BY Constants DEF Init, Search, SteadyHealthy, Counted, Passed
<1>2. Typed /\ Search /\ [Next]_vars => Search'
  <2> SUFFICES ASSUME Typed, Search, [Next]_vars PROVE Search'
    OBVIOUS
  <2>1. ASSUME UNCHANGED <<statuses, counter, pc, start, i, calls, steady>>
        PROVE  Search'
    BY <2>1 DEF Search, SteadyHealthy, is_healthy, Counted, Passed
  <2>2. ASSUME NEW a \in Addrs, Flip(a) PROVE Search'
    BY <2>1, <2>2 DEF Flip, checkerVars, callVars
  <2>3. CASE RoundStart \/ Probe
    BY <2>1, <2>3 DEF RoundStart, Probe, callVars
  <2>4. CASE Record
    BY <2>4, RecordSearch
  <2>5. ASSUME NEW t \in Tasks, SelectStart(t) \/ SelectLook(t) \/ SelectNone(t)
        PROVE  Search'
    BY <2>5, SelectSearch
  <2>6. CASE UNCHANGED vars
    BY <2>1, <2>6 DEF vars
  <2> QED
    BY <2>2, <2>3, <2>4, <2>5, <2>6 DEF Next, Checker
<1> QED
  BY <1>1, <1>2, AlwaysTyped, PTL DEF Spec

(***************************************************************************)
(* No handler answers 502 while an upstream has been marked healthy all     *)
(* through its search, although it reads the statuses one at a time         *)
(* (proxy.rs: select_upstream).                                             *)
(***************************************************************************)
THEOREM NoneJustified == Spec => NoneOnlyIfNoneSteady
<1> DEFINE Justified ==
             \A t \in Tasks :
               pc[t] = "scan" /\ pc'[t] = "idle" /\ choice'[t] = NoUpstream => steady[t] = {}
<1>1. Typed /\ Search /\ [Next]_vars => [Justified]_vars
  <2> SUFFICES ASSUME Typed, Search, Next, NEW t \in Tasks,
                      pc[t] = "scan", pc'[t] = "idle", choice'[t] = NoUpstream
               PROVE  steady[t] = {}
    OBVIOUS
  <2>1. pc \in [Tasks -> {"idle", "scan"}] /\ choice \in [Tasks -> Addrs \cup {NoUpstream}]
    BY DEF Typed, TypeOK
  <2>2. ASSUME NEW u \in Tasks, SelectStart(u) PROVE FALSE
    BY <2>1, <2>2 DEF SelectStart
  <2>3. ASSUME NEW u \in Tasks, SelectLook(u) PROVE FALSE
    <3>1. /\ pc' = [pc EXCEPT ![u] = "idle"] \/ UNCHANGED pc
          /\ UNCHANGED pc \/ choice' = [choice EXCEPT ![u] = Route[Slot(u)]]
      BY <2>3 DEF SelectLook
    <3>2. u = t /\ choice'[t] = Route[Slot(t)]
      BY <2>1, <3>1
    <3>3. Route[Slot(t)] \in Addrs
      BY SlotType DEF Typed
    <3> QED
      BY <3>2, <3>3, UpstreamAssumption
  <2>4. ASSUME NEW u \in Tasks, SelectNone(u) PROVE u = t
    BY <2>1, <2>4 DEF SelectNone
  <2>5. (\E a \in Addrs : Flip(a)) \/ Checker => pc' = pc
    BY DEF Flip, Checker, RoundStart, Probe, Record, callVars
  <2>6. SelectNone(t)
    BY <2>2, <2>3, <2>4, <2>5 DEF Next
  <2>7. i[t] = Len(Route) /\ start[t] \in Nat
    BY <2>6, Constants DEF SelectNone, Typed, TypeOK
  <2>8. ASSUME NEW a \in steady[t] PROVE FALSE
    <3>1. a \in Addrs
      BY DEF Typed, TypeOK
    <3>2. PICK m \in Slots : Route[m] = a
      BY <3>1, Constants
    <3>3. m - 1 \in 0..(Len(Route) - 1) /\ (m - 1) + 1 = m
      BY Constants DEF Slots
    <3>4. PICK j \in 0..(Len(Route) - 1) : (start[t] + j) % Len(Route) = m - 1
      BY <2>7, <3>3, Constants, Covers
    <3>5. Position(start[t], j) = m
      BY <3>3, <3>4 DEF Position
    <3> QED
      BY <2>7, <3>2, <3>5 DEF Search, Passed
  <2> QED
    BY <2>8
<1>2. Spec => [][Justified]_vars
  BY <1>1, AlwaysTyped, AlwaysSearch, PTL DEF Spec
<1> QED
  BY <1>2 DEF NoneOnlyIfNoneSteady

-----------------------------------------------------------------------------
(* The calls that will look at position m first. *)
Heading(m) == {t \in Tasks : pc[t] = "scan" /\ Position(start[t], 0) = m}

(* One more for the positions before c in the current round. *)
Extra(m, c) == IF m <= c % Len(Route) THEN 1 ELSE 0

Even ==
  \E q \in Nat : \A m \in Slots :
    picks[m] + Cardinality(Heading(m)) = q + Extra(m, counter)

(* As long as all is well, every call is answered at its first position. *)
Untroubled ==
  /\ \A a \in DOMAIN statuses : statuses[a]
  /\ \A t \in Tasks : pc[t] = "scan" => i[t] = 0

Balanced == flawless => Untroubled /\ Even

(* The number of calls heading for a position. *)
LEMMA HeadingFinite ==
  ASSUME NEW m
  PROVE  /\ IsFiniteSet(Heading(m)) /\ Cardinality(Heading(m)) \in Nat
         /\ IsFiniteSet({t \in Tasks : pc[t] = "scan"})
         /\ Cardinality({t \in Tasks : pc[t] = "scan"}) \in Nat
         /\ Cardinality(Heading(m)) <= Cardinality({t \in Tasks : pc[t] = "scan"})
<1> DEFINE S == {t \in Tasks : pc[t] = "scan"}
<1>1. IsFiniteSet(Tasks) /\ S \in SUBSET Tasks
  BY UpstreamAssumption
<1>2. IsFiniteSet(S)
  BY <1>1, FS_Subset
<1>3. Heading(m) \in SUBSET S
  BY DEF Heading
<1> HIDE DEF S
<1>4. IsFiniteSet(Heading(m)) /\ Cardinality(Heading(m)) <= Cardinality(S)
  BY <1>2, <1>3, FS_Subset
<1>5. Cardinality(Heading(m)) \in Nat /\ Cardinality(S) \in Nat
  BY <1>2, <1>4, FS_CardinalityType
<1> QED
  BY <1>2, <1>4, <1>5 DEF S

(* A call that begins heads for the counter's position, and the counter moves on. *)
LEMMA StartEven ==
  ASSUME Typed, Search, Even, NEW t \in Tasks, SelectStart(t)
  PROVE  Even'
<1> DEFINE z == Position(counter, 0)
           n == Len(Route)
           c == counter % n
<1>1. /\ pc[t] = "idle" /\ pc' = [pc EXCEPT ![t] = "scan"]
      /\ start' = [start EXCEPT ![t] = counter]
      /\ counter' = (counter + 1) % CounterMod /\ calls < MaxCalls
      /\ picks' = picks
  BY DEF SelectStart
<1>2. /\ pc'[t] = "scan" /\ start'[t] = counter
      /\ \A u \in Tasks : u # t => pc'[u] = pc[u] /\ start'[u] = start[u]
  BY <1>1 DEF Typed, TypeOK
<1>3. counter \in Nat /\ n \in Nat \ {0} /\ c \in 0..(n - 1) /\ z = c + 1
  <2>1. counter \in Nat /\ n \in Nat \ {0} /\ counter + 0 = counter
    BY Constants DEF Typed, TypeOK
  <2>2. c \in 0..(n - 1)
    <3>1. counter \in Int
      BY <2>1
    <3> HIDE DEF n
    <3> QED
      BY <2>1, <3>1, Euclid
  <2> QED
    BY <2>1, <2>2 DEF Position
<1>4. counter' % n = IF c = n - 1 THEN 0 ELSE c + 1
  <2>1. counter' % n = (counter + 1) % n
    BY <1>1, CounterIs DEF Search
  <2>2. (counter + 1) % n = IF c = n - 1 THEN 0 ELSE c + 1
    BY <1>3, NextRemainder
  <2> QED
    BY <2>1, <2>2
<1>5. PICK q \in Nat : \A m \in Slots :
        picks[m] + Cardinality(Heading(m)) = q + Extra(m, counter)
  BY DEF Even
<1>6. \A m : Heading(m)' = IF m = z THEN Heading(m) \cup {t} ELSE Heading(m)
  BY <1>1, <1>2 DEF Heading
<1>7. \A m : t \notin Heading(m)
  BY <1>1 DEF Heading
<1> HIDE DEF z, c
<1>8. ASSUME NEW m \in Slots
      PROVE  /\ picks[m] \in Nat /\ Cardinality(Heading(m)) \in Nat /\ m \in 1..n
             /\ Cardinality(Heading(m)') = Cardinality(Heading(m)) + (IF m = z THEN 1 ELSE 0)
  <2>1. picks[m] \in Nat /\ m \in 1..n /\ IsFiniteSet(Heading(m))
        /\ Cardinality(Heading(m)) \in Nat
    BY HeadingFinite DEF Typed, TypeOK, Slots
  <2>2. Cardinality(Heading(m) \cup {t}) = Cardinality(Heading(m)) + 1
    BY <1>7, <2>1, FS_AddElement
  <2>3. CASE m = z
    <3>1. Heading(m)' = Heading(m) \cup {t}
      BY <1>6, <2>3
    <3> QED
      BY <2>1, <2>2, <2>3, <3>1
  <2>4. CASE m # z
    <3>1. Heading(m)' = Heading(m)
      BY <1>6, <2>4
    <3> QED
      BY <2>1, <2>4, <3>1
  <2> QED
    BY <2>3, <2>4
<1>9. CASE c = n - 1
  <2>1. ASSUME NEW m \in Slots
        PROVE  picks[m] + Cardinality(Heading(m)') = (q + 1) + 0
    <3>1. Extra(m, counter) = IF m = z THEN 0 ELSE 1
      BY <1>3, <1>8, <1>9 DEF Extra, c
    <3> QED
      BY <1>5, <1>8, <3>1
  <2>2. \A m \in Slots : Extra(m, counter)' = 0
    <3>1. \A m \in Slots : m \in 1..n
      BY <1>8
    <3> QED
      BY <1>3, <1>4, <1>9, <3>1 DEF Extra
  <2>3. q + 1 \in Nat
    OBVIOUS
  <2> QED
    BY <1>1, <2>1, <2>2, <2>3 DEF Even
<1>10. CASE c # n - 1
  <2>1. \A m \in Slots : Extra(m, counter)' = IF m = z THEN 1 ELSE Extra(m, counter)
    <3>1. \A m \in Slots : m \in 1..n
      BY <1>8
    <3>2. counter' % n = c + 1
      BY <1>4, <1>10
    <3> QED
      BY <1>3, <3>1, <3>2 DEF Extra, c
  <2>2. Extra(z, counter) = 0
    BY <1>3 DEF Extra, c
  <2>3. \A m \in Slots : picks[m] + Cardinality(Heading(m)') = q + Extra(m, counter)'
    BY <1>5, <1>8, <2>1, <2>2 DEF Extra
  <2> QED
    BY <1>1, <2>3 DEF Even
<1> QED
  BY <1>9, <1>10

(* An answer moves a call from those heading for a position to its picks. *)
LEMMA LookEven ==
  ASSUME Typed, Search, Untroubled, Even, NEW t \in Tasks, SelectLook(t)
  PROVE  Untroubled' /\ Even'
<1> DEFINE z == Slot(t)
<1>1. pc[t] = "scan" /\ i[t] = 0 /\ i[t] < Len(Route)
  BY DEF SelectLook, Untroubled
<1>2. z = Position(start[t], 0)
  BY <1>1, SlotIs DEF Search
<1>3. is_healthy(Route[Slot(t)])
  BY DEF Untroubled, is_healthy
<1>4. /\ pc' = [pc EXCEPT ![t] = "idle"]
      /\ picks' = [picks EXCEPT ![z] = @ + 1]
      /\ UNCHANGED <<statuses, counter, start, i>>
  BY <1>3 DEF SelectLook, checkerVars
<1>5. pc'[t] = "idle" /\ \A u \in Tasks : u # t => pc'[u] = pc[u]
  BY <1>4 DEF Typed, TypeOK
<1>6. Untroubled'
  BY <1>4, <1>5 DEF Untroubled
<1>7. PICK q \in Nat : \A m \in Slots :
        picks[m] + Cardinality(Heading(m)) = q + Extra(m, counter)
  BY DEF Even
<1>8. \A m : Heading(m)' = IF m = z THEN Heading(m) \ {t} ELSE Heading(m)
  BY <1>2, <1>4, <1>5 DEF Heading
<1>9. t \in Heading(z) /\ z \in Slots
  BY <1>1, <1>2, SlotType DEF Heading, Typed
<1> HIDE DEF z
<1>10. ASSUME NEW m \in Slots
       PROVE  picks'[m] + Cardinality(Heading(m)') = picks[m] + Cardinality(Heading(m))
  <2>1. picks \in [Slots -> Nat] /\ picks[m] \in Nat /\ IsFiniteSet(Heading(m))
        /\ Cardinality(Heading(m)) \in Nat
    BY HeadingFinite DEF Typed, TypeOK
  <2>2. CASE m = z
    <3>1. Cardinality(Heading(m)') = Cardinality(Heading(m)) - 1
      BY <1>8, <1>9, <2>1, <2>2, FS_RemoveElement
    <3>2. picks'[m] = picks[m] + 1
      BY <1>4, <2>1, <2>2
    <3> QED
      BY <2>1, <3>1, <3>2
  <2>3. CASE m # z
    <3>1. Heading(m)' = Heading(m)
      BY <1>8, <2>3
    <3>2. picks'[m] = picks[m]
      BY <1>4, <2>1, <2>3
    <3> QED
      BY <3>1, <3>2
  <2> QED
    BY <2>2, <2>3
<1>11. \A m : Extra(m, counter)' = Extra(m, counter)
  BY <1>4 DEF Extra
<1>12. Even'
  BY <1>7, <1>10, <1>11 DEF Even
<1> QED
  BY <1>6, <1>12

(* The shares stay even as long as no upstream is marked unhealthy. *)
LEMMA AlwaysBalanced == Spec => []Balanced
<1>1. Init => Balanced
  <2> SUFFICES ASSUME Init PROVE Balanced
    OBVIOUS
  <2>1. Untroubled
    BY DEF Init, Untroubled
  <2>2. \A m \in Slots : picks[m] = 0 /\ Extra(m, counter) = 0 /\ Heading(m) = {}
    <3>1. counter = 0 /\ Len(Route) \in Nat \ {0} /\ \A m \in Slots : picks[m] = 0
      BY Constants DEF Init
    <3>2. 0 % Len(Route) = 0
      <4>1. 0 = Len(Route) * 0 + 0 /\ 0 \in 0..(Len(Route) - 1)
        BY <3>1
      <4> QED
        BY <3>1, <4>1, RemainderIs
    <3>3. \A m \in Slots : m \in Nat /\ m >= 1
      BY <3>1 DEF Slots
    <3>4. \A m \in Slots : Extra(m, counter) = 0
      BY <3>1, <3>2, <3>3 DEF Extra
    <3>5. \A m : Heading(m) = {}
      BY DEF Init, Heading
    <3> QED
      BY <3>1, <3>4, <3>5
  <2>3. \A m \in Slots : picks[m] + Cardinality(Heading(m)) = 0 + Extra(m, counter)
    BY <2>2, FS_EmptySet
  <2>4. Even
    BY <2>3 DEF Even
  <2> QED
    BY <2>1, <2>4 DEF Balanced
<1>2. Typed /\ Search /\ Balanced /\ [Next]_vars => Balanced'
  <2> SUFFICES ASSUME Typed, Search, Balanced, [Next]_vars, flawless'
               PROVE  Untroubled' /\ Even'
    BY DEF Balanced
  <2>0. ASSUME flawless, UNCHANGED <<statuses, counter, pc, start, i, picks>>
        PROVE  Untroubled' /\ Even'
    BY <2>0 DEF Balanced, Untroubled, Even, Heading, Extra
  <2>1. ASSUME NEW a \in Addrs, Flip(a) PROVE Untroubled' /\ Even'
    BY <2>0, <2>1 DEF Flip, checkerVars, callVars
  <2>2. CASE RoundStart \/ Probe
    BY <2>0, <2>2 DEF RoundStart, Probe, callVars
  <2>3. CASE Record
    <3> DEFINE a == Head(todo)
               ok == probed = "ok"
    <3>1. /\ statuses' = [b \in DOMAIN statuses \cup {a} |-> IF b = a THEN ok ELSE statuses[b]]
          /\ flawless' = (flawless /\ ok)
          /\ UNCHANGED <<counter, pc, start, i, picks>>
      BY <2>3 DEF Record, callVars
    <3> HIDE DEF a, ok
    <3>2. flawless /\ ok
      BY <3>1
    <3>3. Untroubled /\ Even
      BY <3>2 DEF Balanced
    <3>4. ASSUME NEW b \in DOMAIN statuses' PROVE statuses'[b]
      <4>1. CASE b = a
        <5>1. statuses'[b] = ok
          BY <3>1, <4>1
        <5> QED
          BY <3>2, <5>1
      <4>2. CASE b # a
        <5>1. b \in DOMAIN statuses /\ statuses'[b] = statuses[b]
          BY <3>1, <4>2
        <5>2. statuses[b]
          BY <3>3, <5>1 DEF Untroubled
        <5> QED
          BY <5>1, <5>2
      <4> QED
        BY <4>1, <4>2
    <3>5. Untroubled'
      BY <3>1, <3>3, <3>4 DEF Untroubled
    <3>6. Even'
      BY <3>1, <3>3 DEF Even, Heading, Extra
    <3> QED
      BY <3>5, <3>6
  <2>4. ASSUME NEW t \in Tasks, SelectStart(t) \/ SelectLook(t) \/ SelectNone(t)
        PROVE  Untroubled' /\ Even'
    <3>1. Untroubled /\ Even
      BY <2>4 DEF Balanced, SelectStart, SelectLook, SelectNone, checkerVars
    <3>2. CASE SelectStart(t)
      <4>1. /\ UNCHANGED statuses /\ pc' = [pc EXCEPT ![t] = "scan"]
            /\ i' = [i EXCEPT ![t] = 0]
        BY <3>2 DEF SelectStart, checkerVars
      <4>2. \A u \in Tasks : pc'[u] = "scan" => i'[u] = 0
        BY <3>1, <4>1 DEF Untroubled, Typed, TypeOK
      <4>3. Untroubled'
        BY <3>1, <4>1, <4>2 DEF Untroubled
      <4> QED
        BY <3>1, <3>2, <4>3, StartEven
    <3>3. CASE SelectLook(t)
      BY <3>1, <3>3, LookEven
    <3>4. CASE SelectNone(t)
      <4>1. i[t] = 0 /\ i[t] = Len(Route)
        BY <3>1, <3>4 DEF Untroubled, SelectNone
      <4> QED
        BY <4>1, Constants
    <3> QED
      BY <2>4, <3>2, <3>3, <3>4
  <2>5. CASE UNCHANGED vars
    BY <2>0, <2>5 DEF vars
  <2> QED
    BY <2>1, <2>2, <2>3, <2>4, <2>5 DEF Next, Checker
<1> QED
  BY <1>1, <1>2, AlwaysTyped, AlwaysSearch, PTL DEF Spec

(***************************************************************************)
(* The round-robin counter shares the calls evenly, in whatever order any   *)
(* number of handlers runs (proxy.rs: select_upstream).                     *)
(***************************************************************************)
THEOREM SharesEven == Spec => []EvenShares
<1>1. Typed /\ Balanced => EvenShares
  <2> SUFFICES ASSUME Typed, Balanced, flawless, NEW a \in Slots, NEW b \in Slots
               PROVE  picks[a] <= picks[b] + 1 + Cardinality({t \in Tasks : pc[t] = "scan"})
    BY DEF EvenShares
  <2>1. PICK q \in Nat : \A m \in Slots :
          picks[m] + Cardinality(Heading(m)) = q + Extra(m, counter)
    BY DEF Balanced, Even
  <2>2. /\ picks[a] + Cardinality(Heading(a)) = q + Extra(a, counter)
        /\ picks[b] + Cardinality(Heading(b)) = q + Extra(b, counter)
    BY <2>1
  <2>3. Extra(a, counter) \in 0..1 /\ Extra(b, counter) \in 0..1
    BY DEF Extra
  <2>4. picks[a] \in Nat /\ picks[b] \in Nat
    BY DEF Typed, TypeOK
  <2> DEFINE s == Cardinality({t \in Tasks : pc[t] = "scan"})
             ca == Cardinality(Heading(a))
             cb == Cardinality(Heading(b))
  <2>5. ca \in Nat /\ cb \in Nat /\ s \in Nat /\ cb <= s
    BY HeadingFinite
  <2> HIDE DEF s, ca, cb
  <2>6. picks[a] <= picks[b] + 1 + s
    BY <2>2, <2>3, <2>4, <2>5 DEF ca, cb
  <2> QED
    BY <2>6 DEF s
<1> QED
  BY <1>1, AlwaysTyped, AlwaysBalanced, PTL
=============================================================================
