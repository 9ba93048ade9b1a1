------------------------------- MODULE Upstream -------------------------------
(***************************************************************************)
(* Choosing a backend: the active health checker of src/health.rs, which    *)
(* probes every upstream in turn and records the outcome in a DashMap, and  *)
(* proxy::select_upstream, which request handlers run at the same time: a   *)
(* shared round-robin counter picks where to start, and the statuses are    *)
(* read one by one, so they may change while a handler looks for one that   *)
(* is healthy.                                                              *)
(***************************************************************************)
EXTENDS Integers, Sequences, Functions, FiniteSets

CONSTANTS
  Route,       \* the upstreams of a route, in configuration order
  Tasks,       \* request handlers
  CounterMod,  \* the counter is an AtomicUsize: 2^64
  MaxCalls,    \* bound on the calls of select_upstream (of the model only)
  NoUpstream   \* select_upstream's None

Addrs == Range(Route)
Slots == 1..Len(Route)

ASSUME UpstreamAssumption ==
  /\ Route \in Seq(Addrs) /\ Len(Route) > 0
  /\ IsFiniteSet(Tasks)
  /\ CounterMod \in Nat /\ CounterMod >= Len(Route)
  /\ MaxCalls \in Nat
  /\ NoUpstream \notin Addrs

(***************************************************************************)
(* What select_upstream relies on: the number of upstreams divides 2^64, or *)
(* there are too few calls for the counter to wrap around.                  *)
(***************************************************************************)
ASSUME CounterAssumption ==
  CounterMod % Len(Route) = 0 \/ MaxCalls + Len(Route) <= CounterMod

VARIABLES
  up,          \* does an upstream accept a connection within the probe's 2 s
  statuses,    \* HealthManager::statuses
  todo,        \* upstreams the checker's current round has still to probe
  probed,      \* the outcome of a finished probe, before it is recorded
  counter,     \* the round-robin counter of the route
  pc, start, i, choice,   \* per handler: select_upstream
  steady,      \* history: upstreams marked healthy ever since the call began
  calls,       \* history: calls begun
  picks,       \* history: answers given, by position in the route
  flawless     \* history: no upstream was ever marked unhealthy

vars == <<up, statuses, todo, probed, counter, pc, start, i, choice,
          steady, calls, picks, flawless>>
checkerVars == <<statuses, todo, probed, flawless>>
callVars == <<counter, pc, start, i, choice, calls, picks>>

TypeOK ==
  /\ up \in [Addrs -> BOOLEAN]
  /\ DOMAIN statuses \subseteq Addrs
  /\ statuses \in [DOMAIN statuses -> BOOLEAN]
  /\ todo \in Seq(Addrs)
  /\ probed \in {"none", "ok", "failed"}
  /\ counter \in 0..(CounterMod - 1)
  /\ pc \in [Tasks -> {"idle", "scan"}]
  /\ start \in [Tasks -> 0..(CounterMod - 1)]
  /\ i \in [Tasks -> 0..Len(Route)]
  /\ choice \in [Tasks -> Addrs \cup {NoUpstream}]
  /\ steady \in [Tasks -> SUBSET Addrs]
  /\ calls \in Nat
  /\ picks \in [Slots -> Nat]
  /\ flawless \in BOOLEAN

(* spawn_checker: the unique upstreams among the first n, in order of appearance. *)
Unique[n \in 0..Len(Route)] ==
  IF n = 0 THEN <<>>
  ELSE IF \A j \in 1..(n - 1) : Route[j] # Route[n] THEN Append(Unique[n - 1], Route[n])
  ELSE Unique[n - 1]
Upstreams == Unique[Len(Route)]

Init ==
  /\ up \in [Addrs -> BOOLEAN]
  /\ statuses = [a \in {} |-> TRUE]
  /\ todo = <<>>
  /\ probed = "none"
  /\ counter = 0
  /\ pc = [t \in Tasks |-> "idle"]
  /\ start = [t \in Tasks |-> 0]
  /\ i = [t \in Tasks |-> 0]
  /\ choice = [t \in Tasks |-> NoUpstream]
  /\ steady = [t \in Tasks |-> {}]
  /\ calls = 0
  /\ picks = [k \in Slots |-> 0]
  /\ flawless = TRUE

-----------------------------------------------------------------------------
(* is_healthy: an upstream not yet probed counts as healthy. *)
is_healthy(a) == a \in DOMAIN statuses => statuses[a]

(* An upstream goes down or comes back. *)
Flip(a) ==
  /\ up' = [up EXCEPT ![a] = ~@]
  /\ UNCHANGED <<checkerVars, callVars, steady>>

(* The interval ticks: a new round over all upstreams. *)
RoundStart ==
  /\ todo = <<>>
  /\ todo' = Upstreams
  /\ UNCHANGED <<up, statuses, probed, flawless, callVars, steady>>

(* probe_upstream of the next upstream: connected, or refused or timed out. *)
Probe ==
  /\ todo # <<>> /\ probed = "none"
  /\ probed' = IF up[Head(todo)] THEN "ok" ELSE "failed"
  /\ UNCHANGED <<up, statuses, todo, flawless, callVars, steady>>

(* Mutant: the first upstream found down ends the round. *)
RecordAndGiveUp ==
  /\ probed # "none"
  /\ LET a == Head(todo)
         ok == probed = "ok"
     IN /\ statuses' = [b \in DOMAIN statuses \cup {a} |-> IF b = a THEN ok ELSE statuses[b]]
        /\ steady' = [t \in Tasks |-> IF ok THEN steady[t] ELSE steady[t] \ {a}]
        /\ flawless' = (flawless /\ ok)
        /\ todo' = IF ok THEN Tail(todo) ELSE <<>>
  /\ probed' = "none"
  /\ UNCHANGED <<up, callVars>>

(* The outcome is recorded and the round goes on. *)
Record ==
  /\ probed # "none"
  /\ LET a == Head(todo)
         ok == probed = "ok"
     IN /\ statuses' = [b \in DOMAIN statuses \cup {a} |-> IF b = a THEN ok ELSE statuses[b]]
        /\ steady' = [t \in Tasks |-> IF ok THEN steady[t] ELSE steady[t] \ {a}]
        /\ flawless' = (flawless /\ ok)
  /\ todo' = Tail(todo)
  /\ probed' = "none"
  /\ UNCHANGED <<up, callVars>>

-----------------------------------------------------------------------------
(* Mutant: the counter is read but not advanced. *)
SelectStartStill(t) ==
  /\ pc[t] = "idle" /\ calls < MaxCalls
  /\ pc' = [pc EXCEPT ![t] = "scan"]
  /\ start' = [start EXCEPT ![t] = counter]
  /\ i' = [i EXCEPT ![t] = 0]
  /\ steady' = [steady EXCEPT ![t] = {a \in Addrs : is_healthy(a)}]
  /\ calls' = calls + 1
  /\ UNCHANGED <<up, checkerVars, counter, choice, picks>>

(* select_upstream: fetch_add, which wraps around. *)
SelectStart(t) ==
  /\ pc[t] = "idle" /\ calls < MaxCalls
  /\ pc' = [pc EXCEPT ![t] = "scan"]
  /\ start' = [start EXCEPT ![t] = counter]
  /\ counter' = (counter + 1) % CounterMod
  /\ i' = [i EXCEPT ![t] = 0]
  /\ steady' = [steady EXCEPT ![t] = {a \in Addrs : is_healthy(a)}]
  /\ calls' = calls + 1
  /\ UNCHANGED <<up, checkerVars, choice, picks>>

(* Mutant: the index runs off the end of the list instead of around it. *)
SlotClamped(t) ==
  LET k == (start[t] % Len(Route)) + i[t] IN IF k < Len(Route) THEN k + 1 ELSE Len(Route)

(* idx of this turn of the loop (from 1); the sum wraps around as usize does. *)
Slot(t) == (((start[t] + i[t]) % CounterMod) % Len(Route)) + 1

(* Mutant: the loop runs over 0..=len. *)
SelectLookInclusive(t) ==
  /\ pc[t] = "scan" /\ i[t] <= Len(Route)
  /\ LET a == Route[Slot(t)] IN
     \/ /\ is_healthy(a)
        /\ pc' = [pc EXCEPT ![t] = "idle"]
        /\ choice' = [choice EXCEPT ![t] = a]
        /\ picks' = [picks EXCEPT ![Slot(t)] = @ + 1]
        /\ UNCHANGED i
     \/ /\ ~is_healthy(a)
        /\ i' = [i EXCEPT ![t] = @ + 1]
        /\ UNCHANGED <<pc, choice, picks>>
  /\ UNCHANGED <<up, checkerVars, counter, start, steady, calls>>

(* One turn of the loop: return a healthy upstream, or go on to the next. *)
SelectLook(t) ==
  /\ pc[t] = "scan" /\ i[t] < Len(Route)
  /\ LET a == Route[Slot(t)] IN
     \/ /\ is_healthy(a)
        /\ pc' = [pc EXCEPT ![t] = "idle"]
        /\ choice' = [choice EXCEPT ![t] = a]
        /\ picks' = [picks EXCEPT ![Slot(t)] = @ + 1]
        /\ UNCHANGED i
     \/ /\ ~is_healthy(a)
        /\ i' = [i EXCEPT ![t] = @ + 1]
        /\ UNCHANGED <<pc, choice, picks>>
  /\ UNCHANGED <<up, checkerVars, counter, start, steady, calls>>

(* The loop is over: None. *)
SelectNone(t) ==
  /\ pc[t] = "scan" /\ i[t] = Len(Route)
  /\ pc' = [pc EXCEPT ![t] = "idle"]
  /\ choice' = [choice EXCEPT ![t] = NoUpstream]
  /\ UNCHANGED <<up, checkerVars, counter, start, i, steady, calls, picks>>

Checker == RoundStart \/ Probe \/ Record

Next ==
  \/ \E a \in Addrs : Flip(a)
  \/ Checker
  \/ \E t \in Tasks : SelectStart(t) \/ SelectLook(t) \/ SelectNone(t)

Spec == Init /\ [][Next]_vars

(* The checker's task runs for ever, and every probe ends within 2 s. *)
FairSpec == Spec /\ WF_vars(Checker)

-----------------------------------------------------------------------------
(***************************************************************************)
(* A request is refused for want of an upstream (502) only if no upstream   *)
(* was marked healthy for the whole of the search, although the statuses    *)
(* are read one at a time and the checker changes them meanwhile            *)
(* (proxy.rs: select_upstream).                                             *)
(***************************************************************************)
NoneOnlyIfNoneSteady ==
  [][\A t \in Tasks :
       pc[t] = "scan" /\ pc'[t] = "idle" /\ choice'[t] = NoUpstream
         => steady[t] = {}]_vars

(***************************************************************************)
(* Load balancing: as long as no upstream was ever marked unhealthy, the    *)
(* answers given differ between any two positions of the route by no more   *)
(* than one plus the calls still under way, in whatever order the handlers  *)
(* run (proxy.rs: select_upstream, the atomic round-robin counter).         *)
(***************************************************************************)
EvenShares ==
  flawless =>
    \A a, b \in Slots :
      picks[a] <= picks[b] + 1 + Cardinality({t \in Tasks : pc[t] = "scan"})

(***************************************************************************)
(* The checker finds out: an upstream that stays down is marked unhealthy   *)
(* and stays so, and one that stays up is taken back, whatever the others   *)
(* do (health.rs: spawn_checker).                                           *)
(***************************************************************************)
StatusFollows ==
  \A a \in Addrs :
    /\ <>[](~up[a]) => <>[](~is_healthy(a))
    /\ <>[](up[a]) => <>[](is_healthy(a))
=============================================================================
