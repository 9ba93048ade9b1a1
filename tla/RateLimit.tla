------------------------------ MODULE RateLimit ------------------------------
(***************************************************************************)
(* The request limiter of src/ratelimit.rs: per address a counter and the   *)
(* start of its one-second window, in a DashMap.                            *)
(*                                                                          *)
(* The entry guard locks the shard of the address, so what check does with  *)
(* a record is one step; `now` is read before the shard is locked and may   *)
(* be older than the record it is compared with.  There is no await in      *)
(* between, only the scheduling of threads: MaxDelay bounds that delay.     *)
(* The cleaner's retain visits one shard after the other with one `now`.    *)
(***************************************************************************)
EXTENDS Integers

CONSTANTS
  IPs, Tasks,
  MaxRps,      \* limit.max_rps
  Second,      \* clock ticks in the window of one second
  RetainAge,   \* age at which the cleaner drops a record: 10 seconds
  MaxDelay,    \* most ticks between Instant::now() and the shard lock in check
  MaxTime      \* bound on the clock (a bound of the model, not of the code)

ASSUME RateAssumption ==
  /\ MaxRps \in Nat
  /\ Second \in Nat \ {0}
  /\ RetainAge \in Nat
  /\ MaxDelay \in Nat
  /\ RetainAge >= Second + MaxDelay
  /\ MaxTime \in Nat

VARIABLES
  clock,
  records,     \* address |-> RateState
  pc, ip, at,  \* per task: its place in check, the address, the `now` it read
  verdict,     \* per task: what its last check answered
  sweep,       \* addresses the running retain has still to visit
  sweepAt,     \* the `now` of the running retain
  total,       \* history: requests let through, per address
  before       \* history: total, as it was when a tick began

vars == <<clock, records, pc, ip, at, verdict, sweep, sweepAt, total, before>>
taskVars == <<pc, ip, at, verdict>>
history == <<total, before>>

RateState == [count : 0..MaxRps, last_reset : Nat]

TypeOK ==
  /\ clock \in 0..MaxTime
  /\ DOMAIN records \subseteq IPs
  /\ records \in [DOMAIN records -> RateState]
  /\ pc \in [Tasks -> {"idle", "entry"}]
  /\ ip \in [Tasks -> IPs]
  /\ at \in [Tasks -> Nat]
  /\ verdict \in [Tasks -> {"none", "pass", "limited"}]
  /\ sweep \subseteq IPs
  /\ sweepAt \in Nat
  /\ total \in [IPs -> Nat]
  /\ before \in [IPs -> [0..MaxTime -> Nat]]

Init ==
  /\ clock = 0
  /\ records = [i \in {} |-> [count |-> 0, last_reset |-> 0]]
  /\ pc = [t \in Tasks |-> "idle"]
  /\ ip \in [Tasks -> IPs]
  /\ at = [t \in Tasks |-> 0]
  /\ verdict = [t \in Tasks |-> "none"]
  /\ sweep = {}
  /\ sweepAt = 0
  /\ total = [i \in IPs |-> 0]
  /\ before = [i \in IPs |-> [s \in 0..MaxTime |-> 0]]

-----------------------------------------------------------------------------
(* Instant::duration_since saturates at zero. *)
Since(later, earlier) == IF later >= earlier THEN later - earlier ELSE 0

(***************************************************************************)
(* check up to the clock reading.  With max_rps = 0 the call returns TRUE   *)
(* before it touches anything, which changes no state: the guard.           *)
(***************************************************************************)
CheckStart(t, i) ==
  /\ MaxRps > 0
  /\ pc[t] = "idle"
  /\ pc' = [pc EXCEPT ![t] = "entry"]
  /\ ip' = [ip EXCEPT ![t] = i]
  /\ at' = [at EXCEPT ![t] = clock]
  /\ verdict' = [verdict EXCEPT ![t] = "none"]
  /\ UNCHANGED <<clock, records, sweep, sweepAt, history>>

(* entry(ip).or_insert(...): the record of the address, or a fresh one. *)
Entry(t) ==
  IF ip[t] \in DOMAIN records THEN records[ip[t]]
  ELSE [count |-> 0, last_reset |-> at[t]]

Store(i, r) ==
  records' = [j \in DOMAIN records \cup {i} |-> IF j = i THEN r ELSE records[j]]

Answer(t, v) ==
  /\ pc' = [pc EXCEPT ![t] = "idle"]
  /\ verdict' = [verdict EXCEPT ![t] = v]
  /\ UNCHANGED <<clock, ip, at, sweep, sweepAt>>

(* History of an accepted request. *)
Count(i) ==
  /\ total' = [total EXCEPT ![i] = @ + 1]
  /\ UNCHANGED before

Expired(t) == Since(at[t], Entry(t).last_reset) >= Second

(* Mutant: the counter restarts, the window does not. *)
NewWindowKeepsStart(t) ==
  /\ pc[t] = "entry"
  /\ Expired(t)
  /\ Store(ip[t], [count |-> 1, last_reset |-> Entry(t).last_reset])
  /\ Count(ip[t])
  /\ Answer(t, "pass")

(* check: the window is over, a new one starts with this request. *)
NewWindow(t) ==
  /\ pc[t] = "entry"
  /\ Expired(t)
  /\ Store(ip[t], [count |-> 1, last_reset |-> at[t]])
  /\ Count(ip[t])
  /\ Answer(t, "pass")

(* Mutant: off by one at the quota. *)
WithinQuotaOffByOne(t) ==
  /\ pc[t] = "entry"
  /\ ~Expired(t)
  /\ Entry(t).count <= MaxRps
  /\ Store(ip[t], [Entry(t) EXCEPT !.count = @ + 1])
  /\ Count(ip[t])
  /\ Answer(t, "pass")

(* check: the window is open and has room. *)
WithinQuota(t) ==
  /\ pc[t] = "entry"
  /\ ~Expired(t)
  /\ Entry(t).count < MaxRps
  /\ Store(ip[t], [Entry(t) EXCEPT !.count = @ + 1])
  /\ Count(ip[t])
  /\ Answer(t, "pass")

(* Mutant: a used-up record keeps answering no once its window is over. *)
OverQuotaForEver(t) ==
  /\ pc[t] = "entry"
  /\ Entry(t).count >= MaxRps
  /\ Store(ip[t], Entry(t))
  /\ UNCHANGED history
  /\ Answer(t, "limited")

(* check: the window is open and used up. *)
OverQuota(t) ==
  /\ pc[t] = "entry"
  /\ ~Expired(t)
  /\ Entry(t).count >= MaxRps
  /\ Store(ip[t], Entry(t))
  /\ UNCHANGED history
  /\ Answer(t, "limited")

-----------------------------------------------------------------------------
(* The cleanup task wakes up, reads the clock and starts its retain. *)
SweepStart ==
  /\ sweep = {}
  /\ sweep' = IPs
  /\ sweepAt' = clock
  /\ UNCHANGED <<clock, records, taskVars, history>>

(* Mutant: records are dropped while their window is open. *)
SweepVisitEager(i) ==
  /\ i \in sweep
  /\ sweep' = sweep \ {i}
  /\ records' = [j \in DOMAIN records \ {i} |-> records[j]]
  /\ UNCHANGED <<clock, sweepAt, taskVars, history>>

(* retain reaches the shard of an address. *)
SweepVisit(i) ==
  /\ i \in sweep
  /\ sweep' = sweep \ {i}
  /\ records' = [j \in {k \in DOMAIN records :
                          k = i => Since(sweepAt, records[k].last_reset) < RetainAge}
                   |-> records[j]]
  /\ UNCHANGED <<clock, sweepAt, taskVars, history>>

(* Time passes, but no check is held up for more than MaxDelay. *)
Tick ==
  /\ clock < MaxTime
  /\ \A t \in Tasks : pc[t] = "entry" => clock < at[t] + MaxDelay
  /\ clock' = clock + 1
  /\ before' = [i \in IPs |-> [before[i] EXCEPT ![clock + 1] = total[i]]]
  /\ UNCHANGED <<records, taskVars, sweep, sweepAt, total>>

-----------------------------------------------------------------------------
Next ==
  \/ \E t \in Tasks, i \in IPs : CheckStart(t, i)
  \/ \E t \in Tasks : NewWindow(t) \/ WithinQuota(t) \/ OverQuota(t)
  \/ SweepStart
  \/ \E i \in IPs : SweepVisit(i)
  \/ Tick

Spec == Init /\ [][Next]_vars

-----------------------------------------------------------------------------
(* Requests of an address let through before a tick, and from one to another. *)
Before(i, s) == IF s <= clock THEN before[i][s] ELSE total[i]
Accepted(i, from, to) == Before(i, to + 1) - Before(i, from)

(***************************************************************************)
(* Long-run rate: what an address gets through, over the life of the        *)
(* process, is never more than max_rps per second elapsed plus one window,  *)
(* although windows start at stale instants and the cleaner forgets records *)
(* (ratelimit.rs: check, spawn_cleanup_task).  Stated without division:     *)
(* total <= MaxRps * (clock / Second + 1).                                  *)
(***************************************************************************)
LongRunQuota ==
  \A i \in IPs : Second * total[i] <= MaxRps * (clock + Second)

(***************************************************************************)
(* Burst: any one second sees at most three windows of an address (the end  *)
(* of one, all of the next, and one more opened by a request whose clock    *)
(* reading was up to a second old), so at most three quotas.                *)
(***************************************************************************)
BurstBound ==
  MaxDelay <= Second =>
    \A i \in IPs, s \in 0..MaxTime : Accepted(i, s, s + Second - 1) <= 3 * MaxRps

(***************************************************************************)
(* A request is refused, and its sender banned, only when max_rps requests  *)
(* of that address really were let through within the last second (and the  *)
(* delay of the clock reading): neither a stale record nor a stale `now`    *)
(* makes the limiter refuse an address that is within its quota.            *)
(***************************************************************************)
RefusedOnlyOverQuota ==
  [][\A t \in Tasks :
       verdict[t] # "limited" /\ verdict'[t] = "limited" =>
         Accepted(ip[t], Since(clock, Second + MaxDelay), clock) >= MaxRps
    ]_vars
=============================================================================
