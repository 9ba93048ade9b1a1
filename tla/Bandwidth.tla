------------------------------ MODULE Bandwidth ------------------------------
(***************************************************************************)
(* Bandwidth control: the token buckets of src/bandwidth.rs, one per        *)
(* address in a DashMap, and their two users, which run side by side and    *)
(* share the bucket of their address: response bodies (ThrottledBody) and   *)
(* the two directions of a WebSocket (the loops of proxy::handle_websocket).*)
(*                                                                          *)
(* A bucket stores its tokens as of last_fill; instead of two instants the  *)
(* model keeps the bucket's age, the ticks since last_fill, up to the age   *)
(* at which any bucket is full.  Tokens are f64 in the code and exact here. *)
(***************************************************************************)
EXTENDS Integers, Sequences, FiniteSetsExt

CONSTANTS
  IPs,
  Bodies, Pipes,    \* response bodies, and directions of WebSockets
  Owner,            \* the address a stream is accounted to
  Loads,            \* frame lists a stream may carry: bytes, 0 is a frame without data
  PerTick,          \* tokens a bucket gains in a tick; 0: no limit
  TicksPerSecond

Streams == Bodies \cup Pipes
Rate == PerTick * TicksPerSecond      \* limit.max_bandwidth
Capacity == 2 * Rate
Full == 2 * TicksPerSecond            \* age at which a bucket is full

ASSUME BandwidthAssumption ==
  /\ Bodies \cap Pipes = {}
  /\ Owner \in [Streams -> IPs]
  /\ Loads \subseteq Seq(Nat)
  /\ PerTick \in Nat
  /\ TicksPerSecond \in Nat \ {0}

VARIABLES
  buckets,   \* address |-> TokenBucket
  load,      \* the frames the source of a stream will yield
  next,      \* the next of them
  pending,   \* ThrottledBody::pending_amount; in a pipe, the chunk in its buffer
  phase,     \* where a stream is
  out,       \* the frames a stream has passed on, by position
  excess     \* history: see IntervalBound

vars == <<buckets, load, next, pending, phase, out, excess>>

TokenBucket == [tokens : 0..Capacity, age : 0..Full]

TypeOK ==
  /\ DOMAIN buckets \subseteq IPs
  /\ buckets \in [DOMAIN buckets -> TokenBucket]
  /\ load \in [Streams -> Loads]
  /\ next \in [Streams -> Nat \ {0}]
  /\ pending \in [Streams -> Nat]
  /\ phase \in [Streams -> {"read", "throttle", "write", "done"}]
  /\ out \in [Streams -> Seq(Nat)]
  /\ excess \in [IPs -> Nat]

Init ==
  /\ buckets = [i \in {} |-> [tokens |-> 0, age |-> 0]]
  /\ load \in [Streams -> Loads]
  /\ next = [s \in Streams |-> 1]
  /\ pending = [s \in Streams |-> 0]
  /\ phase = [s \in Streams |-> "read"]
  /\ out = [s \in Streams |-> <<>>]
  /\ excess = [i \in IPs |-> 0]

-----------------------------------------------------------------------------
(* Mutant: the cap is never applied. *)
RefilledUncapped(b) == b.tokens + b.age * PerTick

(* Mutant: the cap is one second's worth, not two. *)
RefilledLow(b) ==
  LET t == b.tokens + b.age * PerTick IN IF t > Rate THEN Rate ELSE t

(* TokenBucket::consume, its first half: refill and cap. *)
Refilled(b) ==
  LET t == b.tokens + b.age * PerTick IN IF t > Capacity THEN Capacity ELSE t

(* entry(ip).or_insert(TokenBucket::new()): a new bucket is empty. *)
Bucket(i) == IF i \in DOMAIN buckets THEN buckets[i] ELSE [tokens |-> 0, age |-> 0]

Put(i, t) ==
  buckets' = [j \in DOMAIN buckets \cup {i} |->
                IF j = i THEN [tokens |-> t, age |-> 0] ELSE buckets[j]]

(***************************************************************************)
(* try_consume succeeds or fails; either way the bucket is refilled.  The   *)
(* DashMap entry is locked and `now` is read under the lock: one step.      *)
(***************************************************************************)
Consumed(i, n) ==
  /\ Refilled(Bucket(i)) >= n
  /\ Put(i, Refilled(Bucket(i)) - n)
  /\ excess' = [excess EXCEPT ![i] = @ + n]

(* Mutant: a refused attempt credits the elapsed time and keeps last_fill. *)
RefusedKeepsAge(i, n) ==
  /\ Refilled(Bucket(i)) < n
  /\ buckets' = [j \in DOMAIN buckets \cup {i} |->
                   IF j = i THEN [Bucket(i) EXCEPT !.tokens = Refilled(Bucket(i))]
                   ELSE buckets[j]]
  /\ UNCHANGED excess

Refused(i, n) ==
  /\ Refilled(Bucket(i)) < n
  /\ Put(i, Refilled(Bucket(i)))
  /\ UNCHANGED excess

(* Moves of a stream. *)
Pending(s, n) == pending' = [pending EXCEPT ![s] = n]
Phase(s, p) == phase' = [phase EXCEPT ![s] = p]
Pass(s, k) == out' = [out EXCEPT ![s] = Append(@, k)]
Take(s) == next' = [next EXCEPT ![s] = @ + 1]

More(s) == next[s] <= Len(load[s])
Frame(s) == load[s][next[s]]

-----------------------------------------------------------------------------
(***************************************************************************)
(* ThrottledBody::poll_frame.  The amount left from an earlier poll is      *)
(* consumed first; until that works the poll is Pending and wakes itself.   *)
(***************************************************************************)
PollPending(s) ==
  /\ phase[s] = "read" /\ pending[s] > 0
  /\ \/ Consumed(Owner[s], pending[s]) /\ Pending(s, 0)
     \/ Refused(Owner[s], pending[s]) /\ UNCHANGED pending
  /\ UNCHANGED <<load, next, phase, out>>

(* Mutant: only data frames are passed on, trailers are swallowed. *)
PollFreeDataOnly(s) ==
  /\ phase[s] = "read" /\ pending[s] = 0 /\ More(s)
  /\ Rate = 0 \/ Frame(s) = 0
  /\ Take(s)
  /\ \/ Frame(s) > 0 /\ Pass(s, next[s])
     \/ Frame(s) = 0 /\ UNCHANGED out
  /\ UNCHANGED <<buckets, load, pending, phase, excess>>

(* A frame without data, or any frame when there is no limit, passes. *)
PollFree(s) ==
  /\ phase[s] = "read" /\ pending[s] = 0 /\ More(s)
  /\ Rate = 0 \/ Frame(s) = 0
  /\ Take(s)
  /\ Pass(s, next[s])
  /\ UNCHANGED <<buckets, load, pending, phase, excess>>

(* A data frame is charged; if that fails its size is kept, the frame is not. *)
PollData(s) ==
  /\ phase[s] = "read" /\ pending[s] = 0 /\ More(s)
  /\ Rate > 0 /\ Frame(s) > 0
  /\ Take(s)
  /\ \/ Consumed(Owner[s], Frame(s)) /\ Pass(s, next[s]) /\ UNCHANGED pending
     \/ Refused(Owner[s], Frame(s)) /\ Pending(s, Frame(s)) /\ UNCHANGED out
  /\ UNCHANGED <<load, phase>>

(* The source is at its end; an amount still pending is paid for before that. *)
BodyEnd(s) ==
  /\ phase[s] = "read" /\ pending[s] = 0 /\ ~More(s)
  /\ Phase(s, "done")
  /\ UNCHANGED <<buckets, load, next, pending, out, excess>>

(* The client goes away, or the source fails: hyper drops the body. *)
BodyAbort(s) ==
  /\ phase[s] = "read"
  /\ Phase(s, "done")
  /\ UNCHANGED <<buckets, load, next, pending, out, excess>>

-----------------------------------------------------------------------------
(* handle_websocket, one direction: read a chunk into the buffer ... *)
PipeRead(s) ==
  /\ phase[s] = "read" /\ More(s) /\ Frame(s) > 0
  /\ Take(s)
  /\ Pending(s, Frame(s))
  /\ Phase(s, "throttle")
  /\ UNCHANGED <<buckets, load, out, excess>>

(***************************************************************************)
(* ... (an end of file, a read error, the idle timeout or a write error     *)
(* ends the loop; the throttle loop does not notice any of them) ...        *)
(***************************************************************************)
PipeEnd(s) ==
  /\ phase[s] \in {"read", "write"}
  /\ Phase(s, "done")
  /\ UNCHANGED <<buckets, load, next, pending, out, excess>>

(* Mutant: a refused chunk is thrown away, as in ThrottledBody. *)
PipeThrottleDropping(s) ==
  /\ phase[s] = "throttle"
  /\ \/ Consumed(Owner[s], pending[s]) /\ Phase(s, "write") /\ UNCHANGED pending
     \/ Refused(Owner[s], pending[s]) /\ Phase(s, "read") /\ Pending(s, 0)
  /\ UNCHANGED <<load, next, out>>

(* The chunk is paid for; without a limit it need not be. *)
Paid(s) ==
  IF Rate = 0 THEN UNCHANGED <<buckets, excess>> ELSE Consumed(Owner[s], pending[s])

(* ... try again every 5 ms until the bucket has enough ... *)
PipeThrottle(s) ==
  /\ phase[s] = "throttle"
  /\ \/ Paid(s) /\ Phase(s, "write")
     \/ Rate > 0 /\ Refused(Owner[s], pending[s]) /\ UNCHANGED phase
  /\ UNCHANGED <<load, next, pending, out>>

(* ... and write it all. *)
PipeWrite(s) ==
  /\ phase[s] = "write"
  /\ Pass(s, next[s] - 1)
  /\ Pending(s, 0)
  /\ Phase(s, "read")
  /\ UNCHANGED <<buckets, load, next, excess>>

-----------------------------------------------------------------------------
(* ThrottledBody::new, or the next WebSocket: an ended stream's place is used again. *)
Start(s, l) ==
  /\ phase[s] = "done"
  /\ load' = [load EXCEPT ![s] = l]
  /\ next' = [next EXCEPT ![s] = 1]
  /\ out' = [out EXCEPT ![s] = <<>>]
  /\ Pending(s, 0)
  /\ Phase(s, "read")
  /\ UNCHANGED <<buckets, excess>>

(* Time passes for every bucket. *)
Tick ==
  /\ buckets' = [i \in DOMAIN buckets |->
                   [buckets[i] EXCEPT !.age = IF @ < Full THEN @ + 1 ELSE @]]
  /\ excess' = [i \in IPs |-> IF excess[i] > PerTick THEN excess[i] - PerTick ELSE 0]
  /\ UNCHANGED <<load, next, pending, phase, out>>

BodyStep(s) ==
  PollPending(s) \/ PollFree(s) \/ PollData(s) \/ BodyEnd(s) \/ BodyAbort(s)
PipeStep(s) == PipeRead(s) \/ PipeEnd(s) \/ PipeThrottle(s) \/ PipeWrite(s)

Next ==
  \/ \E s \in Bodies : BodyStep(s)
  \/ \E s \in Pipes : PipeStep(s)
  \/ \E s \in Streams, l \in Loads : Start(s, l)
  \/ Tick

Spec == Init /\ [][Next]_vars

(***************************************************************************)
(* Fairness.  A refused stream asks again: the poll of a body has woken     *)
(* itself, and a WebSocket direction sleeps 5 ms at a time.  Time passes.   *)
(* Nothing else need happen: a source may stop yielding, and a peer may     *)
(* stop reading, for ever.                                                  *)
(***************************************************************************)
FairSpec ==
  /\ Spec
  /\ \A s \in Bodies : WF_vars(PollPending(s))
  /\ \A s \in Pipes : WF_vars(PipeThrottle(s))
  /\ WF_vars(Tick)

-----------------------------------------------------------------------------
(***************************************************************************)
(* max_bandwidth holds over every interval of time, not just on average:    *)
(* an address is never granted more than the capacity of its bucket (two    *)
(* seconds' worth) plus the rate times the length of the interval, however  *)
(* many of its bodies and pipes compete (bandwidth.rs: consume).            *)
(* excess[i] is the most, over all intervals ending now, by which grants    *)
(* exceeded the rate: it grows with a grant, and sinks, not below 0, with   *)
(* time.                                                                    *)
(***************************************************************************)
IntervalBound == Rate > 0 => \A i \in IPs : excess[i] <= Capacity

(* The tokens an address could take now. *)
Avail == [i \in DOMAIN buckets |-> Refilled(buckets[i])]

Ideal == INSTANCE IdealBucket WITH level <- Avail

(***************************************************************************)
(* The lazily refilled bucket implements a bucket that fills all the time:  *)
(* what an address could take grows with time only, by the rate and up to   *)
(* the capacity, and shrinks by what is granted, although refill and cap    *)
(* happen at whatever times somebody asks, and on refused attempts too      *)
(* (bandwidth.rs: consume, try_consume).                                    *)
(***************************************************************************)
LazyIsIdeal == Ideal!Spec

(* The positions 1, 2, ..., n. *)
UpTo(n) == [k \in 1..n |-> k]

(***************************************************************************)
(* A WebSocket direction passes on what it reads, all of it and in order:   *)
(* only the chunk in its buffer is outstanding, however often the limiter   *)
(* refuses it (proxy.rs: the c2b and b2c loops).                            *)
(***************************************************************************)
PipeIntact ==
  \A s \in Pipes :
    out[s] = UpTo(IF pending[s] > 0 THEN next[s] - 2 ELSE next[s] - 1)

(* The positions of the frames a body has taken from its source. *)
Taken(s) == 1..(next[s] - 1)

(***************************************************************************)
(* Whatever the limiter refuses, a body never reorders, repeats or invents  *)
(* a frame, and the frames it does not charge, trailers above all, always   *)
(* get through (bandwidth.rs: poll_frame).                                  *)
(***************************************************************************)
BodyInOrder ==
  \A s \in Bodies :
    /\ \A j, k \in DOMAIN out[s] : j < k => out[s][j] < out[s][k]
    /\ \A j \in DOMAIN out[s] : out[s][j] \in Taken(s)
    /\ \A k \in Taken(s) : load[s][k] = 0 => \E j \in DOMAIN out[s] : out[s][j] = k

(***************************************************************************)
(* What bandwidth.rs says of ThrottledBody, "A Hyper body wrapper that      *)
(* pauses streaming when the bandwidth quota is exceeded": a body that has  *)
(* nothing pending has passed on every frame it took from its source.  A    *)
(* frame refused by the limiter is dropped, so this holds only without a    *)
(* limit.                                                                   *)
(***************************************************************************)
BodyIntact ==
  \A s \in Bodies : pending[s] = 0 => out[s] = UpTo(next[s] - 1)

(***************************************************************************)
(* A stream held back by the limiter with an amount a bucket can hold.  (A  *)
(* larger one is refused for ever.)                                         *)
(***************************************************************************)
Paused(s) ==
  /\ Rate > 0 /\ pending[s] \in 1..Capacity
  /\ phase[s] = IF s \in Bodies THEN "read" ELSE "throttle"

(* The address of the stream is granted something. *)
Grant(s) == excess'[Owner[s]] > excess[Owner[s]]

(***************************************************************************)
(* Throttling is a pause, not a stop, unless others keep taking the tokens: *)
(* an amount that fits the bucket stays refused for ever only if grants to  *)
(* the same address go on for ever.  The retries themselves, which refill   *)
(* and cap the bucket and restart its clock each time, those of streams     *)
(* with an amount above the capacity included, never keep it from filling   *)
(* (bandwidth.rs: consume, poll_frame; proxy.rs: the c2b and b2c loops).    *)
(* Nothing is kept aside for whoever waits, so small amounts that keep      *)
(* coming can starve a large one.                                           *)
(***************************************************************************)
OnlyGrantsDelay == \A s \in Streams : <>[]Paused(s) => []<><<Grant(s)>>_vars
=============================================================================
